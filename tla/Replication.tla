---------------------------- MODULE Replication ----------------------------
(***************************************************************************)
(* core.replicate (replication.go): the wait that follows a write, and     *)
(* replicationTargets before it.  Each step of replicate is one exec of    *)
(* core.exec, which takes as long as it takes and may fail; the object     *)
(* travels from the pinned source to the other domain controllers on its   *)
(* own, or when Sync-ADObject pushes it.  replicate_verify.ps1 asks the    *)
(* targets one after the other, so one answer mixes several moments.       *)
(***************************************************************************)
EXTENDS Naturals

CONSTANTS Servers, Source,          \* the domain controllers, and the pinned one
          Timeout, PollInterval     \* ReplicationConfig, in ticks of the clock

ASSUME ServersAssumption == Source \in Servers
ASSUME TimesAssumption == Timeout \in Nat /\ PollInterval \in Nat \ {0}

VARIABLES
  config,               \* ReplicationConfig: Wait, ForceSync, Targets and whether that is "all"
  now,                  \* the clock, started when the deadline is set; it stops at Horizon
  ended,                \* is the caller's context done?
  present,              \* the servers that have the object
  pc,                   \* where replicate is
  targets,              \* the servers it waits for
  unasked, found,       \* the verify under way: targets it has yet to ask, targets that have the object
  pending,              \* the targets without it
  wake,                 \* when the timer of PollInterval fires
  result                \* what replicate returned: "ok", a Kind or "error", that of a failed exec

worldVars == <<now, ended, present>>
pollVars == <<unasked, found>>
vars == <<config, worldVars, pc, targets, pollVars, pending, wake, result>>

Horizon == Timeout + PollInterval

Configs == [wait : BOOLEAN, forceSync : BOOLEAN, all : BOOLEAN, targets : SUBSET Servers]

TypeOK ==
  /\ config \in Configs
  /\ now \in 0..Horizon /\ ended \in BOOLEAN
  /\ present \subseteq Servers
  /\ pc \in {"targets", "sync", "verify", "judge", "sleep", "done"}
  /\ targets \subseteq Servers /\ unasked \subseteq targets
  /\ found \subseteq targets /\ pending \subseteq targets
  /\ wake \in 0..Horizon
  /\ result \in {"none", "ok", "replication", "transport", "error"}

(* The write has just been done, on the source. *)
Init ==
  /\ config \in Configs
  /\ now = 0 /\ ended = FALSE
  /\ present \in {s \in SUBSET Servers : Source \in s}
  /\ pc = "targets"
  /\ targets = {} /\ unasked = {} /\ found = {} /\ pending = {} /\ wake = 0
  /\ result = "none"
-----------------------------------------------------------------------------
Return(r) == /\ result' = r
             /\ pc' = "done"

(* Plausible bug: the pinned source is waited for like any other. *)
TargetsWithSource == IF config.all THEN Servers ELSE config.targets

(* replicationTargets: "all" is expanded by dclist.ps1; the source never counts. *)
Targets == (IF config.all THEN Servers ELSE config.targets) \ {Source}

Poll(servers) == /\ unasked' = servers
                 /\ found' = {}
                 /\ pc' = "verify"

(* The wait is off, or there is nobody to wait for. *)
NothingToWaitFor ==
  /\ pc = "targets" /\ (~config.wait \/ Targets = {})
  /\ Return("ok")
  /\ UNCHANGED <<config, worldVars, targets, pollVars, pending, wake>>

TargetsFail ==
  /\ pc = "targets" /\ config.wait /\ config.all
  /\ Return("error")
  /\ UNCHANGED <<config, worldVars, targets, pollVars, pending, wake>>

TargetsKnown ==
  /\ pc = "targets" /\ config.wait /\ Targets # {}
  /\ targets' = Targets
  /\ IF config.forceSync THEN pc' = "sync" /\ UNCHANGED pollVars ELSE Poll(Targets)
  /\ UNCHANGED <<config, worldVars, pending, wake, result>>

(* replicate.ps1 pushes the object to one target after the other and stops at the first   *)
(* failure, which is only logged: any of the targets may have got it.                     *)
Sync ==
  /\ pc = "sync"
  /\ \E pushed \in SUBSET targets : present' = present \cup pushed
  /\ Poll(targets)
  /\ UNCHANGED <<config, now, ended, targets, pending, wake, result>>

(* replicate_verify.ps1 asks one target; one that cannot be asked counts as without the object. *)
Ask ==
  /\ pc = "verify"
  /\ \E t \in unasked :
       /\ unasked' = unasked \ {t}
       /\ \E answer \in {{}, {t} \cap present} : found' = found \cup answer
       /\ pc' = IF unasked = {t} THEN "judge" ELSE pc
  /\ UNCHANGED <<config, worldVars, targets, pending, wake, result>>

(* Plausible bug: a poll that failed is only logged, like a push that failed. *)
VerifyFailsIgnored ==
  /\ pc = "verify"
  /\ Return("ok")
  /\ UNCHANGED <<config, worldVars, targets, pollVars, pending, wake>>

VerifyFails ==
  /\ pc = "verify"
  /\ Return("error")
  /\ UNCHANGED <<config, worldVars, targets, pollVars, pending, wake>>

StillPending == targets \ found

(* The deadline is looked at after the poll, so the last poll may end after it. *)
(* Plausible bug: it is set anew in each round. *)
TimeIsUpRestarted == now >= now + Timeout
TimeIsUp == now >= Timeout

Judge ==
  /\ pc = "judge"
  /\ pending' = StillPending
  /\ \/ pending' = {} /\ Return("ok") /\ UNCHANGED wake
     \/ pending' # {} /\ TimeIsUp /\ Return("replication") /\ UNCHANGED wake
     \/ pending' # {} /\ ~TimeIsUp /\ wake' = now + PollInterval /\ pc' = "sleep" /\ UNCHANGED result
  /\ UNCHANGED <<config, worldVars, targets, pollVars>>

Cancelled ==
  /\ pc = "sleep" /\ ended
  /\ Return("transport")
  /\ UNCHANGED <<config, worldVars, targets, pollVars, pending, wake>>

(* Plausible bug: the timer is stopped when the wait begins. *)
WakeNever == FALSE

Wake ==
  /\ pc = "sleep" /\ now >= wake
  /\ Poll(targets)
  /\ UNCHANGED <<config, worldVars, targets, pending, wake, result>>

(* The world outside. *)
Tick == /\ pc \in {"verify", "judge", "sleep"} /\ now < Horizon
        /\ now' = now + 1
        /\ UNCHANGED <<config, ended, present, pc, targets, pollVars, pending, wake, result>>

ContextEnds == /\ ~ended
               /\ ended' = TRUE
               /\ UNCHANGED <<config, now, present, pc, targets, pollVars, pending, wake, result>>

Arrive == /\ \E s \in Servers \ present : present' = present \cup {s}
          /\ UNCHANGED <<config, now, ended, pc, targets, pollVars, pending, wake, result>>

Replicate == \/ NothingToWaitFor \/ TargetsFail \/ TargetsKnown \/ Sync
             \/ Ask \/ VerifyFails \/ Judge \/ Cancelled \/ Wake

Next == Replicate \/ Tick \/ ContextEnds \/ Arrive

Spec == Init /\ [][Next]_vars

(* An exec ends and a timer fires; the clock runs on.  Nothing is assumed of the replication. *)
Fairness == WF_vars(Replicate) /\ WF_vars(Tick)

FairSpec == Spec /\ Fairness
-----------------------------------------------------------------------------
(* nil means what the caller takes it for: with the wait on, every target  *)
(* has the object, however the answers of the polls were spread over time. *)
NilMeansReplicated == result = "ok" /\ config.wait => Targets \subseteq present

(* KindReplication is an honest timeout: the time is up, and the targets   *)
(* it names, never the source, are those the last poll did not find.       *)
TimeoutIsHonest ==
  result = "replication" => /\ now >= Timeout
                            /\ pending # {} /\ Source \notin pending
                            /\ pending \cap found = {} /\ Targets \ pending \subseteq present

(* "A non-nil OU together with a non-nil error: that is the replication-   *)
(* timeout contract" (ou.go): no other error comes beside a model.         *)
ModelBesideTimeoutOnly == pc = "done" => result \in {"ok", "replication"}

(* The wait ends, even if the object never arrives.                        *)
WaitEnds == <>(pc = "done")
=============================================================================
