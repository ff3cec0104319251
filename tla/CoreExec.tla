------------------------------ MODULE CoreExec ------------------------------
(***************************************************************************)
(* core.exec (core.go) under a create (OUClient.Create and its siblings):  *)
(* the retry loop over a transport that keeps TransportContract, the       *)
(* envelope and its classification, the backoff, and the second exec that  *)
(* annotateAlreadyExists makes.  The script is the constant New-AD* text   *)
(* of internal/adscript/ops: one write, then a read-back by objectGUID, in *)
(* one try block, so a failed read-back answers for the write as well.     *)
(***************************************************************************)
EXTENDS Naturals

CONSTANTS Calls,            \* the calls of Create
          Names,            \* the names (sAMAccountName, or RDN and parent) objects may have
          MaxAttempts       \* RetryConfig.MaxAttempts after WithDefaults

ASSUME MaxAttemptsAssumption == MaxAttempts \in Nat \ {0}

Ops == {"create", "probe"}
Attempts == Calls \X Ops \X (1..MaxAttempts)        \* the calls of Transport.Run

VARIABLES
  name,               \* SamAccountName or Name of the spec of each call
  tombsBlock,         \* does a deleted object keep its name?  TRUE for accounts, FALSE for OUs
  live, tombs,        \* names of the objects in the directory, and in its Recycle Bin
  outcome, applied,   \* the transport's, see TransportContract
  reply,              \* what the script of each attempt answered, if it ran
  pc, op, attempt,    \* of each call: where it is, which exec, the loop's counter
  result,             \* the Kind of the error the call returns, or "ok"
  tombstoned,         \* Error.Tombstoned
  ended               \* the caller's context is done

serverVars == <<live, tombs>>
transportVars == <<outcome, applied>>
callVars == <<pc, op, attempt, result, tombstoned>>
vars == <<name, tombsBlock, serverVars, transportVars, reply, callVars, ended>>

Transport == INSTANCE TransportContract WITH Runs <- Attempts

(* The answers of the two scripts.  "down" is ADServerDownException and    *)
(* "unknown" an exception no table lists, from the write (nothing done)    *)
(* or, after it, from the read-back.                                       *)
HalfDone == {"downAfterWrite", "unknownAfterWrite"}
Replies == HalfDone \cup {"none", "ok", "exists", "nameHeld", "denied", "down", "unknown",
                         "found", "notFound"}
Kinds == {"AlreadyExists", "Denied", "Transient", "Transport", "Unknown"}

TypeOK ==
  /\ Transport!TypeOK
  /\ name \in [Calls -> Names] /\ tombsBlock \in BOOLEAN
  /\ live \subseteq Names /\ tombs \subseteq Names
  /\ reply \in [Attempts -> Replies]
  /\ pc \in [Calls -> {"run", "backoff", "done"}]
  /\ op \in [Calls -> Ops]
  /\ attempt \in [Calls -> 1..MaxAttempts]
  /\ result \in [Calls -> Kinds \cup {"pending", "ok"}]
  /\ tombstoned \in [Calls -> BOOLEAN]
  /\ ended \in [Calls -> BOOLEAN]

Init ==
  /\ Transport!Init
  /\ name \in [Calls -> Names] /\ tombsBlock \in BOOLEAN
  /\ live \in SUBSET Names
  /\ tombs \in SUBSET IF tombsBlock THEN Names \ live ELSE Names
  /\ reply = [a \in Attempts |-> "none"]
  /\ pc = [c \in Calls |-> "run"]
  /\ op = [c \in Calls |-> "create"]
  /\ attempt = [c \in Calls |-> 1]
  /\ result = [c \in Calls |-> "pending"]
  /\ tombstoned = [c \in Calls |-> FALSE]
  /\ ended = [c \in Calls |-> FALSE]
-----------------------------------------------------------------------------
(* Classify: the Kind of the error an ok = false envelope carries; what    *)
(* the table does not list is Unknown.                                     *)
classByType == [exists |-> "AlreadyExists", nameHeld |-> "AlreadyExists", denied |-> "Denied",
                down |-> "Transient", downAfterWrite |-> "Transient"]
Classify(answer) == IF answer \in DOMAIN classByType THEN classByType[answer] ELSE "Unknown"

Succeeded(answer) == answer \in {"ok", "found", "notFound"}

(* Plausible bug: a dropped connection is retried like a busy server. *)
RetryableTransport(kind) == kind \in {"Transient", "Transport"}
Retryable(kind) == kind = "Transient"       \* adcore's Kind.Retryable

(* The attempt call c is making, and those it has made. *)
Current(c) == <<c, op[c], attempt[c]>>
Started(a) == \/ a[2] = op[a[1]] /\ a[3] <= attempt[a[1]]
              \/ a[2] = "create" /\ outcome[a] # "pending"

Answer(a, answer) == reply' = [reply EXCEPT ![a] = answer]

(* <op>_create.ps1 on the server: New-AD* is refused, or fails, or writes; then Get-AD*. *)
CreateScript(a) ==
  LET n == name[a[1]] IN
  \/ /\ \E answer \in {"denied", "down", "unknown"} : Answer(a, answer)
     /\ UNCHANGED serverVars
  \/ /\ n \in live
     /\ Answer(a, "exists")
     /\ UNCHANGED serverVars
  \/ /\ n \notin live /\ tombsBlock /\ n \in tombs
     /\ Answer(a, "nameHeld")
     /\ UNCHANGED serverVars
  \/ /\ n \notin live /\ (tombsBlock => n \notin tombs)
     /\ live' = live \cup {n}
     /\ \E answer \in {"ok"} \cup HalfDone : Answer(a, answer)
     /\ UNCHANGED tombs

(* deleted_probe.ps1: does the Recycle Bin hold an object of this name? *)
ProbeScript(a) ==
  /\ \/ Answer(a, IF name[a[1]] \in tombs THEN "found" ELSE "notFound")
     \/ \E answer \in {"denied", "down", "unknown"} : Answer(a, answer)
  /\ UNCHANGED serverVars

ScriptRuns(a) ==
  /\ Started(a)
  /\ Transport!TakeEffect(a)
  /\ IF a[2] = "create" THEN CreateScript(a) ELSE ProbeScript(a)
  /\ UNCHANGED <<name, tombsBlock, callVars, ended>>
-----------------------------------------------------------------------------
(* exec returns verdict v to its caller: Create asks for the cause of an   *)
(* AlreadyExists, and a probe that failed is swallowed.                    *)
ExecReturns(c, v) ==
  \/ /\ op[c] = "create" /\ v = "AlreadyExists"
     /\ op' = [op EXCEPT ![c] = "probe"]
     /\ attempt' = [attempt EXCEPT ![c] = 1]
     /\ pc' = [pc EXCEPT ![c] = "run"]
     /\ result' = [result EXCEPT ![c] = v]
     /\ UNCHANGED tombstoned
  \/ /\ op[c] = "create" /\ v # "AlreadyExists"
     /\ result' = [result EXCEPT ![c] = v]
     /\ pc' = [pc EXCEPT ![c] = "done"]
     /\ UNCHANGED <<op, attempt, tombstoned>>
  \/ /\ op[c] = "probe"
     /\ tombstoned' = [tombstoned EXCEPT ![c] = v = "ok" /\ reply[Current(c)] = "found"]
     /\ pc' = [pc EXCEPT ![c] = "done"]
     /\ UNCHANGED <<op, attempt, result>>

(* Plausible bug: one attempt too many. *)
AttemptsLeftOffByOne(c) == attempt[c] <= MaxAttempts
AttemptsLeft(c) == attempt[c] < MaxAttempts

(* The body of the retry loop once Run has given verdict v. *)
Loop(c, v) ==
  IF Retryable(v) /\ AttemptsLeft(c)
    THEN /\ pc' = [pc EXCEPT ![c] = "backoff"]
         /\ UNCHANGED <<op, attempt, result, tombstoned>>
    ELSE ExecReturns(c, v)

(* Run returns a Result: ParseEnvelope reads it.  A non-zero exit, no      *)
(* envelope, as of a PowerShell that died, or one that does not decode is  *)
(* KindTransport, whatever the script did; a clean envelope carries the    *)
(* script's answer.                                                        *)
ResultArrives(c) ==
  /\ pc[c] = "run"
  /\ \/ Transport!Return(Current(c), "bare") /\ Loop(c, "Transport")
     \/ Transport!Return(Current(c), "ok") /\ Loop(c, "Transport")
     \/ /\ Transport!Return(Current(c), "ok")
        /\ Loop(c, IF Succeeded(reply[Current(c)]) THEN "ok" ELSE Classify(reply[Current(c)]))
  /\ UNCHANGED <<name, tombsBlock, serverVars, reply, ended>>

(* Run returns an error: asError keeps its Kind; any other error is KindTransport. *)
RunFails(c) ==
  /\ pc[c] = "run"
  /\ \/ Transport!Return(Current(c), "transient") /\ Loop(c, "Transient")
     \/ Transport!Return(Current(c), "transport") /\ Loop(c, "Transport")
  /\ UNCHANGED <<name, tombsBlock, serverVars, reply, ended>>

(* Plausible bug: the timer is stopped at once instead of on return, and never fires. *)
BackoffNeverElapses(c) == FALSE

(* backoff: its timer fires and the loop goes round ... *)
BackoffElapses(c) ==
  /\ pc[c] = "backoff"
  /\ attempt' = [attempt EXCEPT ![c] = @ + 1]
  /\ pc' = [pc EXCEPT ![c] = "run"]
  /\ UNCHANGED <<name, tombsBlock, serverVars, transportVars, reply, op, result, tombstoned, ended>>

(* ... or the context ends, and exec returns that instead of lastErr. *)
BackoffCancelled(c) ==
  /\ pc[c] = "backoff" /\ ended[c]
  /\ ExecReturns(c, "Transport")
  /\ UNCHANGED <<name, tombsBlock, serverVars, transportVars, reply, ended>>

(* The world outside: contexts end; other clients create and delete objects. *)
ContextEnds(c) ==
  /\ ~ended[c] /\ pc[c] # "done"
  /\ ended' = [ended EXCEPT ![c] = TRUE]
  /\ UNCHANGED <<name, tombsBlock, serverVars, transportVars, reply, callVars>>

OtherCreates(n) ==
  /\ n \notin live /\ (tombsBlock => n \notin tombs)
  /\ live' = live \cup {n}
  /\ UNCHANGED <<name, tombsBlock, tombs, transportVars, reply, callVars, ended>>

OtherDeletes(n) ==
  /\ n \in live
  /\ live' = live \ {n}
  /\ tombs' = tombs \cup {n}
  /\ UNCHANGED <<name, tombsBlock, transportVars, reply, callVars, ended>>

Create(c) == ResultArrives(c) \/ RunFails(c) \/ BackoffElapses(c) \/ BackoffCancelled(c)

Next == \/ \E c \in Calls : Create(c) \/ ContextEnds(c)
        \/ \E a \in Attempts : ScriptRuns(a)
        \/ \E n \in Names : OtherCreates(n) \/ OtherDeletes(n)

Spec == Init /\ [][Next]_vars

(* Run returns and a timer fires; nothing is assumed of contexts, scripts or other clients. *)
Fairness == \A c \in Calls : WF_vars(Create(c))

FairSpec == Spec /\ Fairness
-----------------------------------------------------------------------------
Wrote(a) == reply[a] \in {"ok"} \cup HalfDone
CreateAttempts(c) == {c} \X {"create"} \X (1..MaxAttempts)
ReadBackLost(c) == \E a \in CreateAttempts(c) : reply[a] \in HalfDone
Refusals == {"AlreadyExists", "Denied", "Unknown"}

(* What Create reports is what it did.  Success means that one attempt     *)
(* wrote the object and read it back; a refusal by AD means that this call *)
(* has written nothing and never will, through every lost or garbled       *)
(* answer and every retry before it, as long as the DC did not fail        *)
(* between a write and its read-back.                                      *)
ReportIsTruthful ==
  \A c \in Calls :
    /\ result[c] = "ok" => \E a \in CreateAttempts(c) : reply[a] = "ok"
    /\ result[c] \in Refusals /\ ~ReadBackLost(c) => \A a \in CreateAttempts(c) : ~Wrote(a)

(* The bulk of the doubled writes core.exec guards against: once an        *)
(* attempt of a create has written and its answer went missing on the way  *)
(* (KindTransport), the call is over; no other attempt of it is sent.      *)
LostAnswerEndsCall ==
  [][\A c \in Calls : attempt'[c] > attempt[c] /\ op[c] = "create"
                       => \A a \in CreateAttempts(c) : reply[a] # "ok"]_vars

(* "KindTransient ... means the operation provably did not execute"        *)
(* (wrap.go): whatever core.exec sends again has not been written.         *)
RetryOnlyUntouched ==
  [][\A c \in Calls : attempt'[c] > attempt[c] /\ op[c] = "create"
                       => \A a \in CreateAttempts(c) : ~Wrote(a)]_vars

(* Create returns: the retries and the probe come to an end, whatever the  *)
(* transport and the directory answer.                                     *)
CreateReturns == \A c \in Calls : <>(pc[c] = "done")
=============================================================================
