------------------------- MODULE ReplicationProofs -------------------------
(***************************************************************************)
(* Theorems about Replication for every set of servers, every timeout and  *)
(* every poll interval.                                                    *)
(***************************************************************************)
EXTENDS Replication, TLAPS

(* What a poll has found is there, and replicate waits for the right servers. *)
PollIsTrue ==
  /\ found \subseteq present
  /\ pc = "targets" => unasked = {} /\ found = {} /\ pending = {}
  /\ pc \in {"sync", "verify", "judge", "sleep"} => targets = Targets

(* What each way to return leaves behind. *)
ReturnIsTrue ==
  /\ pc = "done" <=> result # "none"
  /\ result = "ok" /\ config.wait => Targets \subseteq present
  /\ result = "replication" => /\ now >= Timeout
                               /\ pending # {} /\ pending = targets \ found
                               /\ targets = Targets

IInv == TypeOK /\ PollIsTrue /\ ReturnIsTrue
-----------------------------------------------------------------------------
(* replicationTargets names servers other than the pinned one. *)
LEMMA TargetsFacts == config \in Configs => Targets \subseteq Servers /\ Source \notin Targets
BY DEF Configs, Targets

(* Nothing has been asked or returned before the first exec. *)
LEMMA InitInv == Init => IInv
<1> SUFFICES ASSUME Init PROVE IInv
  OBVIOUS
<1>1. 0 \in 0..Horizon
  BY TimesAssumption DEF Horizon
<1>2. present \subseteq Servers
  BY DEF Init
<1> QED
  BY <1>1, <1>2 DEF Init, IInv, TypeOK, PollIsTrue, ReturnIsTrue

(* Every step of replicate keeps IInv. *)
LEMMA ReplicateInv ==
  ASSUME IInv, Replicate
  PROVE  IInv'
<1> USE DEF IInv, TypeOK, PollIsTrue, ReturnIsTrue, worldVars, pollVars, Return
<1>0. Targets' = Targets /\ Targets \subseteq Servers
  BY TargetsFacts DEF Replicate, NothingToWaitFor, TargetsFail, TargetsKnown, Sync, Ask, VerifyFails,
                      Judge, Cancelled, Wake, Targets
<1>1. CASE NothingToWaitFor
  <2>1. pc = "targets" /\ (config.wait => Targets = {})
    BY <1>1 DEF NothingToWaitFor, TypeOK, Configs
  <2>2. pc' = "done" /\ result' = "ok"
        /\ UNCHANGED <<config, worldVars, targets, pollVars, pending, wake>>
    BY <1>1 DEF NothingToWaitFor
  <2> QED
    BY <1>0, <2>1, <2>2
<1>2. CASE TargetsFail \/ VerifyFails \/ Cancelled
  BY <1>0, <1>2 DEF TargetsFail, VerifyFails, Cancelled
<1>3. CASE TargetsKnown
  BY <1>0, <1>3 DEF TargetsKnown, Poll
<1>4. CASE Sync
  BY <1>0, <1>4 DEF Sync, Poll
<1>5. CASE Ask
  BY <1>0, <1>5 DEF Ask
<1>6. CASE Judge
  <2>1. pending' = Targets \ found /\ pc = "judge" /\ targets = Targets /\ result = "none"
    BY <1>6 DEF Judge, StillPending
  <2>2. UNCHANGED <<config, now, ended, present, targets, unasked, found>>
    BY <1>6 DEF Judge
  <2>3. CASE pending' = {} /\ Return("ok") /\ UNCHANGED wake
    BY <1>0, <2>1, <2>2, <2>3
  <2>4. CASE pending' # {} /\ TimeIsUp /\ Return("replication") /\ UNCHANGED wake
    BY <1>0, <2>1, <2>2, <2>4 DEF TimeIsUp
  <2>5. CASE pending' # {} /\ ~TimeIsUp /\ wake' = now + PollInterval /\ pc' = "sleep" /\ UNCHANGED result
    <3>1. wake' \in 0..Horizon
      BY <2>5, TimesAssumption DEF TimeIsUp, Horizon
    <3> QED
      BY <1>0, <2>1, <2>2, <2>5, <3>1
  <2> QED
    BY <1>6, <2>3, <2>4, <2>5 DEF Judge
<1>7. CASE Wake
  BY <1>0, <1>7 DEF Wake, Poll
<1> QED
  BY <1>1, <1>2, <1>3, <1>4, <1>5, <1>6, <1>7 DEF Replicate

(* So do the clock, the caller's context and the replication between the servers. *)
LEMMA WorldInv ==
  ASSUME IInv, Tick \/ ContextEnds \/ Arrive \/ UNCHANGED vars
  PROVE  IInv'
<1> USE DEF IInv, TypeOK, PollIsTrue, ReturnIsTrue, worldVars, pollVars
<1>0. Targets' = Targets
  BY DEF Tick, ContextEnds, Arrive, vars, Targets
<1>1. CASE Tick
  <2>1. now' \in 0..Horizon /\ now' = now + 1
    BY <1>1, TimesAssumption DEF Tick, Horizon
  <2>2. pc # "done"
    BY <1>1 DEF Tick
  <2>3. UNCHANGED <<config, ended, present, pc, targets, pollVars, pending, wake, result>>
    BY <1>1 DEF Tick
  <2> QED
    BY <1>0, <2>1, <2>2, <2>3
<1>2. CASE ContextEnds
  BY <1>0, <1>2 DEF ContextEnds
<1>3. CASE Arrive
  BY <1>0, <1>3 DEF Arrive
<1>4. CASE UNCHANGED vars
  BY <1>0, <1>4 DEF vars
<1> QED
  BY <1>1, <1>2, <1>3, <1>4

(* IInv is inductive, so it holds in every state of the wait. *)
THEOREM Invariance == Spec => []IInv
<1>1. IInv /\ [Next]_vars => IInv'
  BY ReplicateInv, WorldInv DEF Next
<1> QED
  BY <1>1, InitInv, PTL DEF Spec
-----------------------------------------------------------------------------
(* Every variable of the wait keeps its type: the polls only ever concern  *)
(* configured servers, and no timer is set past one interval after the     *)
(* deadline.                                                               *)
THEOREM TypeCorrect == Spec => []TypeOK
<1>1. IInv => TypeOK
  BY DEF IInv
<1> QED
  BY <1>1, Invariance, PTL

(* When replicate returns nil with the wait on, every target has the       *)
(* object, although one verdict mixes answers of several moments.          *)
THEOREM NilIsTrue == Spec => []NilMeansReplicated
<1>1. IInv => NilMeansReplicated
  BY DEF IInv, ReturnIsTrue, NilMeansReplicated
<1> QED
  BY <1>1, Invariance, PTL

(* When replicate returns KindReplication, the deadline has passed, and    *)
(* the targets it names are those its last poll did not find.              *)
THEOREM TimeoutIsTrue == Spec => []TimeoutIsHonest
<1>1. IInv => TimeoutIsHonest
  BY TargetsFacts DEF IInv, TypeOK, PollIsTrue, ReturnIsTrue, TimeoutIsHonest
<1> QED
  BY <1>1, Invariance, PTL
=============================================================================
