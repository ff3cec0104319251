-------------------------- MODULE WarmPoolProofs --------------------------
(***************************************************************************)
(* Theorems about WarmPool for every set of calls, conns and executors and *)
(* for both back ends.                                                     *)
(***************************************************************************)
EXTENDS WarmPool, FiniteSetTheorems, TLAPS

(* A Run holds a conn exactly between its checkout and its return. *)
HoldsWhileRunning == \A r \in Runs : holds[r] = None <=> pc[r] \in {"checkout", "done"}

TypeInv == TypeOK /\ HoldsWhileRunning

(* New leaves the pool with its variables typed and no conn out. *)
LEMMA InitType == Init => TypeInv
<1> SUFFICES ASSUME Init PROVE TypeInv
  OBVIOUS
<1>1. Cardinality(Conns) \in Nat
  BY ConnsAssumption, FS_CardinalityType
<1>2. idle \in Seq(Conns)
  BY <1>1 DEF Init
<1>3. HoldsWhileRunning
  BY DEF Init, HoldsWhileRunning
<1> QED
  BY <1>2, <1>3 DEF Init, TypeInv, TypeOK, Shells, Labels, Failures

(* invalidate's rebuild keeps the types of the conns and the executors. *)
LEMMA RebuildType ==
  ASSUME TypeOK, NEW c, Rebuild(c)
  PROVE  exec' \in [Conns -> Execs] /\ up' \in [Conns -> BOOLEAN] /\ shell' \in [Execs -> Shells]
<1>1. up' \in [Conns -> BOOLEAN]
  BY DEF TypeOK, Rebuild
<1>2. exec' \in [Conns -> Execs]
  BY DEF TypeOK, Rebuild
<1> DEFINE closed == [shell EXCEPT ![exec[c]] = IF @ \in {"open", "dead"} THEN "closed" ELSE @]
<1>3. closed \in [Execs -> Shells]
  BY DEF TypeOK, Shells
<1>4. shell' = closed \/ \E fresh \in Execs : shell' = [closed EXCEPT ![fresh] = "built"]
  BY DEF Rebuild
<1>5. shell' \in [Execs -> Shells]
  BY <1>3, <1>4 DEF Shells
<1> QED
  BY <1>1, <1>2, <1>5

(* A failed Execute only touches err, pc and outcome of its call. *)
LEMMA FailType ==
  ASSUME TypeInv, NEW r \in Runs, NEW failure \in Failures, Fail(r, failure),
         pc[r] \in {"create", "invoke", "wait"}
  PROVE  /\ err' \in [Runs -> Failures \cup {"none"}]
         /\ pc' \in [Runs -> Labels]
         /\ outcome' \in [Runs -> {"pending", "ok", "transient", "transport"}]
         /\ HoldsWhileRunning'
         /\ UNCHANGED <<connVars, holds, cancelled, attempt, reaperVars, closerVars>>
<1> USE DEF TypeInv, TypeOK, Labels, Failures
<1>1. err' = [err EXCEPT ![r] = failure]
  BY DEF Fail
<1>2. holds' = holds /\ UNCHANGED <<connVars, holds, cancelled, attempt, reaperVars, closerVars>>
  BY DEF Fail
<1>3. \/ pc' = [pc EXCEPT ![r] = "triage"] /\ outcome' = outcome
      \/ pc' = [pc EXCEPT ![r] = "return"] /\ outcome' = [outcome EXCEPT ![r] = MapError(failure)]
  BY DEF Fail, Finish
<1>4. MapError(failure) \in {"transient", "transport"}
  BY DEF MapError
<1>5. HoldsWhileRunning'
  BY <1>2, <1>3 DEF HoldsWhileRunning
<1> QED
  BY <1>1, <1>2, <1>3, <1>4, <1>5

(* The steps of one Run keep the types. *)
LEMMA RunType ==
  ASSUME TypeInv, NEW r \in Runs, Run(r)
  PROVE  TypeInv'
<1> USE DEF TypeInv, TypeOK, Labels
<1>1. CASE Checkout(r)
  BY <1>1, ConnsAssumption DEF Checkout, HoldsWhileRunning, Step, serverVars, reaperVars, closerVars
<1>2. CASE GiveUp(r)
  BY <1>2 DEF GiveUp, HoldsWhileRunning, Step, connVars, serverVars, reaperVars, closerVars
<1>3. CASE DecodeFails(r) \/ ConnectFails(r)
  BY <1>3 DEF DecodeFails, ConnectFails, Finish, HoldsWhileRunning, connVars, serverVars, reaperVars,
              closerVars
<1>4. CASE AlreadyUp(r) \/ CreatePipeline(r)
  BY <1>4 DEF AlreadyUp, CreatePipeline, Step, HoldsWhileRunning, connVars, serverVars, reaperVars,
              closerVars
<1>5. CASE ConnectSucceeds(r)
  <2>1. shell' \in [Execs -> Shells]
    BY <1>5 DEF ConnectSucceeds, Shells
  <2>2. up' \in [Conns -> BOOLEAN]
    BY <1>5 DEF ConnectSucceeds
  <2>3. HoldsWhileRunning'
    BY <1>5 DEF ConnectSucceeds, Step, HoldsWhileRunning
  <2> QED
    BY <1>5, <2>1, <2>2, <2>3 DEF ConnectSucceeds, Step, serverVars, reaperVars, closerVars
<1>6. CASE CreateFails(r)
  <2>1. PICK failure \in Failures : Fail(r, failure)
    BY <1>6 DEF CreateFails, Failures
  <2> QED
    BY <1>6, <2>1, FailType DEF CreateFails, connVars, serverVars, reaperVars, closerVars
<1>7. CASE Invoke(r)
  BY <1>7 DEF Invoke, Deliver, Step, HoldsWhileRunning, connVars, serverVars, reaperVars, closerVars
<1>8. CASE InvokeFails(r)
  <2>1. PICK failure \in Failures : Fail(r, failure)
    BY <1>8 DEF InvokeFails, Failures
  <2>2. sent' \in [Runs -> Nat] /\ applied' = applied
    BY <1>8 DEF InvokeFails, Deliver
  <2> QED
    BY <1>8, <2>1, <2>2, FailType DEF InvokeFails, connVars, reaperVars, closerVars
<1>9. CASE WaitSucceeds(r)
  BY <1>9 DEF WaitSucceeds, Finish, HoldsWhileRunning, connVars, serverVars, reaperVars, closerVars
<1>10. CASE WaitFails(r)
  <2>1. PICK failure \in Failures : Fail(r, failure)
    BY <1>10 DEF WaitFails, Failures
  <2> QED
    BY <1>10, <2>1, FailType DEF WaitFails, connVars, serverVars, reaperVars, closerVars
<1>11. CASE Triage(r)
  BY <1>11 DEF Triage, Finish, MapError, HoldsWhileRunning, connVars, serverVars, reaperVars, closerVars
<1>12. CASE Invalidate(r)
  <2>1. /\ exec' \in [Conns -> Execs] /\ up' \in [Conns -> BOOLEAN] /\ shell' \in [Execs -> Shells]
    BY <1>12, RebuildType DEF Invalidate
  <2>2. attempt' \in [Runs -> {1, 2}]
    <3>1. attempt' = [attempt EXCEPT ![r] = 2] \/ attempt' = attempt
      BY <1>12 DEF Invalidate
    <3> QED
      BY <3>1
  <2>5. pc' \in [Runs -> Labels]
    <3>1. pc' = [pc EXCEPT ![r] = "connect"] \/ pc' = [pc EXCEPT ![r] = "return"]
      BY <1>12 DEF Invalidate, Finish
    <3>2. pc \in [Runs -> Labels] /\ "connect" \in Labels /\ "return" \in Labels
      OBVIOUS
    <3> HIDE DEF Labels, TypeInv, TypeOK
    <3> QED
      BY <3>1, <3>2
  <2>3. outcome' \in [Runs -> {"pending", "ok", "transient", "transport"}]
    BY <1>12 DEF Invalidate, Finish, MapError
  <2>4. HoldsWhileRunning'
    BY <1>12 DEF Invalidate, Finish, HoldsWhileRunning
  <2> QED
    BY <1>12, <2>1, <2>2, <2>3, <2>4, <2>5 DEF Invalidate, serverVars, reaperVars, closerVars
<1>13. CASE ReturnConn(r)
  <2>1. holds[r] \in Conns
    BY <1>13 DEF ReturnConn, Step, HoldsWhileRunning
  <2>2. idle' \in Seq(Conns) /\ HoldsWhileRunning'
    BY <1>13, <2>1 DEF ReturnConn, Step, HoldsWhileRunning
  <2>3. holds' \in [Runs -> Conns \cup {None}] /\ err' \in [Runs -> Failures \cup {"none"}]
        /\ attempt' \in [Runs -> {1, 2}] /\ pc' \in [Runs -> Labels]
    BY <1>13 DEF ReturnConn, Step
  <2> QED
    BY <1>13, <2>2, <2>3 DEF ReturnConn, serverVars, closerVars
<1> QED
  BY <1>1, <1>2, <1>3, <1>4, <1>5, <1>6, <1>7, <1>8, <1>9, <1>10, <1>11, <1>12, <1>13
  DEF Run, Connect, Execute

(* So do those of the reaper, of Close and of the world outside. *)
LEMMA BackgroundType ==
  ASSUME TypeInv, Reap \/ Close \/ Environment
  PROVE  TypeInv'
<1> USE DEF TypeInv, TypeOK, HoldsWhileRunning, connVars, runVars, serverVars, reaperVars, closerVars
<1>1. CASE Tick
  BY <1>1 DEF Tick
<1>2. CASE ReapTake
  BY <1>2 DEF ReapTake
<1>3. CASE ReapReturn
  <2>1. exec' \in [Conns -> Execs] /\ up' \in [Conns -> BOOLEAN] /\ shell' \in [Execs -> Shells]
    BY <1>3, RebuildType DEF ReapReturn
  <2> QED
    BY <1>3, <2>1 DEF ReapReturn
<1>4. CASE EndSweep
  BY <1>4 DEF EndSweep
<1>10. CASE ReaperStops
  BY <1>10 DEF ReaperStops
<1>5. CASE CloseBegins \/ ReaperGone \/ CloseReturns
  BY <1>5 DEF CloseBegins, ReaperGone, CloseReturns
<1>6. CASE Drain
  <2>1. shell' \in [Execs -> Shells]
    BY <1>6 DEF Drain, Shells
  <2> QED
    BY <1>6, <2>1 DEF Drain
<1>7. ASSUME NEW e \in Execs, ShellDies(e) PROVE TypeInv'
  BY <1>7 DEF ShellDies, Shells
<1>8. ASSUME NEW c \in Conns, Elapse(c) PROVE TypeInv'
  BY <1>8 DEF Elapse
<1>9. ASSUME NEW r \in Runs, Cancel(r) PROVE TypeInv'
  BY <1>9 DEF Cancel
<1>11. ASSUME NEW r \in Runs, TakeEffect(r) PROVE TypeInv'
  BY <1>11 DEF TakeEffect
<1>12. ASSUME NEW r \in Runs, ScriptLost(r) PROVE TypeInv'
  BY <1>12 DEF ScriptLost
<1> QED
  BY <1>1, <1>2, <1>3, <1>4, <1>5, <1>6, <1>7, <1>8, <1>9, <1>10, <1>11, <1>12 DEF Reap, Close, Environment

(* Every step of the pool keeps the types. *)
LEMMA NextType == TypeInv /\ [Next]_vars => TypeInv'
<1> SUFFICES ASSUME TypeInv, [Next]_vars PROVE TypeInv'
  OBVIOUS
<1>1. CASE UNCHANGED vars
  BY <1>1 DEF vars, TypeInv, TypeOK, HoldsWhileRunning, connVars, runVars, serverVars, reaperVars,
              closerVars
<1> QED
  BY <1>1, RunType, BackgroundType DEF Next

(* Every variable keeps its type, and a Run holds a conn exactly between   *)
(* its checkout and its return: no path through Run returns without it.    *)
THEOREM TypeCorrect == Spec => [](TypeOK /\ HoldsWhileRunning)
BY InitType, NextType, PTL DEF Spec, TypeInv
-----------------------------------------------------------------------------
(* Why a script is never sent twice: until Invoke nothing has been sent,   *)
(* and the only failures that lead back to Connect, or out of Run as       *)
(* KindTransient, are those raised before Invoke.                          *)
Untouched(r) == sent[r] = 0 /\ applied[r] = 0

EffectOf(r) ==
  /\ sent[r] + applied[r] <= 1
  /\ pc[r] \in {"checkout", "connect", "create", "invoke"} => Untouched(r)
  /\ pc[r] \in {"triage", "invalidate"} /\ err[r] \in {"busy", "presend"} => Untouched(r)
  /\ pc[r] \notin {"return", "done"} => outcome[r] = "pending"
  /\ outcome[r] = "transient" => Untouched(r)
  /\ outcome[r] = "ok" => applied[r] = 1

EffectInv == \A r \in Runs : EffectOf(r)

(* A step that touches nothing EffectOf mentions of r keeps it. *)
LEMMA EffectFrame ==
  ASSUME NEW r \in Runs, EffectOf(r), pc'[r] = pc[r], err'[r] = err[r], outcome'[r] = outcome[r],
         sent'[r] = sent[r], applied'[r] = applied[r]
  PROVE  EffectOf(r)'
BY DEF EffectOf, Untouched

(* A step of call r leaves every other call alone. *)
LEMMA RunFrame ==
  ASSUME TypeInv, NEW r \in Runs, Run(r), NEW s \in Runs, s # r
  PROVE  /\ pc'[s] = pc[s] /\ err'[s] = err[s] /\ outcome'[s] = outcome[s]
         /\ sent'[s] = sent[s] /\ applied'[s] = applied[s]
<1> USE DEF TypeInv, TypeOK, serverVars, Step, Finish
<1>1. CASE Checkout(r) \/ GiveUp(r) \/ DecodeFails(r) \/ ReturnConn(r)
  BY <1>1 DEF Checkout, GiveUp, DecodeFails, ReturnConn
<1>2. CASE Connect(r)
  BY <1>2 DEF Connect, AlreadyUp, ConnectSucceeds, ConnectFails
<1>3. ASSUME NEW failure, Fail(r, failure)
      PROVE  pc'[s] = pc[s] /\ err'[s] = err[s] /\ outcome'[s] = outcome[s]
  BY <1>3 DEF Fail
<1>4. CASE CreateFails(r)
  BY <1>3, <1>4 DEF CreateFails
<1>5. CASE InvokeFails(r)
  BY <1>3, <1>5 DEF InvokeFails, Deliver
<1>6. CASE WaitFails(r)
  BY <1>3, <1>6 DEF WaitFails
<1>7. CASE CreatePipeline(r) \/ Invoke(r) \/ WaitSucceeds(r)
  BY <1>7 DEF CreatePipeline, Invoke, WaitSucceeds, Deliver
<1>8. CASE Triage(r) \/ Invalidate(r)
  BY <1>8 DEF Triage, Invalidate
<1> QED
  BY <1>1, <1>2, <1>4, <1>5, <1>6, <1>7, <1>8 DEF Run, Execute

(* A failure of r's Execute keeps EffectOf(r), if busy and pre-send failures *)
(* are raised only while nothing has been sent.                              *)
LEMMA FailEffect ==
  ASSUME TypeInv, NEW r \in Runs, EffectOf(r), NEW failure \in Failures, Fail(r, failure),
         pc[r] \in {"create", "invoke", "wait"},
         sent'[r] + applied'[r] <= 1,
         failure \in {"busy", "presend"} => Untouched(r)'
  PROVE  EffectOf(r)'
<1> USE DEF TypeInv, TypeOK, Failures, EffectOf
<1>1. err'[r] = failure
  BY DEF Fail
<1>2. CASE attempt[r] = 1
  BY <1>1, <1>2 DEF Fail
<1>3. CASE attempt[r] # 1
  <2>1. pc'[r] = "return" /\ outcome'[r] = MapError(failure)
    BY <1>3 DEF Fail, Finish
  <2>2. outcome'[r] = "transient" => failure = "busy"
    BY <2>1 DEF MapError
  <2>3. outcome'[r] # "ok"
    BY <2>1 DEF MapError
  <2> QED
    BY <2>1, <2>2, <2>3
<1> QED
  BY <1>2, <1>3

(* The steps of call r keep EffectOf(r). *)
LEMMA RunEffect ==
  ASSUME TypeInv, NEW r \in Runs, EffectOf(r), Run(r)
  PROVE  EffectOf(r)'
<1> USE DEF TypeInv, TypeOK, serverVars, EffectOf, Untouched
<1>1. CASE Checkout(r)
  BY <1>1 DEF Checkout, Step
<1>2. CASE GiveUp(r)
  BY <1>2 DEF GiveUp, Step
<1>3. CASE DecodeFails(r)
  BY <1>3 DEF DecodeFails, Finish
<1>4. CASE Connect(r)
  BY <1>4 DEF Connect, AlreadyUp, ConnectSucceeds, ConnectFails, Step, Finish
<1>5. CASE CreatePipeline(r)
  BY <1>5 DEF CreatePipeline, Step
<1>6. CASE CreateFails(r)
  <2>1. PICK failure \in Failures : Fail(r, failure)
    BY <1>6 DEF CreateFails, Failures
  <2>2. Untouched(r)'
    BY <1>6 DEF CreateFails
  <2> QED
    BY <1>6, <2>1, <2>2, FailEffect DEF CreateFails
<1>7. CASE Invoke(r)
  BY <1>7 DEF Invoke, Deliver, Step
<1>8. CASE InvokeFails(r)
  <2>1. PICK failure \in Failures : Fail(r, failure) /\ failure \notin {"busy", "presend"}
    BY <1>8 DEF InvokeFails, Failures
  <2>2. sent'[r] + applied'[r] <= 1
    BY <1>8 DEF InvokeFails, Deliver
  <2> QED
    BY <1>8, <2>1, <2>2, FailEffect DEF InvokeFails
<1>9. CASE WaitSucceeds(r)
  BY <1>9 DEF WaitSucceeds, Finish
<1>10. CASE WaitFails(r)
  <2>1. PICK failure \in Failures : Fail(r, failure) /\ failure \notin {"busy", "presend"}
    BY <1>10 DEF WaitFails, Failures
  <2> QED
    BY <1>10, <2>1, FailEffect DEF WaitFails
<1>11. CASE Triage(r)
  BY <1>11 DEF Triage, Finish, MapError
<1>12. CASE Invalidate(r)
  <2>1. /\ err'[r] = err[r] /\ sent'[r] = sent[r] /\ applied'[r] = applied[r]
    BY <1>12 DEF Invalidate
  <2>2. CASE DeadShell(err[r])
    BY <1>12, <2>1, <2>2 DEF Invalidate, DeadShell
  <2>3. CASE ~DeadShell(err[r])
    BY <1>12, <2>1, <2>3 DEF Invalidate, Finish, MapError
  <2> QED
    BY <2>2, <2>3
<1>13. CASE ReturnConn(r)
  BY <1>13 DEF ReturnConn, Step
<1> QED
  BY <1>1, <1>2, <1>3, <1>4, <1>5, <1>6, <1>7, <1>8, <1>9, <1>10, <1>11, <1>12, <1>13
  DEF Run, Execute

(* Every step of the pool keeps EffectInv. *)
LEMMA NextEffect == TypeInv /\ EffectInv /\ [Next]_vars => EffectInv'
<1> SUFFICES ASSUME TypeInv, EffectInv, [Next]_vars, NEW s \in Runs PROVE EffectOf(s)'
  BY DEF EffectInv
<1>0. EffectOf(s)
  BY DEF EffectInv
<1>1. ASSUME NEW r \in Runs, Run(r) PROVE EffectOf(s)'
  <2>1. CASE s = r
    BY <1>0, <1>1, <2>1, RunEffect
  <2>2. CASE s # r
    BY <1>0, <1>1, <2>2, RunFrame, EffectFrame
  <2> QED
    BY <2>1, <2>2
<1>2. CASE UNCHANGED <<runVars, serverVars>>
  BY <1>0, <1>2, EffectFrame DEF runVars, serverVars
<1>3. CASE Reap \/ Close
  <2>1. UNCHANGED <<runVars, serverVars>>
    BY <1>3 DEF Reap, Close, Tick, ReapTake, ReapReturn, EndSweep, ReaperStops, CloseBegins, ReaperGone,
                Drain, CloseReturns
  <2> QED
    BY <1>2, <2>1
<1>4. CASE (\E e \in Execs : ShellDies(e)) \/ (\E c \in Conns : Elapse(c))
  <2>1. UNCHANGED <<runVars, serverVars>>
    BY <1>4 DEF ShellDies, Elapse
  <2> QED
    BY <1>2, <2>1
<1>5. ASSUME NEW r \in Runs, Cancel(r) PROVE EffectOf(s)'
  BY <1>0, <1>5, EffectFrame DEF Cancel, serverVars
<1>6. ASSUME NEW r \in Runs, TakeEffect(r) PROVE EffectOf(s)'
  BY <1>0, <1>6 DEF TakeEffect, runVars, EffectOf, Untouched, TypeInv, TypeOK
<1>7. ASSUME NEW r \in Runs, ScriptLost(r) PROVE EffectOf(s)'
  BY <1>0, <1>7 DEF ScriptLost, runVars, EffectOf, Untouched, TypeInv, TypeOK
<1>8. CASE UNCHANGED vars
  BY <1>2, <1>8 DEF vars
<1> QED
  BY <1>1, <1>3, <1>4, <1>5, <1>6, <1>7, <1>8 DEF Next, Environment

(* The types and EffectInv hold in every state. *)
LEMMA EffectCorrect == Spec => [](TypeInv /\ EffectInv)
<1>1. Init => EffectInv
  BY DEF Init, EffectInv, EffectOf, Untouched
<1> QED
  BY InitType, <1>1, NextType, NextEffect, PTL DEF Spec

(* The script of one call of Pool.Run reaches the server at most once,     *)
(* through the transparent retry in Run and every failure, for any number  *)
(* of calls, conns and executors.                                          *)
THEOREM SentAtMostOnce == Spec => []AtMostOnce
<1>1. EffectInv => AtMostOnce
  BY DEF EffectInv, EffectOf, AtMostOnce
<1> QED
  BY EffectCorrect, <1>1, PTL
-----------------------------------------------------------------------------
Results == {"ok", "transient", "transport"}

(* A step of call r either settles its outcome, once, or leaves it. *)
LEMMA RunOutcome ==
  ASSUME TypeInv, NEW r \in Runs, Run(r)
  PROVE  /\ applied' = applied
         /\ \/ outcome' = outcome
            \/ /\ pc[r] \notin {"return", "done"}
               /\ \E o \in Results : outcome' = [outcome EXCEPT ![r] = o]
<1> USE DEF serverVars, Step, Finish, Results
<1>1. ASSUME NEW failure, Fail(r, failure)
      PROVE  outcome' = outcome \/ \E o \in Results : outcome' = [outcome EXCEPT ![r] = o]
  BY <1>1 DEF Fail, MapError
<1>2. CASE Checkout(r) \/ GiveUp(r) \/ DecodeFails(r) \/ ReturnConn(r)
  BY <1>2 DEF Checkout, GiveUp, DecodeFails, ReturnConn
<1>3. CASE Connect(r)
  BY <1>3 DEF Connect, AlreadyUp, ConnectSucceeds, ConnectFails
<1>4. CASE CreateFails(r)
  BY <1>1, <1>4 DEF CreateFails
<1>5. CASE InvokeFails(r)
  BY <1>1, <1>5 DEF InvokeFails
<1>6. CASE WaitFails(r)
  BY <1>1, <1>6 DEF WaitFails
<1>7. CASE CreatePipeline(r) \/ Invoke(r) \/ WaitSucceeds(r)
  BY <1>7 DEF CreatePipeline, Invoke, WaitSucceeds
<1>8. CASE Triage(r) \/ Invalidate(r)
  BY <1>8 DEF Triage, Invalidate, MapError
<1> QED
  BY <1>2, <1>3, <1>4, <1>5, <1>6, <1>7, <1>8 DEF Run, Execute

(* Every step of the pool is a step of the contract or a stutter. *)
LEMMA ContractStep ==
  ASSUME TypeInv, TypeInv', EffectInv, EffectInv', [Next]_vars
  PROVE  [Contract!Next]_(Contract!vars)
<1> USE DEF TypeInv, TypeOK, EffectInv, EffectOf, Untouched
<1>1. ASSUME NEW r \in Runs, Run(r) PROVE [Contract!Next]_(Contract!vars)
  <2>1. CASE outcome' = outcome
    BY <1>1, <2>1, RunOutcome DEF Contract!vars
  <2>2. ASSUME NEW o \in Results, outcome' = [outcome EXCEPT ![r] = o], pc[r] \notin {"return", "done"}
        PROVE  Contract!Return(r, o)
    <3> HIDE DEF TypeInv, EffectInv, EffectOf
    <3>1. EffectOf(r) /\ EffectOf(r)'
      BY DEF EffectInv
    <3>2. outcome \in [Runs -> {"pending", "ok", "transient", "transport"}]
      BY DEF TypeInv
    <3>3. outcome[r] = "pending" /\ outcome'[r] = o
      BY <2>2, <3>1, <3>2 DEF EffectOf
    <3>4. applied' = applied
      BY <1>1, RunOutcome
    <3>5. (o = "ok" => applied[r] = 1) /\ (o = "transient" => applied[r] = 0)
      BY <3>1, <3>3, <3>4 DEF EffectOf
    <3> QED
      BY <2>2, <3>3, <3>4, <3>5 DEF Contract!Return
  <2> QED
    BY <1>1, <2>1, <2>2, RunOutcome DEF Contract!Next, Contract!Results, Results
<1>2. CASE UNCHANGED <<outcome, applied>>
  BY <1>2 DEF Contract!vars
<1>3. CASE Reap \/ Close
  <2>1. UNCHANGED <<outcome, applied>>
    BY <1>3 DEF Reap, Close, Tick, ReapTake, ReapReturn, EndSweep, ReaperStops, CloseBegins, ReaperGone,
                Drain, CloseReturns, runVars, serverVars
  <2> QED
    BY <1>2, <2>1
<1>4. ASSUME NEW r \in Runs, TakeEffect(r) PROVE [Contract!Next]_(Contract!vars)
  <2>0. sent[r] \in Nat /\ applied[r] \in Nat /\ sent[r] + applied[r] <= 1 /\ sent[r] > 0
    BY <1>4 DEF TakeEffect
  <2>1. applied[r] = 0 /\ outcome[r] \in {"pending", "transport"}
    <3>1. applied[r] = 0 /\ sent[r] = 1
      BY <2>0
    <3>2. outcome[r] # "transient" /\ outcome[r] # "ok"
      BY <3>1
    <3>3. outcome[r] \in {"pending", "ok", "transient", "transport"}
      OBVIOUS
    <3> QED
      BY <3>1, <3>2, <3>3
  <2>2. applied' = [applied EXCEPT ![r] = 1] /\ outcome' = outcome
    BY <1>4, <2>1 DEF TakeEffect, runVars
  <2> QED
    BY <2>1, <2>2 DEF Contract!TakeEffect, Contract!Next
<1>5. CASE Environment /\ ~\E r \in Runs : TakeEffect(r)
  <2>1. UNCHANGED <<outcome, applied>>
    <3>1. CASE (\E e \in Execs : ShellDies(e)) \/ (\E c \in Conns : Elapse(c))
      BY <3>1 DEF ShellDies, Elapse, runVars, serverVars
    <3>2. CASE \E r \in Runs : Cancel(r) \/ ScriptLost(r)
      BY <3>2 DEF Cancel, ScriptLost, runVars, serverVars
    <3> QED
      BY <1>5, <3>1, <3>2 DEF Environment
  <2> QED
    BY <1>2, <2>1
<1>6. CASE UNCHANGED vars
  BY <1>2, <1>6 DEF vars, runVars, serverVars
<1> QED
  BY <1>1, <1>3, <1>4, <1>5, <1>6 DEF Next

(* Pool.Run keeps the contract of adpwsh.Transport that core.exec's retry  *)
(* loop relies on: at most one effect, success only after it, KindTransient *)
(* only without it, now and later.                                         *)
THEOREM RunKeepsContract == Spec => ContractSpec
<1>1. Init => Contract!Init
  BY DEF Init, Contract!Init
<1>2. TypeInv /\ TypeInv' /\ EffectInv /\ EffectInv' /\ [Next]_vars => [Contract!Next]_(Contract!vars)
  BY ContractStep
<1> QED
  BY <1>1, <1>2, EffectCorrect, PTL DEF Spec, ContractSpec, Contract!Spec
-----------------------------------------------------------------------------
(* Why no shell leaks: conns never share an executor, a fresh one was no   *)
(* conn's before, and an executor is dropped only after it was closed.     *)
ShellInv ==
  /\ \A c, d \in Conns : exec[c] = exec[d] => c = d
  /\ \A c \in Conns : shell[exec[c]] # "unbuilt" /\ (~up[c] => shell[exec[c]] # "open")
  /\ \A e \in Execs : shell[e] = "open" => \E c \in Conns : exec[c] = e

(* New leaves no shell open. *)
LEMMA InitShell == Init => ShellInv
<1> SUFFICES ASSUME Init PROVE ShellInv
  OBVIOUS
<1>1. ASSUME NEW e \in Execs
      PROVE  shell[e] # "open" /\ ((\E c \in Conns : exec[c] = e) => shell[e] = "built")
  BY <1>1 DEF Init
<1>2. \A c \in Conns : exec[c] \in Execs
  BY DEF Init
<1> QED
  BY <1>1, <1>2 DEF Init, ShellInv

(* invalidate's rebuild closes the shell it replaces. *)
LEMMA RebuildShell ==
  ASSUME TypeOK, ShellInv, NEW c \in Conns, Rebuild(c)
  PROVE  ShellInv'
<1> USE DEF TypeOK
<1> DEFINE closed == [shell EXCEPT ![exec[c]] = IF @ \in {"open", "dead"} THEN "closed" ELSE @]
<1>1. /\ \A d \in Conns : exec[d] \in Execs
      /\ up' = [up EXCEPT ![c] = FALSE]
  BY DEF Rebuild
<1>2. \A d \in Conns : d # c => exec[d] # exec[c]
  BY DEF ShellInv
<1>3. closed[exec[c]] \notin {"open", "unbuilt"} /\ closed \in [Execs -> Shells]
  BY <1>1 DEF ShellInv, Shells
<1>4. \A e \in Execs : e # exec[c] => closed[e] = shell[e]
  OBVIOUS
<1>5. ASSUME NEW fresh \in Execs, shell[fresh] = "unbuilt", exec' = [exec EXCEPT ![c] = fresh],
             shell' = [closed EXCEPT ![fresh] = "built"]
      PROVE  ShellInv'
  <2>1. \A d \in Conns : exec[d] # fresh
    BY <1>5 DEF ShellInv
  <2>2. exec'[c] = fresh /\ \A d \in Conns : d # c => exec'[d] = exec[d]
    BY <1>5
  <2>3. shell'[fresh] = "built" /\ \A e \in Execs : e # fresh => shell'[e] = closed[e]
    BY <1>3, <1>5
  <2>4. up'[c] = FALSE /\ \A d \in Conns : d # c => up'[d] = up[d]
    BY <1>1
  <2>5. ASSUME NEW d, NEW f, d \in Conns, f \in Conns, exec'[d] = exec'[f] PROVE d = f
    <3>1. CASE d = c
      <4>1. f # c => exec'[f] = exec[f] /\ exec[f] # fresh
        BY <2>1, <2>2, <2>5
      <4> QED
        BY <2>2, <2>5, <3>1, <4>1
    <3>2. CASE d # c
      <4>1. exec'[d] = exec[d] /\ exec[d] # fresh
        BY <2>1, <2>2, <2>5, <3>2
      <4>2. f # c
        BY <2>2, <2>5, <4>1
      <4> QED
        BY <2>2, <2>5, <4>1, <4>2 DEF ShellInv
    <3> QED
      BY <3>1, <3>2
  <2>6. ASSUME NEW d \in Conns PROVE shell'[exec'[d]] # "unbuilt" /\ (~up'[d] => shell'[exec'[d]] # "open")
    <3>1. CASE d = c
      BY <2>2, <2>3, <3>1
    <3>2. CASE d # c
      BY <1>1, <1>2, <1>4, <2>1, <2>2, <2>3, <2>4, <3>2 DEF ShellInv
    <3> QED
      BY <3>1, <3>2
  <2>7. ASSUME NEW e \in Execs, shell'[e] = "open" PROVE \E d \in Conns : exec'[d] = e
    <3>1. e # fresh /\ e # exec[c] /\ shell[e] = "open"
      BY <1>3, <1>4, <2>3, <2>7
    <3> QED
      BY <2>2, <3>1 DEF ShellInv
  <2> QED
    BY <2>5, <2>6, <2>7 DEF ShellInv
<1>6. CASE shell' = closed /\ exec' = exec
  <2>1. up'[c] = FALSE /\ \A d \in Conns : d # c => up'[d] = up[d]
    BY <1>1
  <2>2. ASSUME NEW d \in Conns PROVE shell'[exec'[d]] # "unbuilt" /\ (~up'[d] => shell'[exec'[d]] # "open")
    BY <1>1, <1>2, <1>3, <1>4, <1>6, <2>1 DEF ShellInv
  <2>3. ASSUME NEW e \in Execs, shell'[e] = "open" PROVE \E d \in Conns : exec'[d] = e
    BY <1>3, <1>4, <1>6, <2>3 DEF ShellInv
  <2> QED
    BY <1>6, <2>2, <2>3 DEF ShellInv
<1> QED
  BY <1>5, <1>6 DEF Rebuild

(* A step that leaves exec, up and shell alone keeps ShellInv. *)
LEMMA ShellFrame == ASSUME ShellInv, UNCHANGED <<exec, up, shell>> PROVE ShellInv'
BY DEF ShellInv

(* Every step of the pool keeps ShellInv. *)
LEMMA NextShell ==
  ASSUME TypeInv, ShellInv, [Next]_vars
  PROVE  ShellInv'
<1> USE DEF TypeInv, TypeOK
<1>1. ASSUME NEW r \in Runs, Run(r) PROVE ShellInv'
  <2>1. CASE ConnectSucceeds(r)
    <3> DEFINE c == holds[r]
    <3>1. c \in Conns
      BY <2>1 DEF ConnectSucceeds, Step, HoldsWhileRunning
    <3>2. exec' = exec /\ shell' = [shell EXCEPT ![exec[c]] = "open"] /\ up' = [up EXCEPT ![c] = TRUE]
      BY <2>1 DEF ConnectSucceeds
    <3>3. \A d \in Conns : exec[d] \in Execs /\ (d # c => exec[d] # exec[c])
      BY <3>1 DEF ShellInv
    <3> QED
      BY <3>1, <3>2, <3>3 DEF ShellInv
  <2>2. CASE Invalidate(r)
    <3>1. holds[r] \in Conns
      BY <2>2 DEF Invalidate, HoldsWhileRunning
    <3> QED
      BY <2>2, <3>1, RebuildShell DEF Invalidate
  <2>3. CASE ~ConnectSucceeds(r) /\ ~Invalidate(r)
    <3>1. UNCHANGED <<exec, up, shell>>
      BY <1>1, <2>3 DEF Run, Connect, Execute, Checkout, GiveUp, DecodeFails, AlreadyUp, ConnectFails,
         CreatePipeline, CreateFails, Invoke, InvokeFails, WaitSucceeds, WaitFails, Fail, Triage,
         ReturnConn, connVars
    <3> QED
      BY <3>1, ShellFrame
  <2> QED
    BY <2>1, <2>2, <2>3
<1>2. CASE ReapReturn
  <2>1. CASE up[reaping] /\ reaping \in due
    BY <1>2, <2>1, RebuildShell DEF ReapReturn
  <2>2. CASE ~(up[reaping] /\ reaping \in due)
    BY <1>2, <2>2, ShellFrame DEF ReapReturn
  <2> QED
    BY <2>1, <2>2
<1>3. CASE Drain
  <2>1. Head(idle) \in Conns /\ exec' = exec /\ up' = up
    BY <1>3 DEF Drain
  <2>2. shell' = [shell EXCEPT ![exec[Head(idle)]] = IF up[Head(idle)] THEN "closed" ELSE @]
    BY <1>3 DEF Drain
  <2>3. \A e \in Execs : shell'[e] = shell[e] \/ shell'[e] = "closed"
    BY <2>1, <2>2
  <2> QED
    BY <2>1, <2>3 DEF ShellInv
<1>4. ASSUME NEW e \in Execs, ShellDies(e) PROVE ShellInv'
  <2>1. exec' = exec /\ up' = up /\ \A f \in Execs : shell'[f] = shell[f] \/ shell'[f] = "dead"
    BY <1>4 DEF ShellDies
  <2> QED
    BY <2>1 DEF ShellInv
<1>5. CASE Tick \/ ReapTake \/ EndSweep \/ ReaperStops \/ CloseBegins \/ ReaperGone \/ CloseReturns
  BY <1>5, ShellFrame DEF Tick, ReapTake, EndSweep, ReaperStops, CloseBegins, ReaperGone, CloseReturns,
     connVars
<1>6. CASE (\E c \in Conns : Elapse(c)) \/ (\E r \in Runs : Cancel(r) \/ TakeEffect(r) \/ ScriptLost(r))
  BY <1>6, ShellFrame DEF Elapse, Cancel, TakeEffect, ScriptLost, connVars
<1>7. CASE UNCHANGED vars
  BY <1>7, ShellFrame DEF vars, connVars
<1> QED
  BY <1>1, <1>2, <1>3, <1>4, <1>5, <1>6, <1>7 DEF Next, Reap, Close, Environment

(* An open shell is always the executor of a conn that is up, so that the  *)
(* reaper or Close releases it: conn.invalidate, the reaper and failed     *)
(* builds never drop a live process.                                       *)
THEOREM NoShellEverLeaks == Spec => []NoShellLeak
<1>1. TypeInv /\ ShellInv /\ [Next]_vars => ShellInv'
  BY NextShell
<1>2. TypeInv /\ ShellInv => NoShellLeak
  BY DEF TypeInv, TypeOK, ShellInv, NoShellLeak
<1> QED
  BY InitType, InitShell, NextType, <1>1, <1>2, PTL DEF Spec
=============================================================================
