------------------------- MODULE WarmPoolOwnership -------------------------
(***************************************************************************)
(* Who owns the conns of the warm pool: theorems about WarmPool, for every *)
(* set of calls, conns and executors, that rest on each conn being in one  *)
(* place (conn.mu guards nothing else, as its comment says).               *)
(***************************************************************************)
EXTENDS WarmPoolProofs

In(s, c) == \E i \in DOMAIN s : s[i] = c
Distinct(s) == \A i, j \in DOMAIN s : s[i] = s[j] => i = j

Held(c) == \E r \in Runs : holds[r] = c

(* c is at rest, with a Run, with the reaper, or drained, and only one of these. *)
Owned(c) ==
  /\ In(idle, c) \/ Held(c) \/ reaping = c \/ c \in drained
  /\ In(idle, c) => ~Held(c) /\ reaping # c /\ c \notin drained
  /\ Held(c) => reaping # c /\ c \notin drained
  /\ reaping = c => c \notin drained

OneHolder == \A r, s \in Runs : holds[r] = holds[s] /\ holds[r] # None => r = s

OwnInv == Distinct(idle) /\ OneHolder /\ \A c \in Conns : Owned(c)

(* Owned says of one conn what ExclusiveConns says of its four places. *)
LEMMA OwnIsExclusive == OwnInv => ExclusiveConns
<1> SUFFICES ASSUME OwnInv PROVE ExclusiveConns
  OBVIOUS
<1>1. ASSUME NEW c \in Conns
      PROVE  LET places == <<InIdle(c), \E r \in Runs : holds[r] = c, reaping = c, c \in drained>>
             IN \E i \in 1..4 : places[i] /\ \A j \in 1..4 : places[j] => j = i
  <2> DEFINE places == <<InIdle(c), \E r \in Runs : holds[r] = c, reaping = c, c \in drained>>
  <2>1. /\ places[1] = In(idle, c) /\ places[2] = Held(c)
        /\ places[3] = (reaping = c) /\ places[4] = (c \in drained)
    BY DEF InIdle, In, Held
  <2>2. Owned(c)
    BY DEF OwnInv
  <2> HIDE DEF places
  <2>3. /\ places[1] \/ places[2] \/ places[3] \/ places[4]
        /\ places[1] => ~places[2] /\ ~places[3] /\ ~places[4]
        /\ places[2] => ~places[3] /\ ~places[4]
        /\ places[3] => ~places[4]
    BY <2>1, <2>2 DEF Owned
  <2>4. \A j \in 1..4 : j = 1 \/ j = 2 \/ j = 3 \/ j = 4
    OBVIOUS
  <2>5. \E i \in 1..4 : places[i] /\ \A j \in 1..4 : places[j] => j = i
    <3>1. CASE places[1]
      BY <2>3, <2>4, <3>1
    <3>2. CASE places[2]
      BY <2>3, <2>4, <3>2
    <3>3. CASE places[3]
      BY <2>3, <2>4, <3>3
    <3>4. CASE places[4]
      BY <2>3, <2>4, <3>4
    <3> QED
      BY <2>3, <3>1, <3>2, <3>3, <3>4
  <2> QED
    BY <2>5 DEF places
<1> QED
  BY <1>1 DEF OwnInv, Distinct, OneHolder, ExclusiveConns
-----------------------------------------------------------------------------
(* A receive takes the first conn out of the channel, and no other. *)
LEMMA Receive ==
  ASSUME NEW s \in Seq(Conns), s # <<>>, Distinct(s)
  PROVE  /\ Head(s) \in Conns /\ In(s, Head(s))
         /\ Tail(s) \in Seq(Conns) /\ Distinct(Tail(s))
         /\ \A c \in Conns : In(Tail(s), c) <=> In(s, c) /\ c # Head(s)
<1>1. Tail(s) \in Seq(Conns) /\ Head(s) \in Conns
  OBVIOUS
<1>2. Len(s) \in Nat /\ Len(s) > 0 /\ Head(s) = s[1]
  OBVIOUS
<1>3. DOMAIN s = 1..Len(s) /\ DOMAIN Tail(s) = 1..Len(s) - 1
  BY <1>1, <1>2
<1>4. \A i \in 1..Len(s) - 1 : i + 1 \in 1..Len(s) /\ Tail(s)[i] = s[i + 1]
  BY <1>2
<1>5. Distinct(Tail(s))
  BY <1>2, <1>3, <1>4 DEF Distinct
<1>6. ASSUME NEW c \in Conns, In(Tail(s), c) PROVE In(s, c) /\ c # Head(s)
  <2>1. PICK i \in 1..Len(s) - 1 : Tail(s)[i] = c
    BY <1>3, <1>6 DEF In
  <2>2. i + 1 \in DOMAIN s /\ 1 \in DOMAIN s /\ s[i + 1] = c /\ i + 1 # 1
    BY <1>2, <1>3, <1>4, <2>1
  <2>3. c # s[1]
    BY <2>2 DEF Distinct
  <2> QED
    BY <1>2, <2>2, <2>3 DEF In
<1>7. ASSUME NEW c \in Conns, In(s, c), c # Head(s) PROVE In(Tail(s), c)
  <2>1. PICK i \in 1..Len(s) : s[i] = c
    BY <1>3, <1>7 DEF In
  <2>2. i # 1
    BY <1>2, <1>7, <2>1
  <2>3. i - 1 \in 1..Len(s) - 1 /\ Tail(s)[i - 1] = c
    BY <1>2, <1>4, <2>1, <2>2
  <2> QED
    BY <1>3, <2>3 DEF In
<1>8. In(s, Head(s))
  BY <1>2, <1>3 DEF In
<1> QED
  BY <1>1, <1>5, <1>6, <1>7, <1>8

(* A send adds a conn that was not at rest behind the others. *)
LEMMA SendBack ==
  ASSUME NEW s \in Seq(Conns), NEW c \in Conns, Distinct(s), ~In(s, c)
  PROVE  /\ Distinct(Append(s, c))
         /\ \A d \in Conns : In(Append(s, c), d) <=> In(s, d) \/ d = c
<1> DEFINE t == Append(s, c)
<1>1. Len(s) \in Nat /\ DOMAIN s = 1..Len(s) /\ DOMAIN t = 1..Len(s) + 1
  OBVIOUS
<1>2. t[Len(s) + 1] = c /\ \A i \in 1..Len(s) : t[i] = s[i]
  OBVIOUS
<1> HIDE DEF t
<1>3. \A i \in DOMAIN t : i \in DOMAIN s \/ i = Len(s) + 1
  BY <1>1
<1>4. \A i \in DOMAIN s : i \in DOMAIN t /\ t[i] = s[i] /\ t[i] # c
  BY <1>1, <1>2 DEF In
<1>5. Len(s) + 1 \in DOMAIN t
  BY <1>1
<1>6. Distinct(t)
  BY <1>2, <1>3, <1>4 DEF Distinct
<1>7. \A d \in Conns : In(t, d) <=> In(s, d) \/ d = c
  BY <1>2, <1>3, <1>4, <1>5 DEF In
<1> QED
  BY <1>6, <1>7 DEF t
-----------------------------------------------------------------------------
(* New puts every conn at rest, once. *)
LEMMA InitOwn == Init => OwnInv
<1> SUFFICES ASSUME Init PROVE OwnInv
  OBVIOUS
<1> DEFINE n == Cardinality(Conns)
<1>1. n \in Nat /\ idle \in [1..n -> Conns] /\ Distinct(idle)
  BY ConnsAssumption, FS_CardinalityType DEF Init, Distinct
<1> HIDE DEF n
<1>2. DOMAIN idle = 1..n
  BY <1>1
<1>3. \A c \in Conns : In(idle, c)
  <2>1. IsFiniteSet(1..n) /\ Cardinality(1..n) = n
    BY <1>1, FS_Interval
  <2>2. idle \in Injection(1..n, Conns)
    BY <1>1, <1>2 DEF Distinct, Injection, IsInjective
  <2>3. idle \in Surjection(1..n, Conns)
    BY <1>1, <2>1, <2>2, ConnsAssumption, FS_Injection DEF n
  <2> QED
    BY <1>2, <2>3 DEF Surjection, In
<1>4. \A r \in Runs : holds[r] = None
  BY DEF Init
<1>5. reaping = None /\ drained = {}
  BY DEF Init
<1>6. \A c \in Conns : Owned(c)
  BY <1>3, <1>4, <1>5, ConnsAssumption DEF Owned, Held
<1> QED
  BY <1>1, <1>4, <1>6 DEF OwnInv, OneHolder

(* A step that moves no conn keeps OwnInv. *)
LEMMA OwnFrame == ASSUME OwnInv, UNCHANGED <<idle, holds, reaping, drained>> PROVE OwnInv'
BY DEF OwnInv, Distinct, OneHolder, Owned, In, Held

(* Each of the five steps that move a conn takes it from one place to another. *)
LEMMA NextOwn ==
  ASSUME TypeInv, OwnInv, [Next]_vars
  PROVE  OwnInv'
<1> USE DEF TypeInv, TypeOK
<1>1. ASSUME NEW r \in Runs, Checkout(r) PROVE OwnInv'
  <2> DEFINE c == Head(idle)
  <2>1. /\ idle # <<>> /\ idle' = Tail(idle) /\ holds' = [holds EXCEPT ![r] = c]
        /\ UNCHANGED <<reaping, drained>> /\ holds[r] = None
    BY <1>1 DEF Checkout, Step, HoldsWhileRunning, reaperVars, closerVars
  <2>2. /\ c \in Conns /\ In(idle, c) /\ Distinct(idle')
        /\ \A d \in Conns : In(idle', d) <=> In(idle, d) /\ d # c
    BY <2>1, Receive DEF OwnInv
  <2>3. holds'[r] = c /\ \A s \in Runs : s # r => holds'[s] = holds[s]
    BY <2>1
  <2>4. \A d \in Conns : Held(d)' <=> Held(d) \/ d = c
    BY <2>1, <2>3, ConnsAssumption DEF Held
  <2>5. ~Held(c) /\ reaping # c /\ c \notin drained
    BY <2>2 DEF OwnInv, Owned
  <2>6. OneHolder'
    BY <2>3, <2>5 DEF OwnInv, OneHolder, Held
  <2>7. \A d \in Conns : Owned(d)'
    BY <2>1, <2>2, <2>4, <2>5 DEF OwnInv, Owned
  <2>8. Distinct(idle)'
    BY <2>2 DEF Distinct
  <2> QED
    BY <2>6, <2>7, <2>8 DEF OwnInv
<1>2. ASSUME NEW r \in Runs, ReturnConn(r) PROVE OwnInv'
  <2> DEFINE c == holds[r]
  <2>1. /\ idle' = Append(idle, c) /\ holds' = [holds EXCEPT ![r] = None]
        /\ UNCHANGED <<reaping, drained>> /\ c \in Conns
    BY <1>2 DEF ReturnConn, Step, HoldsWhileRunning, closerVars
  <2>2. Held(c) /\ ~In(idle, c) /\ reaping # c /\ c \notin drained
    BY <2>1 DEF OwnInv, Owned, Held
  <2>3. Distinct(idle') /\ \A d \in Conns : In(idle', d) <=> In(idle, d) \/ d = c
    BY <2>1, <2>2, SendBack DEF OwnInv
  <2>4. holds'[r] = None /\ \A s \in Runs : s # r => holds'[s] = holds[s]
    BY <2>1
  <2>5. \A d \in Conns : Held(d)' <=> Held(d) /\ d # c
    BY <2>1, <2>4, ConnsAssumption DEF Held, OwnInv, OneHolder
  <2>6. OneHolder'
    BY <2>4 DEF OwnInv, OneHolder
  <2>7. \A d \in Conns : Owned(d)'
    BY <2>1, <2>2, <2>3, <2>5 DEF OwnInv, Owned
  <2>8. Distinct(idle)'
    BY <2>3 DEF Distinct
  <2> QED
    BY <2>6, <2>7, <2>8 DEF OwnInv
<1>3. CASE ReapTake
  <2> DEFINE c == Head(idle)
  <2>1. /\ idle # <<>> /\ idle' = Tail(idle) /\ reaping = None /\ reaping' = c
        /\ UNCHANGED <<holds, drained>>
    BY <1>3 DEF ReapTake, runVars, closerVars
  <2>2. /\ c \in Conns /\ In(idle, c) /\ Distinct(idle')
        /\ \A d \in Conns : In(idle', d) <=> In(idle, d) /\ d # c
    BY <2>1, Receive DEF OwnInv
  <2>3. \A d \in Conns : Held(d)' <=> Held(d)
    BY <2>1 DEF Held
  <2>4. ~Held(c) /\ c \notin drained
    BY <2>2 DEF OwnInv, Owned
  <2>5. \A d \in Conns : Owned(d)'
    BY <2>1, <2>2, <2>3, <2>4, ConnsAssumption DEF OwnInv, Owned
  <2>6. Distinct(idle)' /\ OneHolder'
    BY <2>1, <2>2 DEF Distinct, OwnInv, OneHolder
  <2> QED
    BY <2>5, <2>6 DEF OwnInv
<1>4. CASE ReapReturn
  <2> DEFINE c == reaping
  <2>1. /\ c \in Conns /\ idle' = Append(idle, c) /\ reaping' = None
        /\ UNCHANGED <<holds, drained>>
    BY <1>4 DEF ReapReturn, runVars, closerVars
  <2>2. ~In(idle, c) /\ ~Held(c) /\ c \notin drained
    BY <2>1 DEF OwnInv, Owned
  <2>3. Distinct(idle') /\ \A d \in Conns : In(idle', d) <=> In(idle, d) \/ d = c
    BY <2>1, <2>2, SendBack DEF OwnInv
  <2>4. \A d \in Conns : Held(d)' <=> Held(d)
    BY <2>1 DEF Held
  <2>5. \A d \in Conns : Owned(d)'
    BY <2>1, <2>2, <2>3, <2>4, ConnsAssumption DEF OwnInv, Owned
  <2>6. Distinct(idle)' /\ OneHolder'
    BY <2>1, <2>3 DEF Distinct, OwnInv, OneHolder
  <2> QED
    BY <2>5, <2>6 DEF OwnInv
<1>5. CASE Drain
  <2> DEFINE c == Head(idle)
  <2>1. /\ idle # <<>> /\ idle' = Tail(idle) /\ drained' = drained \cup {c}
        /\ UNCHANGED <<holds, reaping>>
    BY <1>5 DEF Drain, runVars, reaperVars
  <2>2. /\ c \in Conns /\ In(idle, c) /\ Distinct(idle')
        /\ \A d \in Conns : In(idle', d) <=> In(idle, d) /\ d # c
    BY <2>1, Receive DEF OwnInv
  <2>3. \A d \in Conns : Held(d)' <=> Held(d)
    BY <2>1 DEF Held
  <2>4. ~Held(c) /\ reaping # c
    BY <2>2 DEF OwnInv, Owned
  <2>5. \A d \in Conns : Owned(d)'
    BY <2>1, <2>2, <2>3, <2>4 DEF OwnInv, Owned
  <2>6. Distinct(idle)' /\ OneHolder'
    BY <2>1, <2>2 DEF Distinct, OwnInv, OneHolder
  <2> QED
    BY <2>5, <2>6 DEF OwnInv
<1>6. ASSUME NEW r \in Runs, Run(r), ~Checkout(r), ~ReturnConn(r) PROVE OwnInv'
  <2>1. UNCHANGED <<idle, holds, reaping, drained>>
    BY <1>6 DEF Run, Connect, Execute, GiveUp, DecodeFails, AlreadyUp, ConnectSucceeds, ConnectFails,
       CreatePipeline, CreateFails, Invoke, InvokeFails, WaitSucceeds, WaitFails, Fail, Triage,
       Invalidate, connVars, reaperVars, closerVars
  <2> QED
    BY <2>1, OwnFrame
<1>7. CASE Tick \/ EndSweep \/ ReaperStops \/ CloseBegins \/ ReaperGone \/ CloseReturns
  BY <1>7, OwnFrame DEF Tick, EndSweep, ReaperStops, CloseBegins, ReaperGone, CloseReturns, connVars,
     runVars, reaperVars, closerVars
<1>8. CASE Environment
  BY <1>8, OwnFrame DEF Environment, ShellDies, Elapse, Cancel, TakeEffect, ScriptLost, connVars,
     runVars, reaperVars, closerVars
<1>9. CASE UNCHANGED vars
  BY <1>9, OwnFrame DEF vars, connVars, runVars, reaperVars, closerVars
<1> QED
  BY <1>1, <1>2, <1>3, <1>4, <1>5, <1>6, <1>7, <1>8, <1>9 DEF Next, Reap, Close

(* A conn is in one place only and is never lost: a Run returns it on      *)
(* every path (the deferred send), the reaper after every visit, and Close *)
(* receives each once.                                                     *)
THEOREM ConnsAreExclusive == Spec => []ExclusiveConns
<1>1. TypeInv /\ OwnInv /\ [Next]_vars => OwnInv'
  BY NextOwn
<1> QED
  BY InitType, InitOwn, NextType, OwnIsExclusive, <1>1, PTL DEF Spec
-----------------------------------------------------------------------------
(* A rebuild of c closes the shell of c and of no other conn. *)
LEMMA RebuildCloses ==
  ASSUME TypeOK, ShellInv, NEW c \in Conns, Rebuild(c)
  PROVE  \A d \in Conns : d # c => /\ exec'[d] = exec[d] /\ up'[d] = up[d]
                                  /\ shell'[exec[d]] = shell[exec[d]]
<1> USE DEF TypeOK
<1> SUFFICES ASSUME NEW d \in Conns, d # c
             PROVE  exec'[d] = exec[d] /\ up'[d] = up[d] /\ shell'[exec[d]] = shell[exec[d]]
  OBVIOUS
<1> DEFINE closed == [shell EXCEPT ![exec[c]] = IF @ \in {"open", "dead"} THEN "closed" ELSE @]
<1>1. exec[d] \in Execs /\ exec[d] # exec[c] /\ shell[exec[d]] # "unbuilt"
  BY DEF ShellInv
<1>2. closed[exec[d]] = shell[exec[d]] /\ DOMAIN closed = Execs
  BY <1>1
<1>3. up'[d] = up[d]
  BY DEF Rebuild
<1>4. \/ shell' = closed /\ exec' = exec
      \/ \E fresh \in Execs : /\ shell[fresh] = "unbuilt" /\ exec' = [exec EXCEPT ![c] = fresh]
                               /\ shell' = [closed EXCEPT ![fresh] = "built"]
  BY DEF Rebuild
<1> HIDE DEF closed
<1>5. CASE shell' = closed /\ exec' = exec
  BY <1>2, <1>3, <1>5
<1>6. ASSUME NEW fresh \in Execs, shell[fresh] = "unbuilt", exec' = [exec EXCEPT ![c] = fresh],
             shell' = [closed EXCEPT ![fresh] = "built"]
      PROVE  exec'[d] = exec[d] /\ shell'[exec[d]] = shell[exec[d]]
  BY <1>1, <1>2, <1>6
<1> QED
  BY <1>3, <1>4, <1>5, <1>6

(* Other places than a Run's invalidate, the reaper's visit and Close never close a shell. *)
LEMMA Closers ==
  ASSUME TypeInv, [Next]_vars, ~ReapReturn, ~Drain, ~\E r \in Runs : Invalidate(r)
  PROVE  /\ exec' = exec
         /\ \A e \in Execs : shell'[e] # shell[e] => shell'[e] \in {"open", "dead"}
         /\ \A c \in Conns : up[c] => up'[c]
<1> USE DEF TypeInv, TypeOK
<1>1. ASSUME NEW r \in Runs, ConnectSucceeds(r) PROVE
         /\ exec' = exec
         /\ \A e \in Execs : shell'[e] # shell[e] => shell'[e] \in {"open", "dead"}
         /\ \A c \in Conns : up[c] => up'[c]
  BY <1>1 DEF ConnectSucceeds
<1>2. ASSUME NEW f \in Execs, ShellDies(f) PROVE
         /\ exec' = exec
         /\ \A e \in Execs : shell'[e] # shell[e] => shell'[e] \in {"open", "dead"}
         /\ \A c \in Conns : up[c] => up'[c]
  BY <1>2 DEF ShellDies
<1>3. ASSUME NEW r \in Runs, Run(r), ~ConnectSucceeds(r) PROVE UNCHANGED <<exec, up, shell>>
  BY <1>3 DEF Run, Connect, Execute, Checkout, GiveUp, DecodeFails, AlreadyUp, ConnectFails,
     CreatePipeline, CreateFails, Invoke, InvokeFails, WaitSucceeds, WaitFails, Fail, Triage,
     ReturnConn, connVars
<1>4. CASE Tick \/ ReapTake \/ EndSweep \/ ReaperStops \/ CloseBegins \/ ReaperGone \/ CloseReturns
  BY <1>4 DEF Tick, ReapTake, EndSweep, ReaperStops, CloseBegins, ReaperGone, CloseReturns, connVars
<1>5. CASE (\E c \in Conns : Elapse(c)) \/ (\E r \in Runs : Cancel(r) \/ TakeEffect(r) \/ ScriptLost(r))
  BY <1>5 DEF Elapse, Cancel, TakeEffect, ScriptLost, connVars
<1>6. CASE UNCHANGED vars
  BY <1>6 DEF vars, connVars
<1> QED
  BY <1>1, <1>2, <1>3, <1>4, <1>5, <1>6 DEF Next, Reap, Close, Environment

(* Whoever closes a shell owns its conn, so it is not the one of a Run that executes. *)
LEMMA ClosesOnlyOwn ==
  ASSUME TypeInv, ShellInv, OwnInv, [Next]_vars, NEW r \in Runs,
         Executing(r), shell[exec[holds[r]]] = "open"
  PROVE  shell'[exec[holds[r]]] # "closed"
<1> USE DEF TypeInv, TypeOK
<1> DEFINE c == holds[r]
<1>1. c \in Conns /\ Held(c) /\ exec[c] \in Execs
  <2>1. holds[r] \in Conns \cup {None} /\ holds[r] # None
    <3> HIDE DEF TypeOK
    <3>1. holds[r] # None
      BY DEF Executing, HoldsWhileRunning
    <3>2. holds \in [Runs -> Conns \cup {None}]
      BY DEF TypeOK
    <3> QED
      BY <3>1, <3>2
  <2>2. exec \in [Conns -> Execs]
    OBVIOUS
  <2> HIDE DEF TypeInv, TypeOK
  <2> QED
    BY <2>1, <2>2 DEF Held
<1>2. reaping # c /\ ~In(idle, c)
  BY <1>1 DEF OwnInv, Owned
<1> HIDE DEF c
<1> SUFFICES shell'[exec[c]] # "closed"
  BY DEF c
<1>3. ASSUME NEW s \in Runs, Invalidate(s) PROVE shell'[exec[c]] # "closed"
  <2>1. s # r /\ holds[s] \in Conns
    BY <1>3 DEF Invalidate, Executing, HoldsWhileRunning
  <2>2. holds[s] # c
    BY <1>1, <2>1, ConnsAssumption DEF OwnInv, OneHolder, c
  <2> QED
    BY <1>1, <1>3, <2>1, <2>2, RebuildCloses DEF Invalidate, c
<1>4. CASE ReapReturn
  <2>1. CASE Rebuild(reaping)
    BY <1>1, <1>2, <1>4, <2>1, RebuildCloses DEF ReapReturn, c
  <2>2. CASE shell' = shell
    BY <2>2 DEF c
  <2> QED
    BY <1>4, <2>1, <2>2 DEF ReapReturn
<1>5. CASE Drain
  <2>1. Head(idle) \in Conns /\ Head(idle) # c
    BY <1>2, <1>5, Receive DEF Drain, OwnInv
  <2>2. exec[Head(idle)] # exec[c]
    BY <1>1, <2>1 DEF ShellInv
  <2>3. shell'[exec[c]] = shell[exec[c]]
    BY <1>1, <1>5, <2>2 DEF Drain
  <2> QED
    BY <2>3 DEF c
<1>6. CASE ~ReapReturn /\ ~Drain /\ ~\E s \in Runs : Invalidate(s)
  <2>1. shell'[exec[c]] # shell[exec[c]] => shell'[exec[c]] \in {"open", "dead"}
    BY <1>1, <1>6, Closers
  <2> QED
    BY <2>1 DEF c
<1> QED
  BY <1>3, <1>4, <1>5, <1>6

(* No shell is closed under a Run that executes a script on it, neither by *)
(* the reaper, nor by Close, nor by another Run's invalidate.              *)
THEOREM ShellsStayOpenUnderRuns == Spec => NoCloseUnderRun
<1>1. TypeInv /\ OwnInv /\ [Next]_vars => OwnInv'
  BY NextOwn
<1>2. TypeInv /\ ShellInv /\ [Next]_vars => ShellInv'
  BY NextShell
<1>3. TypeInv /\ ShellInv /\ OwnInv /\ [Next]_vars
        => [\A r \in Runs : Executing(r) /\ shell[exec[holds[r]]] = "open"
                                => shell'[exec[holds[r]]] # "closed"]_vars
  BY ClosesOnlyOwn
<1> QED
  BY InitType, InitShell, InitOwn, NextType, <1>1, <1>2, <1>3, PTL DEF Spec, NoCloseUnderRun
-----------------------------------------------------------------------------
(* What the sweep took for unused at its tick is unused at its visit: a    *)
(* Run that came and went in between has stamped lastUsed.                 *)
DueInv == due \subseteq aged

(* Every step of the pool keeps DueInv. *)
LEMMA NextDue ==
  ASSUME TypeInv, DueInv, [Next]_vars
  PROVE  DueInv'
<1> USE DEF DueInv
<1>1. ASSUME NEW r \in Runs, Run(r) PROVE DueInv'
  <2>1. CASE ReturnConn(r)
    BY <2>1 DEF ReturnConn
  <2>2. CASE ~ReturnConn(r)
    <3>1. UNCHANGED <<due, aged>>
      BY <1>1, <2>2 DEF Run, Connect, Execute, Checkout, GiveUp, DecodeFails, AlreadyUp,
         ConnectSucceeds, ConnectFails, CreatePipeline, CreateFails, Invoke, InvokeFails,
         WaitSucceeds, WaitFails, Fail, Triage, Invalidate, connVars, reaperVars
    <3> QED
      BY <3>1
  <2> QED
    BY <2>1, <2>2
<1>2. CASE Tick \/ EndSweep
  BY <1>2 DEF Tick, EndSweep, connVars
<1>3. CASE ReapTake \/ ReapReturn \/ ReaperStops
  BY <1>3 DEF ReapTake, ReapReturn, ReaperStops, connVars
<1>4. CASE Close
  BY <1>4 DEF Close, CloseBegins, ReaperGone, Drain, CloseReturns, connVars, reaperVars
<1>5. CASE Environment
  BY <1>5 DEF Environment, ShellDies, Elapse, Cancel, TakeEffect, ScriptLost, connVars, reaperVars
<1>6. CASE UNCHANGED vars
  BY <1>6 DEF vars, connVars, reaperVars
<1> QED
  BY <1>1, <1>2, <1>3, <1>4, <1>5, <1>6 DEF Next, Reap

(* The conn in the reaper's hand loses its shell only at the reaper's visit. *)
LEMMA ReapsOnlyDue ==
  ASSUME TypeInv, ShellInv, OwnInv, DueInv, [Next]_vars,
         NEW c \in Conns, reaping = c, up[c], ~up'[c]
  PROVE  c \in aged
<1> USE DEF TypeInv, TypeOK
<1>1. ~Held(c) /\ ~In(idle, c)
  BY DEF OwnInv, Owned
<1>2. ASSUME NEW s \in Runs, Invalidate(s) PROVE FALSE
  <2>1. holds[s] \in Conns /\ holds[s] # c /\ Rebuild(holds[s])
    BY <1>1, <1>2 DEF Invalidate, HoldsWhileRunning, Held
  <2> QED
    BY <2>1, RebuildCloses
<1>3. CASE ReapReturn
  BY <1>3 DEF ReapReturn, DueInv
<1>4. ~Drain
  BY DEF Drain
<1>5. CASE ~ReapReturn /\ ~\E s \in Runs : Invalidate(s)
  BY <1>4, <1>5, Closers
<1> QED
  BY <1>2, <1>3, <1>5

(* A sweep releases no shell that a Run used within ReapAfter, even one    *)
(* used between the tick that began the sweep and the visit.               *)
THEOREM ReapsOnlyUnused == Spec => ReapOnlyUnused
<1>1. TypeInv /\ OwnInv /\ [Next]_vars => OwnInv'
  BY NextOwn
<1>2. TypeInv /\ ShellInv /\ [Next]_vars => ShellInv'
  BY NextShell
<1>3. TypeInv /\ DueInv /\ [Next]_vars => DueInv'
  BY NextDue
<1>4. Init => DueInv
  BY DEF Init, DueInv
<1>5. TypeInv /\ ShellInv /\ OwnInv /\ DueInv /\ [Next]_vars
        => [\A c \in Conns : reaping = c /\ up[c] /\ ~up'[c] => c \in aged]_vars
  BY ReapsOnlyDue
<1> QED
  BY InitType, InitShell, InitOwn, NextType, <1>1, <1>2, <1>3, <1>4, <1>5, PTL
  DEF Spec, ReapOnlyUnused
-----------------------------------------------------------------------------
(* What Close has done so far: the reaper is gone before the first receive, *)
(* a drained conn has no open shell, and all are drained when it returns.   *)
CloseInv ==
  /\ closer \in {"draining", "done"} => reaper = "gone"
  /\ closer = "done" => drained = Conns
  /\ \A c \in drained : shell[exec[c]] # "open"

(* Every step of the pool keeps CloseInv: the steps that open, close or    *)
(* replace a shell do so for a conn that is not drained.                   *)
LEMMA NextClose ==
  ASSUME TypeInv, ShellInv, OwnInv, CloseInv, [Next]_vars
  PROVE  CloseInv'
<1> USE DEF TypeInv, TypeOK
<1> DEFINE Frame == UNCHANGED <<closer, reaper, drained>>
<1>0. drained \subseteq Conns /\ \A c \in drained : ~Held(c) /\ reaping # c /\ ~In(idle, c)
  BY DEF OwnInv, Owned
<1>1. ASSUME NEW r \in Runs, Run(r) PROVE CloseInv'
  <2>1. Frame
    BY <1>1 DEF Run, Connect, Execute, Checkout, GiveUp, DecodeFails, AlreadyUp, ConnectSucceeds,
       ConnectFails, CreatePipeline, CreateFails, Invoke, InvokeFails, WaitSucceeds, WaitFails, Fail,
       Triage, Invalidate, ReturnConn, reaperVars, closerVars
  <2>2. CASE ConnectSucceeds(r)
    <3> DEFINE h == holds[r]
    <3>1. h \in Conns /\ Held(h)
      BY <2>2 DEF ConnectSucceeds, Step, HoldsWhileRunning, Held
    <3>2. exec' = exec /\ shell' = [shell EXCEPT ![exec[h]] = "open"]
      BY <2>2 DEF ConnectSucceeds
    <3> HIDE DEF h
    <3>3. \A c \in drained : c # h /\ exec[c] # exec[h]
      BY <1>0, <3>1 DEF ShellInv
    <3> QED
      BY <2>1, <3>2, <3>3 DEF CloseInv
  <2>3. CASE Invalidate(r)
    <3> DEFINE h == holds[r]
    <3>1. h \in Conns /\ Held(h) /\ Rebuild(h)
      BY <2>3 DEF Invalidate, HoldsWhileRunning, Held
    <3> HIDE DEF h
    <3>2. \A c \in drained : c \in Conns /\ c # h
      BY <1>0, <3>1
    <3>3. \A c \in drained : exec'[c] = exec[c] /\ shell'[exec[c]] = shell[exec[c]]
      BY <3>1, <3>2, RebuildCloses
    <3> QED
      BY <2>1, <3>3 DEF CloseInv
  <2>4. CASE ~ConnectSucceeds(r) /\ ~Invalidate(r)
    <3>1. UNCHANGED <<exec, shell>>
      BY <1>1, <2>4 DEF Run, Connect, Execute, Checkout, GiveUp, DecodeFails, AlreadyUp, ConnectFails,
         CreatePipeline, CreateFails, Invoke, InvokeFails, WaitSucceeds, WaitFails, Fail, Triage,
         ReturnConn, connVars
    <3> QED
      BY <2>1, <3>1 DEF CloseInv
  <2> QED
    BY <2>2, <2>3, <2>4
<1>2. CASE ReapReturn
  <2>1. reaping \in Conns /\ Frame
    BY <1>2 DEF ReapReturn, closerVars
  <2>2. CASE Rebuild(reaping)
    <3>1. \A c \in drained : exec'[c] = exec[c] /\ shell'[exec[c]] = shell[exec[c]]
      BY <1>0, <2>1, <2>2, RebuildCloses
    <3> QED
      BY <2>1, <3>1 DEF CloseInv
  <2>3. CASE UNCHANGED <<exec, shell>>
    BY <2>1, <2>3 DEF CloseInv
  <2> QED
    BY <1>2, <2>2, <2>3 DEF ReapReturn
<1>3. CASE Drain
  <2> DEFINE h == Head(idle)
  <2>1. /\ h \in Conns /\ exec' = exec /\ drained' = drained \cup {h}
        /\ shell' = [shell EXCEPT ![exec[h]] = IF up[h] THEN "closed" ELSE @]
        /\ closer = "draining" /\ UNCHANGED <<closer, reaper>>
    BY <1>3 DEF Drain, reaperVars
  <2> HIDE DEF h
  <2>2. exec[h] \in Execs /\ (~up[h] => shell[exec[h]] # "open")
    BY <2>1 DEF ShellInv
  <2>3. shell'[exec[h]] # "open" /\ \A e \in Execs : shell'[e] = "open" => shell[e] = "open"
    BY <2>1, <2>2
  <2>4. \A c \in drained' : exec[c] \in Execs /\ shell'[exec[c]] # "open"
    BY <1>0, <2>1, <2>3 DEF CloseInv
  <2> QED
    BY <2>1, <2>4 DEF CloseInv
<1>4. ASSUME NEW e \in Execs, ShellDies(e) PROVE CloseInv'
  <2>1. Frame /\ exec' = exec /\ shell' = [shell EXCEPT ![e] = "dead"]
    BY <1>4 DEF ShellDies, reaperVars, closerVars
  <2>2. \A c \in drained : exec[c] \in Execs
    BY <1>0
  <2> QED
    BY <2>1, <2>2 DEF CloseInv
<1>5. CASE Tick \/ ReapTake \/ EndSweep \/ ReaperStops \/ CloseBegins \/ ReaperGone \/ CloseReturns
  BY <1>5 DEF Tick, ReapTake, EndSweep, ReaperStops, CloseBegins, ReaperGone, CloseReturns, connVars,
     reaperVars, closerVars, CloseInv
<1>6. CASE (\E c \in Conns : Elapse(c)) \/ (\E r \in Runs : Cancel(r) \/ TakeEffect(r) \/ ScriptLost(r))
  BY <1>6 DEF Elapse, Cancel, TakeEffect, ScriptLost, connVars, reaperVars, closerVars, CloseInv
<1>7. CASE UNCHANGED vars
  BY <1>7 DEF vars, connVars, reaperVars, closerVars, CloseInv
<1> QED
  BY <1>1, <1>2, <1>3, <1>4, <1>5, <1>6, <1>7 DEF Next, Reap, Close, Environment

(* When Close has returned it has received every conn, so no Run has one.  *)
LEMMA ReleasedWhenClosed == ASSUME TypeInv, ShellInv, OwnInv, CloseInv PROVE ClosedMeansReleased
<1> USE DEF TypeInv, TypeOK
<1> SUFFICES ASSUME closer = "done"
             PROVE  /\ \A e \in Execs : shell[e] # "open"
                    /\ reaper = "gone" /\ \A r \in Runs : holds[r] = None
  BY DEF ClosedMeansReleased
<1>1. drained = Conns /\ reaper = "gone"
  BY DEF CloseInv
<1>2. \A e \in Execs : shell[e] # "open"
  BY <1>1 DEF CloseInv, ShellInv
<1>3. \A r \in Runs : holds[r] = None
  BY <1>1 DEF OwnInv, Owned, Held
<1> QED
  BY <1>1, <1>2, <1>3

(* Once Close has returned, no shell is open, the reaper is gone and no    *)
(* Run holds a conn, whatever was under way when Close began.              *)
THEOREM CloseReleasesAll == Spec => []ClosedMeansReleased
<1>1. TypeInv /\ OwnInv /\ [Next]_vars => OwnInv'
  BY NextOwn
<1>2. TypeInv /\ ShellInv /\ [Next]_vars => ShellInv'
  BY NextShell
<1>3. TypeInv /\ ShellInv /\ OwnInv /\ CloseInv /\ [Next]_vars => CloseInv'
  BY NextClose
<1>4. Init => CloseInv
  BY DEF Init, CloseInv
<1>5. TypeInv /\ ShellInv /\ OwnInv /\ CloseInv => ClosedMeansReleased
  BY ReleasedWhenClosed
<1> QED
  BY InitType, InitShell, InitOwn, NextType, <1>1, <1>2, <1>3, <1>4, <1>5, PTL DEF Spec
=============================================================================
