--------------------------- MODULE CoreExecProofs ---------------------------
(***************************************************************************)
(* Theorems about CoreExec for every set of calls and names and every      *)
(* number of attempts.                                                     *)
(***************************************************************************)
EXTENDS CoreExec, TLAPS

Attempt(c, i) == <<c, "create", i>>
FailedTransiently(a) == \/ outcome[a] = "transient"
                        \/ outcome[a] = "ok" /\ reply[a] \in {"down", "downAfterWrite"}

(* What the transport contract makes of each attempt. *)
Contract ==
  \A a \in Attempts : /\ outcome[a] = "ok" => applied[a] = 1
                      /\ outcome[a] = "transient" => applied[a] = 0
                      /\ applied[a] = 0 => reply[a] = "none"
                      /\ a[2] = "create" => reply[a] \notin {"found", "notFound"}

(* The create's attempts one after the other: those before the current one *)
(* failed transiently, those after it are yet to be made.                  *)
Sequence ==
  \A c \in Calls : op[c] = "create" =>
    \A i \in 1..MaxAttempts :
      /\ i < attempt[c] => FailedTransiently(Attempt(c, i))
      /\ i = attempt[c] /\ pc[c] = "backoff" => FailedTransiently(Attempt(c, i))
      /\ i > attempt[c] => outcome[Attempt(c, i)] = "pending" /\ applied[Attempt(c, i)] = 0

(* Where a call is and what it will return. *)
Progress ==
  \A c \in Calls : /\ pc[c] = "backoff" => attempt[c] < MaxAttempts
                   /\ op[c] = "create" /\ pc[c] # "done" => result[c] = "pending"
                   /\ op[c] = "probe" => result[c] = "AlreadyExists"

(* A reported success is one attempt's; after a reported refusal no        *)
(* attempt has succeeded and none is left that could.                      *)
Verdict ==
  \A c \in Calls :
    /\ result[c] = "ok" => \E i \in 1..MaxAttempts : reply[Attempt(c, i)] = "ok"
    /\ result[c] \in Refusals => \A i \in 1..MaxAttempts :
         LET a == Attempt(c, i) IN
         /\ reply[a] # "ok" /\ outcome[a] # "transport"
         /\ outcome[a] = "pending" => applied[a] = 0 /\ ~Started(a)

IInv == TypeOK /\ Contract /\ Sequence /\ Progress /\ Verdict
-----------------------------------------------------------------------------
(* The attempts of creates are attempts, and their three parts tell them apart. *)
LEMMA AttemptFacts ==
  /\ \A c \in Calls, i \in 1..MaxAttempts : Attempt(c, i) \in Attempts
  /\ \A c, d \in Calls, i, j \in 1..MaxAttempts : Attempt(c, i) = Attempt(d, j) => c = d /\ i = j
  /\ \A a \in Attempts : a[1] \in Calls /\ a[2] \in Ops /\ a[3] \in 1..MaxAttempts
  /\ \A c \in Calls, i \in 1..MaxAttempts :
       Attempt(c, i)[1] = c /\ Attempt(c, i)[2] = "create" /\ Attempt(c, i)[3] = i
BY DEF Attempt, Attempts, Ops

(* Which attempt a call is making. *)
LEMMA CurrentFacts ==
  ASSUME TypeOK, NEW c \in Calls
  PROVE  /\ Current(c) \in Attempts
         /\ Current(c)[2] = op[c]
         /\ op[c] = "create" => Current(c) = Attempt(c, attempt[c])
         /\ \A d \in Calls, i \in 1..MaxAttempts :
              Attempt(d, i) = Current(c) => d = c /\ i = attempt[c] /\ op[c] = "create"
BY DEF TypeOK, Current, Attempt, Attempts

(* A call that has not begun: nothing sent, nothing reported. *)
LEMMA InitInv == Init => IInv
<1> SUFFICES ASSUME Init PROVE IInv
  OBVIOUS
<1> USE MaxAttemptsAssumption
<1>1. \A a \in Attempts : outcome[a] = "pending" /\ applied[a] = 0 /\ reply[a] = "none"
  BY DEF Init, Transport!Init
<1>2. TypeOK
  <2>1. Transport!TypeOK
    BY DEF Init, Transport!Init, Transport!TypeOK, Transport!Outcomes
  <2>2. tombs \subseteq Names
    BY DEF Init
  <2> QED
    BY <2>1, <2>2 DEF Init, TypeOK, Replies, HalfDone, Ops
<1>3. Contract
  BY <1>1 DEF Contract
<1>4. Sequence
  BY <1>1, AttemptFacts DEF Sequence, Init
<1>5. Progress /\ Verdict
  BY DEF Init, Progress, Verdict, Refusals
<1> QED
  BY <1>2, <1>3, <1>4, <1>5 DEF IInv
-----------------------------------------------------------------------------
(* What a step leaves alone when the current attempt of one call ends.     *)
OnlyCurrentEnds(c) ==
  /\ \A a \in Attempts : a # Current(c) => outcome'[a] = outcome[a]
  /\ applied' = applied /\ reply' = reply

(* The verdict of the current attempt agrees with what it did.             *)
Justified(c, v) ==
  /\ v \in Kinds \cup {"ok"}
  /\ v = "ok" => Succeeded(reply[Current(c)])
  /\ v = "Transient" => \/ outcome'[Current(c)] = "transient"
                        \/ outcome'[Current(c)] = "ok" /\ reply[Current(c)] \in {"down", "downAfterWrite"}
  /\ v \in Refusals => outcome'[Current(c)] = "ok" /\ reply[Current(c)] # "ok"

(* exec hands a verdict its attempt supports to Create, which returns or probes. *)
LEMMA ExecReturnsInv ==
  ASSUME IInv, NEW c \in Calls, NEW v, ExecReturns(c, v), pc[c] # "done",
         OnlyCurrentEnds(c), Justified(c, v)
  PROVE  /\ pc' \in [Calls -> {"run", "backoff", "done"}] /\ op' \in [Calls -> Ops]
         /\ attempt' \in [Calls -> 1..MaxAttempts]
         /\ result' \in [Calls -> Kinds \cup {"pending", "ok"}]
         /\ tombstoned' \in [Calls -> BOOLEAN]
         /\ Sequence' /\ Progress' /\ Verdict'
<1> USE MaxAttemptsAssumption
<1> DEFINE Others == \A d \in Calls : d # c => /\ op'[d] = op[d] /\ attempt'[d] = attempt[d]
                                               /\ pc'[d] = pc[d] /\ result'[d] = result[d]
<1>0. TypeOK /\ Contract /\ Sequence /\ Progress /\ Verdict
  BY DEF IInv
<1>1. /\ pc' \in [Calls -> {"run", "backoff", "done"}] /\ op' \in [Calls -> Ops]
      /\ attempt' \in [Calls -> 1..MaxAttempts]
      /\ result' \in [Calls -> Kinds \cup {"pending", "ok"}]
  BY <1>0 DEF ExecReturns, TypeOK, Justified, Ops
<1>2. tombstoned' \in [Calls -> BOOLEAN]
  BY <1>0 DEF ExecReturns, TypeOK
<1>3. Others
  BY <1>0 DEF ExecReturns, TypeOK
<1>4. \A d \in Calls, i \in 1..MaxAttempts :
        d # c \/ i # attempt[c] \/ op[c] # "create" => outcome'[Attempt(d, i)] = outcome[Attempt(d, i)]
  BY <1>0, AttemptFacts, CurrentFacts DEF OnlyCurrentEnds
<1>5. \/ /\ op[c] = "create" /\ v = "AlreadyExists"
         /\ op'[c] = "probe" /\ pc'[c] = "run" /\ result'[c] = v /\ attempt'[c] = 1
      \/ /\ op[c] = "create" /\ op'[c] = "create"
         /\ result'[c] = v /\ pc'[c] = "done" /\ attempt'[c] = attempt[c]
      \/ /\ op[c] = "probe" /\ op'[c] = "probe"
         /\ result'[c] = result[c] /\ pc'[c] = "done" /\ attempt'[c] = attempt[c]
  BY <1>0 DEF ExecReturns, TypeOK, Ops
<1>6. Sequence'
  <2> SUFFICES ASSUME NEW d \in Calls, op'[d] = "create", NEW i \in 1..MaxAttempts
               PROVE  /\ i < attempt'[d] => FailedTransiently(Attempt(d, i))'
                      /\ i = attempt'[d] /\ pc'[d] = "backoff" => FailedTransiently(Attempt(d, i))'
                      /\ i > attempt'[d] => outcome'[Attempt(d, i)] = "pending" /\ applied'[Attempt(d, i)] = 0
    BY DEF Sequence, Attempt
  <2>1. op[d] = "create" /\ attempt'[d] = attempt[d] /\ attempt[d] \in Nat
    BY <1>0, <1>3, <1>5 DEF TypeOK
  <2>2. pc'[d] = "backoff" => d # c /\ pc[d] = "backoff"
    BY <1>3, <1>5
  <2>3. d # c \/ i # attempt[c] => outcome'[Attempt(d, i)] = outcome[Attempt(d, i)]
    BY <1>4
  <2> QED
    BY <1>0, <2>1, <2>2, <2>3 DEF Sequence, FailedTransiently, OnlyCurrentEnds, Attempt
<1>7. Progress'
  <2> SUFFICES ASSUME NEW d \in Calls
               PROVE  /\ pc'[d] = "backoff" => attempt'[d] < MaxAttempts
                      /\ op'[d] = "create" /\ pc'[d] # "done" => result'[d] = "pending"
                      /\ op'[d] = "probe" => result'[d] = "AlreadyExists"
    BY DEF Progress
  <2> QED
    BY <1>0, <1>3, <1>5 DEF Progress
<1>8. Verdict'
  <2> SUFFICES ASSUME NEW d \in Calls
               PROVE  /\ result'[d] = "ok" => \E i \in 1..MaxAttempts : reply'[Attempt(d, i)] = "ok"
                      /\ result'[d] \in Refusals => \A i \in 1..MaxAttempts :
                           /\ reply'[Attempt(d, i)] # "ok" /\ outcome'[Attempt(d, i)] # "transport"
                           /\ outcome'[Attempt(d, i)] = "pending"
                                => applied'[Attempt(d, i)] = 0 /\ ~Started(Attempt(d, i))'
    BY DEF Verdict, Attempt
  <2>1. CASE d # c \/ op[c] = "probe"
    <3>1. result'[d] = result[d] /\ op'[d] = op[d] /\ attempt'[d] = attempt[d]
      BY <2>1, <1>3, <1>5
    <3>2. \A i \in 1..MaxAttempts : outcome'[Attempt(d, i)] = outcome[Attempt(d, i)]
      BY <2>1, <1>4
    <3>3. \A i \in 1..MaxAttempts : Started(Attempt(d, i))' <=> Started(Attempt(d, i))
      BY <3>1, <3>2, AttemptFacts DEF Started, Attempt
    <3> QED
      BY <1>0, <3>1, <3>2, <3>3 DEF Verdict, OnlyCurrentEnds
  <2>2. CASE d = c /\ op[c] = "create"
    <3>1. result'[c] = v
      BY <2>2, <1>5
    <3>2. v = "ok" => reply[Attempt(c, attempt[c])] = "ok"
      BY <2>2, <1>0, CurrentFacts DEF Contract, Justified, Succeeded
    <3>3. ASSUME v \in Refusals, NEW i \in 1..MaxAttempts
          PROVE  /\ reply[Attempt(c, i)] # "ok" /\ outcome'[Attempt(c, i)] # "transport"
                 /\ outcome'[Attempt(c, i)] = "pending" => applied[Attempt(c, i)] = 0 /\ i > attempt[c]
      <4>0. attempt[c] \in Nat /\ Attempt(c, i) \in Attempts
        BY <1>0, AttemptFacts DEF TypeOK
      <4>1. CASE i < attempt[c]
        BY <4>0, <4>1, <3>3, <2>2, <1>0, <1>4 DEF Sequence, FailedTransiently, Contract
      <4>2. CASE i = attempt[c]
        BY <4>2, <3>3, <2>2, <1>0, CurrentFacts DEF Justified
      <4>3. CASE i > attempt[c]
        BY <4>0, <4>3, <3>3, <2>2, <1>0, <1>4 DEF Sequence, Contract
      <4> QED
        BY <4>0, <4>1, <4>2, <4>3
    <3>4. ASSUME v \in Refusals, NEW i \in 1..MaxAttempts, outcome'[Attempt(c, i)] = "pending"
          PROVE  ~Started(Attempt(c, i))'
      <4>1. i > attempt[c] /\ attempt[c] \in Nat
        BY <3>3, <3>4, <1>0 DEF TypeOK
      <4>2. op'[c] # "create" \/ ~(i <= attempt'[c])
        BY <4>1, <1>5, <2>2
      <4> QED
        BY <3>4, <4>2, AttemptFacts DEF Started, Attempt
    <3>5. attempt[c] \in 1..MaxAttempts
      BY <1>0 DEF TypeOK
    <3> QED
      BY <2>2, <3>1, <3>2, <3>3, <3>4, <3>5 DEF OnlyCurrentEnds
  <2> QED
    BY <1>0, <2>1, <2>2 DEF TypeOK, Ops
<1> QED
  BY <1>1, <1>2, <1>6, <1>7, <1>8
-----------------------------------------------------------------------------
(* The transport's half of a step in which the current attempt of c ends with o. *)
LEMMA ReturnFacts ==
  ASSUME TypeOK, Contract, NEW c \in Calls, NEW o \in Transport!Results,
         Transport!Return(Current(c), o), UNCHANGED reply
  PROVE  /\ outcome[Current(c)] = "pending" /\ outcome'[Current(c)] = o
         /\ OnlyCurrentEnds(c) /\ Transport!TypeOK' /\ Contract'
<1>1. Current(c) \in Attempts
  BY CurrentFacts
<1>2. outcome' = [outcome EXCEPT ![Current(c)] = o] /\ outcome[Current(c)] = "pending"
  BY DEF Transport!Return
<1>3. applied' = applied /\ (o = "ok" => applied[Current(c)] = 1) /\ (o = "transient" => applied[Current(c)] = 0)
  BY DEF Transport!Return
<1>4. outcome \in [Attempts -> Transport!Outcomes] /\ applied \in [Attempts -> 0..1]
  BY DEF TypeOK, Transport!TypeOK
<1>5. Transport!TypeOK'
  BY <1>2, <1>3, <1>4 DEF Transport!TypeOK, Transport!Outcomes, Transport!Results
<1>6. OnlyCurrentEnds(c) /\ outcome'[Current(c)] = o
  BY <1>1, <1>2, <1>3, <1>4 DEF OnlyCurrentEnds
<1>7. Contract'
  BY <1>3, <1>6 DEF Contract, OnlyCurrentEnds
<1> QED
  BY <1>2, <1>5, <1>6, <1>7

(* The loop goes round, or exec returns the verdict.                       *)
LEMMA LoopInv ==
  ASSUME IInv, NEW c \in Calls, NEW v, Loop(c, v), pc[c] = "run",
         OnlyCurrentEnds(c), Justified(c, v)
  PROVE  /\ pc' \in [Calls -> {"run", "backoff", "done"}] /\ op' \in [Calls -> Ops]
         /\ attempt' \in [Calls -> 1..MaxAttempts]
         /\ result' \in [Calls -> Kinds \cup {"pending", "ok"}]
         /\ tombstoned' \in [Calls -> BOOLEAN]
         /\ Sequence' /\ Progress' /\ Verdict'
<1>1. CASE ExecReturns(c, v)
  BY <1>1, ExecReturnsInv
<1>2. CASE /\ v = "Transient" /\ attempt[c] < MaxAttempts
           /\ pc' = [pc EXCEPT ![c] = "backoff"]
           /\ UNCHANGED <<op, attempt, result, tombstoned>>
  <2>0. TypeOK /\ Contract /\ Sequence /\ Progress /\ Verdict
    BY DEF IInv
  <2>1. pc' \in [Calls -> {"run", "backoff", "done"}]
    BY <1>2, <2>0 DEF TypeOK
  <2>2. \A d \in Calls, i \in 1..MaxAttempts :
          d # c \/ i # attempt[c] \/ op[c] # "create" => outcome'[Attempt(d, i)] = outcome[Attempt(d, i)]
    BY <2>0, AttemptFacts, CurrentFacts DEF OnlyCurrentEnds
  <2>3. op[c] = "create" =>
          \/ outcome'[Attempt(c, attempt[c])] = "transient"
          \/ /\ outcome'[Attempt(c, attempt[c])] = "ok"
             /\ reply'[Attempt(c, attempt[c])] \in {"down", "downAfterWrite"}
    BY <1>2, <2>0, CurrentFacts DEF Justified, OnlyCurrentEnds
  <2>4. Sequence'
    <3> SUFFICES ASSUME NEW d \in Calls, op[d] = "create", NEW i \in 1..MaxAttempts
                 PROVE  /\ i < attempt[d] => FailedTransiently(Attempt(d, i))'
                        /\ i = attempt[d] /\ pc'[d] = "backoff" => FailedTransiently(Attempt(d, i))'
                        /\ i > attempt[d] => outcome'[Attempt(d, i)] = "pending" /\ applied'[Attempt(d, i)] = 0
      BY <1>2 DEF Sequence, Attempt
    <3>1. d # c => pc'[d] = pc[d]
      BY <1>2, <2>0 DEF TypeOK
    <3>2. attempt[d] \in Nat
      BY <2>0 DEF TypeOK
    <3>3. CASE d = c /\ i = attempt[c]
      BY <3>2, <3>3, <2>3 DEF FailedTransiently, Attempt
    <3>4. CASE d # c \/ i # attempt[c]
      BY <3>1, <3>2, <3>4, <2>0, <2>2 DEF Sequence, FailedTransiently, OnlyCurrentEnds, Attempt
    <3> QED
      BY <3>3, <3>4
  <2>5. Progress'
    <3> SUFFICES ASSUME NEW d \in Calls
                 PROVE  /\ pc'[d] = "backoff" => attempt[d] < MaxAttempts
                        /\ op[d] = "create" /\ pc'[d] # "done" => result[d] = "pending"
                        /\ op[d] = "probe" => result[d] = "AlreadyExists"
      BY <1>2 DEF Progress
    <3> QED
      BY <1>2, <2>0 DEF Progress, TypeOK
  <2>6. Verdict'
    <3> SUFFICES ASSUME NEW d \in Calls
                 PROVE  /\ result[d] = "ok" => \E i \in 1..MaxAttempts : reply[Attempt(d, i)] = "ok"
                        /\ result[d] \in Refusals => \A i \in 1..MaxAttempts :
                             /\ reply[Attempt(d, i)] # "ok" /\ outcome'[Attempt(d, i)] # "transport"
                             /\ outcome'[Attempt(d, i)] = "pending"
                                  => applied[Attempt(d, i)] = 0 /\ ~Started(Attempt(d, i))'
      BY <1>2 DEF Verdict, Attempt, OnlyCurrentEnds
    <3>1. result[d] \in Refusals => d # c \/ op[c] # "create"
      BY <2>0 DEF Progress, Refusals
    <3>2. result[d] \in Refusals => \A i \in 1..MaxAttempts :
            /\ outcome'[Attempt(d, i)] = outcome[Attempt(d, i)]
            /\ Started(Attempt(d, i))' <=> Started(Attempt(d, i))
      BY <1>2, <3>1, <2>2, AttemptFacts DEF Started, Attempt
    <3> QED
      BY <3>2, <2>0 DEF Verdict
  <2> QED
    BY <1>2, <2>0, <2>1, <2>4, <2>5, <2>6 DEF TypeOK
<1> QED
  BY <1>1, <1>2 DEF Loop, Retryable, AttemptsLeft
-----------------------------------------------------------------------------
(* What the envelope's Kind says about the script's answer. *)
LEMMA ClassifyFacts ==
  ASSUME NEW answer
  PROVE  /\ Classify(answer) \in {"AlreadyExists", "Denied", "Transient", "Unknown"}
         /\ Classify(answer) = "Transient" => answer \in {"down", "downAfterWrite"}
<1>1. DOMAIN classByType = {"exists", "nameHeld", "denied", "down", "downAfterWrite"}
  BY DEF classByType
<1>2. /\ classByType.exists = "AlreadyExists" /\ classByType.nameHeld = "AlreadyExists"
      /\ classByType.denied = "Denied"
      /\ classByType.down = "Transient" /\ classByType.downAfterWrite = "Transient"
  BY DEF classByType
<1> QED
  BY <1>1, <1>2 DEF Classify

(* A Result that core.exec parses keeps IInv, garbled or not. *)
LEMMA ResultArrivesInv ==
  ASSUME IInv, NEW c \in Calls, ResultArrives(c)
  PROVE  IInv'
<1>0. TypeOK /\ Contract
  BY DEF IInv
<1>1. PICK v \in {"Transport", IF Succeeded(reply[Current(c)]) THEN "ok" ELSE Classify(reply[Current(c)])} :
        /\ Loop(c, v)
        /\ \/ Transport!Return(Current(c), "ok")
           \/ Transport!Return(Current(c), "bare") /\ v = "Transport"
  BY DEF ResultArrives
<1>2. pc[c] = "run" /\ UNCHANGED <<name, tombsBlock, serverVars, reply, ended>>
  BY DEF ResultArrives
<1>3. /\ outcome'[Current(c)] = "ok" \/ v = "Transport"
      /\ OnlyCurrentEnds(c) /\ Transport!TypeOK' /\ Contract'
  BY <1>0, <1>1, <1>2, ReturnFacts DEF Transport!Results
<1>4. Justified(c, v)
  <2>1. reply' = reply /\ Current(c) \in Attempts
    BY <1>0, <1>2, CurrentFacts
  <2>2. CASE v = "Transport"
    BY <2>2 DEF Justified, Kinds, Refusals
  <2>3. CASE Succeeded(reply[Current(c)]) /\ v = "ok"
    BY <2>3 DEF Justified, Refusals
  <2>4. CASE v # "Transport" /\ ~Succeeded(reply[Current(c)]) /\ v = Classify(reply[Current(c)])
    <3>1. v \in Kinds /\ v # "ok" /\ reply[Current(c)] # "ok"
      BY <2>4, ClassifyFacts DEF Kinds, Succeeded
    <3>2. v = "Transient" => reply[Current(c)] \in {"down", "downAfterWrite"}
      BY <2>4, ClassifyFacts
    <3> QED
      BY <2>4, <1>3, <3>1, <3>2 DEF Justified
  <2> QED
    BY <1>1, <2>2, <2>3, <2>4
<1>5. /\ pc' \in [Calls -> {"run", "backoff", "done"}] /\ op' \in [Calls -> Ops]
      /\ attempt' \in [Calls -> 1..MaxAttempts]
      /\ result' \in [Calls -> Kinds \cup {"pending", "ok"}]
      /\ tombstoned' \in [Calls -> BOOLEAN]
      /\ Sequence' /\ Progress' /\ Verdict'
  BY <1>1, <1>2, <1>3, <1>4, LoopInv
<1> QED
  BY <1>0, <1>2, <1>3, <1>5 DEF IInv, TypeOK, serverVars

(* An error of Transport.Run keeps IInv. *)
LEMMA RunFailsInv ==
  ASSUME IInv, NEW c \in Calls, RunFails(c)
  PROVE  IInv'
<1>0. TypeOK /\ Contract
  BY DEF IInv
<1>1. pc[c] = "run" /\ UNCHANGED <<name, tombsBlock, serverVars, reply, ended>>
  BY DEF RunFails
<1>2. CASE Transport!Return(Current(c), "transient") /\ Loop(c, "Transient")
  <2>1. outcome'[Current(c)] = "transient" /\ OnlyCurrentEnds(c) /\ Transport!TypeOK' /\ Contract'
    BY <1>0, <1>1, <1>2, ReturnFacts DEF Transport!Results
  <2>2. Justified(c, "Transient")
    BY <2>1 DEF Justified, Kinds, Refusals
  <2> QED
    BY <1>0, <1>1, <1>2, <2>1, <2>2, LoopInv DEF IInv, TypeOK, serverVars
<1>3. CASE Transport!Return(Current(c), "transport") /\ Loop(c, "Transport")
  <2>1. outcome'[Current(c)] = "transport" /\ OnlyCurrentEnds(c) /\ Transport!TypeOK' /\ Contract'
    BY <1>0, <1>1, <1>3, ReturnFacts DEF Transport!Results
  <2>2. Justified(c, "Transport")
    BY <2>1 DEF Justified, Kinds, Refusals
  <2> QED
    BY <1>0, <1>1, <1>3, <2>1, <2>2, LoopInv DEF IInv, TypeOK, serverVars
<1> QED
  BY <1>2, <1>3 DEF RunFails

(* A backoff that ends with the context keeps IInv. *)
LEMMA BackoffCancelledInv ==
  ASSUME IInv, NEW c \in Calls, BackoffCancelled(c)
  PROVE  IInv'
<1>1. /\ OnlyCurrentEnds(c) /\ UNCHANGED <<outcome, applied>> /\ pc[c] = "backoff"
      /\ UNCHANGED <<name, tombsBlock, serverVars, reply, ended>>
  BY DEF BackoffCancelled, OnlyCurrentEnds, transportVars
<1>2. Justified(c, "Transport")
  BY DEF Justified, Kinds, Refusals
<1>3. Contract' /\ Transport!TypeOK'
  BY <1>1 DEF IInv, Contract, TypeOK, Transport!TypeOK
<1> QED
  BY <1>1, <1>2, <1>3, ExecReturnsInv DEF BackoffCancelled, IInv, TypeOK, serverVars

(* A backoff that elapses keeps IInv: the attempt before it is spent. *)
LEMMA BackoffElapsesInv ==
  ASSUME IInv, NEW c \in Calls, BackoffElapses(c)
  PROVE  IInv'
<1> USE MaxAttemptsAssumption
<1>0. TypeOK /\ Contract /\ Sequence /\ Progress /\ Verdict
  BY DEF IInv
<1>1. /\ pc[c] = "backoff" /\ attempt' = [attempt EXCEPT ![c] = @ + 1]
      /\ pc' = [pc EXCEPT ![c] = "run"]
      /\ UNCHANGED <<name, tombsBlock, serverVars, outcome, applied, reply, op, result, tombstoned, ended>>
  BY DEF BackoffElapses, transportVars
<1>2. attempt[c] \in 1..MaxAttempts /\ attempt[c] < MaxAttempts
  BY <1>0, <1>1 DEF TypeOK, Progress
<1>3. TypeOK'
  <2>1. attempt' \in [Calls -> 1..MaxAttempts] /\ pc' \in [Calls -> {"run", "backoff", "done"}]
    BY <1>0, <1>1, <1>2 DEF TypeOK
  <2> QED
    BY <1>0, <1>1, <2>1 DEF TypeOK, Transport!TypeOK, serverVars
<1>4. Contract'
  BY <1>0, <1>1 DEF Contract
<1>5. Sequence'
  <2> SUFFICES ASSUME NEW d \in Calls, op[d] = "create", NEW i \in 1..MaxAttempts
               PROVE  /\ i < attempt'[d] => FailedTransiently(Attempt(d, i))
                      /\ i = attempt'[d] /\ pc'[d] = "backoff" => FailedTransiently(Attempt(d, i))
                      /\ i > attempt'[d] => outcome[Attempt(d, i)] = "pending" /\ applied[Attempt(d, i)] = 0
    BY <1>1 DEF Sequence, Attempt, FailedTransiently
  <2>1. CASE d = c
    <3>1. attempt'[d] = attempt[c] + 1 /\ pc'[d] = "run"
      BY <1>0, <1>1, <2>1 DEF TypeOK
    <3> QED
      BY <1>0, <1>1, <1>2, <2>1, <3>1 DEF Sequence
  <2>2. CASE d # c
    BY <1>0, <1>1, <2>2 DEF Sequence, TypeOK
  <2> QED
    BY <2>1, <2>2
<1>6. Progress'
  <2> SUFFICES ASSUME NEW d \in Calls
               PROVE  /\ pc'[d] = "backoff" => attempt'[d] < MaxAttempts
                      /\ op[d] = "create" /\ pc'[d] # "done" => result[d] = "pending"
                      /\ op[d] = "probe" => result[d] = "AlreadyExists"
    BY <1>1 DEF Progress
  <2> QED
    BY <1>0, <1>1 DEF Progress, TypeOK
<1>7. Verdict'
  <2>1. \A d \in Calls : op[d] = "create" /\ d = c => result[d] = "pending"
    BY <1>0, <1>1 DEF Progress
  <2>2. ASSUME NEW d \in Calls, result[d] \in Refusals, NEW i \in 1..MaxAttempts
        PROVE  Started(Attempt(d, i))' <=> Started(Attempt(d, i))
    <3>1. d # c \/ op[d] # "create"
      BY <2>1, <2>2 DEF Refusals
    <3>2. d # c => attempt'[d] = attempt[d]
      BY <1>0, <1>1 DEF TypeOK
    <3> QED
      BY <1>1, <3>1, <3>2, AttemptFacts DEF Started, Attempt
  <2> SUFFICES ASSUME NEW d \in Calls
               PROVE  /\ result[d] = "ok" => \E i \in 1..MaxAttempts : reply[Attempt(d, i)] = "ok"
                      /\ result[d] \in Refusals => \A i \in 1..MaxAttempts :
                           /\ reply[Attempt(d, i)] # "ok" /\ outcome[Attempt(d, i)] # "transport"
                           /\ outcome[Attempt(d, i)] = "pending"
                                => applied[Attempt(d, i)] = 0 /\ ~Started(Attempt(d, i))'
    BY <1>1 DEF Verdict, Attempt
  <2> QED
    BY <1>0, <2>2 DEF Verdict
<1> QED
  BY <1>3, <1>4, <1>5, <1>6, <1>7 DEF IInv

(* What the scripts answer, whatever they do to the directory.             *)
LEMMA ScriptFacts ==
  ASSUME TypeOK, NEW a \in Attempts, ScriptRuns(a)
  PROVE  /\ \E answer \in Replies : reply' = [reply EXCEPT ![a] = answer]
                                    /\ (a[2] = "create" => answer \notin {"found", "notFound"})
         /\ live' \subseteq Names /\ tombs' = tombs
<1> USE DEF Answer, Replies, HalfDone
<1>1. CASE a[2] = "create"
  <2>1. CreateScript(a) /\ name[a[1]] \in Names
    BY <1>1, AttemptFacts DEF ScriptRuns, TypeOK
  <2>2. tombs' = tombs /\ live' \subseteq Names
    BY <2>1 DEF CreateScript, serverVars, TypeOK
  <2>3. \E answer \in {"denied", "down", "unknown", "exists", "nameHeld", "ok", "downAfterWrite", "unknownAfterWrite"} :
          reply' = [reply EXCEPT ![a] = answer]
    BY <2>1 DEF CreateScript
  <2> QED
    BY <2>2, <2>3
<1>2. CASE a[2] # "create"
  <2>1. ProbeScript(a)
    BY <1>2 DEF ScriptRuns
  <2>2. \E answer \in {"found", "notFound", "denied", "down", "unknown"} : reply' = [reply EXCEPT ![a] = answer]
    BY <2>1 DEF ProbeScript
  <2> QED
    BY <1>2, <2>1, <2>2 DEF ProbeScript, serverVars, TypeOK
<1> QED
  BY <1>1, <1>2

(* A script that runs, late or not, keeps IInv. *)
LEMMA ScriptRunsInv ==
  ASSUME IInv, NEW a \in Attempts, ScriptRuns(a)
  PROVE  IInv'
<1>0. TypeOK /\ Contract /\ Sequence /\ Progress /\ Verdict
  BY DEF IInv
<1>1. /\ Started(a) /\ applied[a] = 0 /\ outcome[a] \in {"pending", "transport"}
      /\ applied' = [applied EXCEPT ![a] = 1]
      /\ UNCHANGED <<outcome, name, tombsBlock, pc, op, attempt, result, tombstoned, ended>>
  BY DEF ScriptRuns, Transport!TakeEffect, callVars
<1>2. PICK answer \in Replies : /\ reply' = [reply EXCEPT ![a] = answer]
                                /\ a[2] = "create" => answer \notin {"found", "notFound"}
  BY <1>0, ScriptFacts
<1>3. live' \subseteq Names /\ tombs' = tombs
  BY <1>0, ScriptFacts
<1>4. \A b \in Attempts : /\ b # a => reply'[b] = reply[b] /\ applied'[b] = applied[b]
                          /\ b = a => reply'[b] = answer /\ applied'[b] = 1
  BY <1>0, <1>1, <1>2 DEF TypeOK, Transport!TypeOK
<1>5. TypeOK'
  <2>1. applied' \in [Attempts -> 0..1]
    BY <1>0, <1>1 DEF TypeOK, Transport!TypeOK
  <2>2. reply' \in [Attempts -> Replies]
    BY <1>0, <1>2 DEF TypeOK
  <2> QED
    BY <1>0, <1>1, <1>3, <2>1, <2>2 DEF TypeOK, Transport!TypeOK
<1>6. Contract'
  <2> SUFFICES ASSUME NEW b \in Attempts
               PROVE  /\ outcome[b] = "ok" => applied'[b] = 1
                      /\ outcome[b] = "transient" => applied'[b] = 0
                      /\ applied'[b] = 0 => reply'[b] = "none"
                      /\ b[2] = "create" => reply'[b] \notin {"found", "notFound"}
    BY <1>1 DEF Contract
  <2> QED
    BY <1>0, <1>1, <1>2, <1>4 DEF Contract
<1>7. \A c \in Calls, i \in 1..MaxAttempts :
        FailedTransiently(Attempt(c, i)) => Attempt(c, i) # a /\ FailedTransiently(Attempt(c, i))'
  BY <1>1, <1>4, AttemptFacts DEF FailedTransiently, Attempt
<1>8. Sequence'
  <2> SUFFICES ASSUME NEW c \in Calls, op[c] = "create", NEW i \in 1..MaxAttempts
               PROVE  /\ i < attempt[c] => FailedTransiently(Attempt(c, i))'
                      /\ i = attempt[c] /\ pc[c] = "backoff" => FailedTransiently(Attempt(c, i))'
                      /\ i > attempt[c] => outcome[Attempt(c, i)] = "pending" /\ applied'[Attempt(c, i)] = 0
    BY <1>1 DEF Sequence, Attempt
  <2>1. ASSUME i > attempt[c] PROVE Attempt(c, i) # a
    <3>1. attempt[c] \in Nat /\ outcome[Attempt(c, i)] = "pending"
      BY <1>0, <2>1 DEF TypeOK, Sequence
    <3>2. ~Started(Attempt(c, i))
      BY <2>1, <3>1, AttemptFacts DEF Started
    <3> QED
      BY <1>1, <3>2
  <2> QED
    BY <1>0, <1>4, <1>7, <2>1, AttemptFacts DEF Sequence
<1>9. Progress'
  BY <1>0, <1>1 DEF Progress
<1>10. Verdict'
  <2> SUFFICES ASSUME NEW c \in Calls
               PROVE  /\ result[c] = "ok" => \E i \in 1..MaxAttempts : reply'[Attempt(c, i)] = "ok"
                      /\ result[c] \in Refusals => \A i \in 1..MaxAttempts :
                           /\ reply'[Attempt(c, i)] # "ok" /\ outcome[Attempt(c, i)] # "transport"
                           /\ outcome[Attempt(c, i)] = "pending"
                                => applied'[Attempt(c, i)] = 0 /\ ~Started(Attempt(c, i))
    BY <1>1 DEF Verdict, Attempt, Started
  <2>1. \A i \in 1..MaxAttempts : reply[Attempt(c, i)] = "ok" => Attempt(c, i) # a
    BY <1>0, <1>1, AttemptFacts DEF Contract
  <2>2. result[c] \in Refusals => \A i \in 1..MaxAttempts : Attempt(c, i) # a
    BY <1>0, <1>1 DEF Verdict
  <2> QED
    BY <1>0, <1>4, <2>1, <2>2, AttemptFacts DEF Verdict
<1> QED
  BY <1>5, <1>6, <1>8, <1>9, <1>10 DEF IInv

(* Contexts that end and other clients keep IInv. *)
LEMMA WorldInv ==
  ASSUME IInv,
         (\E c \in Calls : ContextEnds(c)) \/ (\E n \in Names : OtherCreates(n) \/ OtherDeletes(n))
           \/ UNCHANGED vars
  PROVE  IInv'
<1>1. UNCHANGED <<name, tombsBlock, outcome, applied, reply, pc, op, attempt, result, tombstoned>>
  BY DEF ContextEnds, OtherCreates, OtherDeletes, vars, transportVars, callVars
<1>2. ended' \in [Calls -> BOOLEAN] /\ live' \subseteq Names /\ tombs' \subseteq Names
  BY DEF ContextEnds, OtherCreates, OtherDeletes, vars, serverVars, IInv, TypeOK
<1>3. TypeOK'
  BY <1>1, <1>2 DEF IInv, TypeOK, Transport!TypeOK
<1>4. Contract' /\ Progress'
  BY <1>1 DEF IInv, Contract, Progress
<1>5. Sequence'
  BY <1>1 DEF IInv, Sequence, FailedTransiently, Attempt
<1>6. Verdict'
  BY <1>1 DEF IInv, Verdict, Started, Attempt
<1> QED
  BY <1>3, <1>4, <1>5, <1>6 DEF IInv

(* Every step keeps IInv. *)
LEMMA StepInv == IInv /\ [Next]_vars => IInv'
<1> SUFFICES ASSUME IInv, [Next]_vars PROVE IInv'
  OBVIOUS
<1>1. ASSUME NEW c \in Calls, Create(c) PROVE IInv'
  BY <1>1, ResultArrivesInv, RunFailsInv, BackoffElapsesInv, BackoffCancelledInv DEF Create
<1>2. ASSUME NEW a \in Attempts, ScriptRuns(a) PROVE IInv'
  BY <1>2, ScriptRunsInv
<1>3. CASE (\E c \in Calls : ContextEnds(c)) \/ (\E n \in Names : OtherCreates(n) \/ OtherDeletes(n))
             \/ UNCHANGED vars
  BY <1>3, WorldInv
<1> QED
  BY <1>1, <1>2, <1>3 DEF Next

(* IInv is inductive, so it holds in every state of core.exec's retry loop. *)
THEOREM Invariance == Spec => []IInv
BY InitInv, StepInv, PTL DEF Spec
-----------------------------------------------------------------------------
(* Every variable keeps its type; in particular the loop of exec never     *)
(* starts more than MaxAttempts attempts.                                  *)
THEOREM TypeCorrect == Spec => []TypeOK
<1>1. IInv => TypeOK
  BY DEF IInv
<1> QED
  BY <1>1, Invariance, PTL

(* What Create reports is what it did: a success is an attempt that wrote  *)
(* the object and read it back; a refusal means that no attempt has        *)
(* written, unless a read-back failed (core.go, exec and its callers).     *)
THEOREM ReportsAreTruthful == Spec => []ReportIsTruthful
<1>1. IInv => ReportIsTruthful
  <2> SUFFICES ASSUME IInv, NEW c \in Calls
               PROVE  /\ result[c] = "ok" => \E a \in CreateAttempts(c) : reply[a] = "ok"
                      /\ result[c] \in Refusals /\ ~ReadBackLost(c) =>
                           \A a \in CreateAttempts(c) : ~Wrote(a)
    BY DEF ReportIsTruthful
  <2>1. CreateAttempts(c) = {Attempt(c, i) : i \in 1..MaxAttempts}
    BY DEF CreateAttempts, Attempt
  <2> QED
    BY <2>1 DEF IInv, Verdict, ReadBackLost, Wrote
<1> QED
  BY <1>1, Invariance, PTL

(* Once an attempt of a create has written and read back, no other attempt *)
(* of that call is made, whatever became of its answer.                    *)
THEOREM NoAttemptAfterLostAnswer == Spec => LostAnswerEndsCall
<1> DEFINE Ends == \A c \in Calls : attempt'[c] > attempt[c] /\ op[c] = "create"
                                     => \A a \in CreateAttempts(c) : reply[a] # "ok"
<1>1. IInv /\ [Next]_vars => [Ends]_vars
  <2> SUFFICES ASSUME IInv, Next, NEW c \in Calls, attempt'[c] > attempt[c], op[c] = "create"
               PROVE  \A a \in CreateAttempts(c) : reply[a] # "ok"
    OBVIOUS
  <2>0. TypeOK /\ Contract /\ Sequence
    BY DEF IInv
  <2>1. attempt[c] \in Nat
    BY <2>0 DEF TypeOK
  <2>2. attempt' # attempt
    BY <2>1
  <2>3. PICK d \in Calls : Create(d)
    BY <2>2 DEF Next, ContextEnds, ScriptRuns, OtherCreates, OtherDeletes, callVars
  <2>4. BackoffElapses(d) \/ \E v : ExecReturns(d, v)
    BY <2>2, <2>3 DEF Create, ResultArrives, RunFails, Loop, BackoffCancelled
  <2>5. ~ \E v : ExecReturns(d, v)
    <3> SUFFICES ASSUME NEW v, ExecReturns(d, v) PROVE FALSE
      OBVIOUS
    <3>1. attempt' = [attempt EXCEPT ![d] = 1]
      BY <2>2 DEF ExecReturns
    <3>2. attempt'[c] = 1 \/ attempt'[c] = attempt[c]
      BY <2>0, <3>1 DEF TypeOK
    <3>3. attempt[c] >= 1
      BY <2>0, MaxAttemptsAssumption DEF TypeOK
    <3> QED
      BY <2>1, <3>2, <3>3
  <2>6. pc[d] = "backoff" /\ attempt' = [attempt EXCEPT ![d] = @ + 1]
    BY <2>4, <2>5 DEF BackoffElapses
  <2>7. c = d
    BY <2>0, <2>1, <2>6 DEF TypeOK
  <2>8. ASSUME NEW i \in 1..MaxAttempts PROVE reply[Attempt(c, i)] # "ok"
    <3>1. FailedTransiently(Attempt(c, i)) \/ applied[Attempt(c, i)] = 0
      BY <2>0, <2>1, <2>6, <2>7 DEF Sequence
    <3> QED
      BY <2>0, <3>1, AttemptFacts DEF FailedTransiently, Contract
  <2> QED
    BY <2>8 DEF CreateAttempts, Attempt
<1>2. Spec => [][Ends]_vars
  BY <1>1, Invariance, PTL DEF Spec
<1> QED
  BY <1>2 DEF LostAnswerEndsCall
=============================================================================
