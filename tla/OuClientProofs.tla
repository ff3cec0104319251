--------------------------- MODULE OuClientProofs ---------------------------
(***************************************************************************)
(* Theorems about OuClient for every set of calls, attribute values and    *)
(* forms of identity, and every number of attempts.                        *)
(***************************************************************************)
EXTENDS OuClient, SequenceTheorems, TLAPS

Jobs == Updates \cup Deletes
Deleting(c) == pc[c] # "start" /\ job[c].do = "delete"

(* What a call does, where it is, and which keys it holds. *)
CallsTyped ==
  /\ holder \in [Keys -> Calls \cup {None}]
  /\ pc \in [Calls -> {"start", "lock", "get", "script", "done"}]
  /\ job \in [Calls -> Jobs \cup {None}]
  /\ \A c \in Calls : pc[c] # "start" => job[c] \in Jobs

LockInv == CallsTyped /\ LockedByItsCall

(* There is no script before the call has read the OU, and no result before its return. *)
Fresh ==
  /\ DOMAIN todo = Calls /\ DOMAIN answer = Calls /\ DOMAIN result = Calls
  /\ \A c \in Calls : /\ pc[c] \in {"start", "lock", "get"} => todo[c] = <<>> /\ answer[c] = "none"
                      /\ pc[c] # "done" => result[c] = "pending"

(* What may be left of the script of a Delete: nothing, or cmdlets up to the re-read. *)
VerifiedScripts == {cmdlets \in Seq(Cmdlets) : cmdlets # <<>> => cmdlets[Len(cmdlets)] = "presence"}

(* A Delete that has been answered ok, or has returned nil, has seen the OU gone. *)
Verified ==
  \A c \in Calls :
    Deleting(c) => /\ todo[c] \in VerifiedScripts
                   /\ answer[c] = "ok" \/ result[c] = "ok" => ou = None

IInv == LockInv /\ Fresh /\ Verified
-----------------------------------------------------------------------------
(* The jobs of Update and Delete, and the keys they lock. *)
LEMMA JobFacts ==
  \A j \in Jobs : /\ j.id \in Keys
                  /\ j.do \in {"update", "delete"}
                  /\ j.do = "delete" => j \in Deletes
BY DEF Jobs, Updates, Deletes, Identities

(* The script of a Delete ends with the re-read, and so does what is left of it. *)
LEMMA ScriptEnds ==
  /\ <<>> \in VerifiedScripts
  /\ \A unprotect \in BOOLEAN : DeleteScript(unprotect) \in VerifiedScripts
  /\ \A t \in VerifiedScripts :
       t # <<>> => Tail(t) \in VerifiedScripts /\ (Len(t) = 1 => Head(t) = "presence")
<1>1. <<>> \in VerifiedScripts
  BY DEF VerifiedScripts
<1>2. ASSUME NEW unprotect \in BOOLEAN PROVE DeleteScript(unprotect) \in VerifiedScripts
  <2> DEFINE first == <<"children">>
             second == When(unprotect, "unprotect")
             last == <<"remove", "presence">>
  <2>1. first \in Seq(Cmdlets) /\ last \in Seq(Cmdlets) /\ Len(last) = 2 /\ last[2] = "presence"
    BY DEF Cmdlets
  <2>2. second \in Seq(Cmdlets)
    <3>1. <<>> \in Seq(Cmdlets) /\ <<"unprotect">> \in Seq(Cmdlets)
      BY DEF Cmdlets
    <3> QED
      BY <3>1 DEF When
  <2> HIDE DEF first, second, last
  <2>3. first \o second \in Seq(Cmdlets)
    BY <2>1, <2>2, ConcatProperties
  <2> DEFINE front == first \o second
  <2>4. front \in Seq(Cmdlets) /\ Len(front) \in Nat
    BY <2>3, LenProperties
  <2> HIDE DEF front
  <2>5. /\ front \o last \in Seq(Cmdlets)
        /\ Len(front \o last) = Len(front) + Len(last)
        /\ \A i \in 1 .. Len(front) + Len(last) :
             (front \o last)[i] = IF i <= Len(front) THEN front[i] ELSE last[i - Len(front)]
    BY <2>1, <2>4, ConcatProperties
  <2>6. (front \o last)[Len(front) + 2] = last[2]
    BY <2>1, <2>4, <2>5
  <2>7. DeleteScript(unprotect) = front \o last
    BY DEF DeleteScript, front, first, second, last
  <2> QED
    BY <2>1, <2>5, <2>6, <2>7 DEF VerifiedScripts
<1>3. ASSUME NEW t \in VerifiedScripts, t # <<>>
      PROVE  Tail(t) \in VerifiedScripts /\ (Len(t) = 1 => Head(t) = "presence")
  <2>1. t \in Seq(Cmdlets) /\ t[Len(t)] = "presence"
    BY <1>3 DEF VerifiedScripts
  <2>2. Tail(t) \in Seq(Cmdlets) /\ (Tail(t) # <<>> => Tail(t)[Len(Tail(t))] = t[Len(t)])
    BY <1>3, <2>1
  <2>3. Len(t) = 1 => Head(t) = "presence"
    BY <1>3, <2>1
  <2> QED
    BY <2>1, <2>2, <2>3 DEF VerifiedScripts
<1> QED
  BY <1>1, <1>2, <1>3

(* No call has begun. *)
LEMMA InitInv == Init => IInv
<1> SUFFICES ASSUME Init PROVE IInv
  OBVIOUS
<1>1. CallsTyped
  BY DEF Init, CallsTyped
<1>2. LockedByItsCall
  BY NoneAssumption DEF Init, LockedByItsCall
<1>3. Fresh /\ Verified
  BY DEF Init, Fresh, Verified, Deleting
<1> QED
  BY <1>1, <1>2, <1>3 DEF IInv, LockInv
-----------------------------------------------------------------------------
(* A return frees the key of its call, and only that. *)
LEMMA ReturnLock ==
  ASSUME LockInv, NEW c \in Calls, pc[c] \in {"get", "script"}, NEW r, Return(c, r), job' = job
  PROVE  LockInv'
<1> USE DEF LockInv, CallsTyped, LockedByItsCall
<1>1. job[c] \in Jobs /\ job[c].id \in Keys
  BY JobFacts
<1>2. /\ holder' = [holder EXCEPT ![job[c].id] = None]
      /\ pc' = [pc EXCEPT ![c] = "done"]
  BY DEF Return
<1>3. CallsTyped'
  BY <1>1, <1>2
<1>4. ASSUME NEW d \in Calls, NEW k \in Keys
      PROVE  holder'[k] = d <=> pc'[d] \in {"get", "script"} /\ job'[d].id = k
  <2>1. CASE k = job[c].id
    <3>1. holder[k] = c /\ holder'[k] = None
      BY <1>2, <2>1
    <3> QED
      BY <1>2, <2>1, <3>1, NoneAssumption
  <2>2. CASE k # job[c].id
    BY <1>2, <2>2
  <2> QED
    BY <2>1, <2>2
<1> QED
  BY <1>3, <1>4

(* Every step keeps the locks in order. *)
LEMMA StepLock == LockInv /\ [Next]_vars => LockInv'
<1> SUFFICES ASSUME LockInv, [Next]_vars PROVE LockInv'
  OBVIOUS
<1>1. ASSUME NEW c \in Calls, Start(c) PROVE LockInv'
  <2>1. PICK j \in Jobs : job' = [job EXCEPT ![c] = j]
    BY <1>1 DEF Start, Jobs
  <2>2. pc[c] = "start" /\ pc' = [pc EXCEPT ![c] = "lock"] /\ holder' = holder
    BY <1>1 DEF Start
  <2>3. CallsTyped'
    BY <2>1, <2>2 DEF LockInv, CallsTyped
  <2>4. LockedByItsCall'
    BY <2>1, <2>2 DEF LockInv, CallsTyped, LockedByItsCall
  <2> QED
    BY <2>3, <2>4 DEF LockInv
<1>2. ASSUME NEW c \in Calls, Lock(c) PROVE LockInv'
  <2>1. /\ pc[c] = "lock" /\ holder[job[c].id] = None
        /\ holder' = [holder EXCEPT ![job[c].id] = c]
        /\ pc' = [pc EXCEPT ![c] = "get"] /\ job' = job
    BY <1>2 DEF Lock
  <2>2. job[c].id \in Keys
    BY <2>1, JobFacts DEF LockInv, CallsTyped
  <2>3. CallsTyped'
    BY <2>1, <2>2 DEF LockInv, CallsTyped
  <2>4. LockedByItsCall'
    BY <2>1, <2>2, NoneAssumption DEF LockInv, CallsTyped, LockedByItsCall
  <2> QED
    BY <2>3, <2>4 DEF LockInv
<1>3. ASSUME NEW c \in Calls, Update(c) PROVE LockInv'
  <2>1. CASE \E r : Return(c, r)
    BY <1>3, <2>1, ReturnLock DEF Update, Get, GetFails, ExecEnds, Abandon
  <2>2. CASE ~ \E r : Return(c, r)
    <3>1. /\ holder' = holder /\ job' = job
          /\ \/ pc' = pc
             \/ pc[c] = "get" /\ pc' = [pc EXCEPT ![c] = "script"]
      BY <1>3, <2>2 DEF Update, Get, GetFails, ExecEnds, Abandon
    <3> QED
      BY <3>1 DEF LockInv, CallsTyped, LockedByItsCall
  <2> QED
    BY <2>1, <2>2
<1>4. ASSUME NEW c \in Calls, ScriptStep(c) PROVE LockInv'
  <2>1. UNCHANGED <<holder, pc, job>>
    BY <1>4 DEF ScriptStep, WriteCmdlet, RefusedCmdlet, ReadCmdlet, CmdletFails, callVars
  <2> QED
    BY <2>1 DEF LockInv, CallsTyped, LockedByItsCall
<1>5. CASE UNCHANGED vars
  BY <1>5 DEF vars, callVars, LockInv, CallsTyped, LockedByItsCall
<1> QED
  BY <1>1, <1>2, <1>3, <1>4, <1>5 DEF Next
-----------------------------------------------------------------------------
(* A step of a script: the cmdlets left are a tail of those before, and a  *)
(* Delete is answered ok only by the re-read that finds no OU.             *)
LEMMA ScriptStepVerified ==
  ASSUME IInv, NEW c \in Calls, ScriptStep(c)
  PROVE  Fresh' /\ Verified'
<1> USE DEF IInv, LockInv, Fresh
<1>1. UNCHANGED <<pc, job, result>> /\ todo[c] # <<>>
  BY DEF ScriptStep, WriteCmdlet, RefusedCmdlet, ReadCmdlet, CmdletFails, callVars, Runs
<1>2. Proceed(c) \/ \E a : a # "ok" /\ Throw(c, a)
  BY DEF ScriptStep, WriteCmdlet, RefusedCmdlet, ReadCmdlet, CmdletFails
<1>3. /\ todo' = [todo EXCEPT ![c] = Tail(todo[c])] \/ todo' = [todo EXCEPT ![c] = <<>>]
      /\ DOMAIN answer' = Calls
      /\ \A d \in Calls : d # c => answer'[d] = answer[d]
  BY <1>2 DEF Proceed, Throw
<1>4. Fresh'
  BY <1>1, <1>3
<1>5. ou = None => ou' = None
  BY DEF ScriptStep, WriteCmdlet, RefusedCmdlet, ReadCmdlet, CmdletFails, Resolves
<1>6. ASSUME Deleting(c), answer'[c] = "ok", answer[c] # "ok" PROVE ou' = None
  <2>1. Proceed(c) /\ Len(todo[c]) = 1
    BY <1>2, <1>6 DEF Proceed, Throw
  <2>2. Head(todo[c]) = "presence"
    BY <1>1, <1>6, <2>1, ScriptEnds DEF Verified
  <2>3. \A cmdlet : Runs(c, cmdlet) => cmdlet = "presence"
    BY <2>2 DEF Runs
  <2>4. ~WriteCmdlet(c) /\ ~RefusedCmdlet(c) /\ ~CmdletFails(c)
    BY <1>1, <2>2, <2>3 DEF WriteCmdlet, Writes, RefusedCmdlet, CmdletFails, Runs
  <2>5. ReadCmdlet(c)
    BY <2>4 DEF ScriptStep
  <2>6. ou' = ou
    BY <2>5 DEF ReadCmdlet
  <2>7. Runs(c, "presence") /\ (Throw(c, "unverified") \/ IF ou # None THEN Throw(c, "present") ELSE Proceed(c))
    BY <2>3, <2>5 DEF ReadCmdlet
  <2>8. \A a : Throw(c, a) => a = "ok"
    BY <1>6 DEF Throw
  <2> QED
    BY <2>6, <2>7, <2>8
<1>7. ASSUME NEW d \in Calls, pc'[d] # "start" /\ job'[d].do = "delete"
      PROVE  /\ todo'[d] \in VerifiedScripts
             /\ answer'[d] = "ok" \/ result'[d] = "ok" => ou' = None
  <2>1. Deleting(d)
    BY <1>1, <1>7 DEF Deleting
  <2>2. todo[d] \in VerifiedScripts /\ (answer[d] = "ok" \/ result[d] = "ok" => ou = None)
    BY <2>1 DEF Verified
  <2>3. todo'[d] \in VerifiedScripts
    <3>1. d = c => Tail(todo[c]) \in VerifiedScripts
      BY <1>1, <2>2, ScriptEnds
    <3> QED
      BY <1>3, <2>2, <3>1, ScriptEnds
  <2> QED
    BY <1>1, <1>3, <1>5, <1>6, <2>1, <2>2, <2>3
<1> QED
  BY <1>4, <1>7 DEF Verified, Deleting

(* A step of the caller: a script begins whole, and a return reports its answer. *)
LEMMA CallStepVerified ==
  ASSUME IInv, NEW c \in Calls, Start(c) \/ Lock(c) \/ Update(c)
  PROVE  Fresh' /\ Verified'
<1> USE DEF IInv, LockInv, CallsTyped
<1>1. ou' = ou
  BY DEF Start, Lock, Update, Get, GetFails, ExecEnds, Abandon
<1>2. \A d \in Calls \ {c} : pc'[d] = pc[d] /\ job'[d] = job[d] /\ todo'[d] = todo[d]
                             /\ answer'[d] = answer[d] /\ result'[d] = result[d]
  BY DEF Start, Lock, Update, Get, GetFails, ExecEnds, Abandon, Return, scriptVars, Fresh
<1>3. DOMAIN todo' = Calls /\ DOMAIN answer' = Calls /\ DOMAIN result' = Calls
  BY DEF Start, Lock, Update, Get, GetFails, ExecEnds, Abandon, Return, scriptVars, Fresh
<1>4. pc[c] \in {"start", "lock", "get"} => todo[c] = <<>> /\ answer[c] = "none"
  BY DEF Fresh
<1>5. pc[c] # "done" => result[c] = "pending"
  BY DEF Fresh
<1> DEFINE Asked == pc'[c] # "start" /\ job'[c].do = "delete"
<1> DEFINE Good == /\ pc'[c] \in {"start", "lock", "get"} => todo'[c] = <<>> /\ answer'[c] = "none"
                   /\ pc'[c] # "done" => result'[c] = "pending"
                   /\ Asked => /\ todo'[c] \in VerifiedScripts
                               /\ answer'[c] = "ok" \/ result'[c] = "ok" => ou' = None
<1>6. ASSUME Start(c) \/ Lock(c) PROVE Good
  <2>1. /\ pc[c] \in {"start", "lock"} /\ pc'[c] \in {"lock", "get"}
        /\ UNCHANGED <<todo, answer, result>>
    BY <1>6 DEF Start, Lock, scriptVars
  <2> QED
    BY <1>4, <1>5, <2>1, ScriptEnds
<1>7. ASSUME Get(c) PROVE Good
  <2>1. pc[c] = "get" /\ UNCHANGED <<job, answer>>
    BY <1>7 DEF Get
  <2>2. CASE job[c].do = "update" /\ UpdateScript(job[c].spec, ou) = <<>>
    <3>1. pc'[c] = "done" /\ ~Asked
      BY <1>7, <2>1, <2>2 DEF Get, Return
    <3> QED
      BY <3>1
  <2>3. CASE ~(job[c].do = "update" /\ UpdateScript(job[c].spec, ou) = <<>>)
    <3>1. /\ pc'[c] = "script" /\ result' = result
          /\ todo' = [todo EXCEPT ![c] = Script(job[c], ou)]
      BY <1>7, <2>3 DEF Get
    <3>2. Asked => todo'[c] \in VerifiedScripts
      <4> SUFFICES ASSUME Asked PROVE todo'[c] \in VerifiedScripts
        OBVIOUS
      <4>1. job[c] \in Deletes /\ job[c].do = "delete"
        BY <2>1, JobFacts DEF Deleting
      <4>2. todo'[c] = DeleteScript(job[c].unprotect) /\ job[c].unprotect \in BOOLEAN
        BY <3>1, <4>1 DEF Script, Deletes, Fresh
      <4> QED
        BY <4>2, ScriptEnds
    <3> QED
      BY <1>4, <1>5, <2>1, <3>1, <3>2
  <2> QED
    BY <2>2, <2>3
<1>8. ASSUME GetFails(c) PROVE Good
  <2>1. /\ pc[c] = "get" /\ pc'[c] = "done" /\ UNCHANGED <<job, todo, answer>>
        /\ result' = [result EXCEPT ![c] = "notFound"] \/ result' = [result EXCEPT ![c] = "transport"]
    BY <1>8 DEF GetFails, Return, scriptVars
  <2>2. result'[c] # "ok"
    BY <2>1 DEF Fresh
  <2> QED
    BY <1>4, <2>1, <2>2, ScriptEnds
<1>9. ASSUME ExecEnds(c) PROVE Good
  <2>1. pc[c] = "script" /\ job' = job /\ result[c] = "pending" /\ job[c] \in Jobs
    BY <1>5, <1>9 DEF ExecEnds
  <2>2. CASE answer[c] = "down" /\ attempt[c] < MaxAttempts
    <3>1. /\ todo' = [todo EXCEPT ![c] = Script(job[c], current[c])]
          /\ answer' = [answer EXCEPT ![c] = "none"]
          /\ pc' = pc /\ result' = result
      BY <1>9, <2>2 DEF ExecEnds
    <3>2. job[c].do = "delete" => todo'[c] \in VerifiedScripts
      <4> SUFFICES ASSUME job[c].do = "delete" PROVE todo'[c] \in VerifiedScripts
        OBVIOUS
      <4>1. job[c] \in Deletes
        BY <2>1, JobFacts
      <4>2. todo'[c] = DeleteScript(job[c].unprotect) /\ job[c].unprotect \in BOOLEAN
        BY <3>1, <4>1 DEF Script, Deletes, Fresh
      <4> QED
        BY <4>2, ScriptEnds
    <3>3. answer'[c] = "none"
      BY <3>1 DEF Fresh
    <3> QED
      BY <2>1, <3>1, <3>2, <3>3 DEF Deleting
  <2>3. CASE ~(answer[c] = "down" /\ attempt[c] < MaxAttempts)
    <3>1. UNCHANGED <<todo, answer>> /\ pc'[c] = "done" /\ result'[c] = answer[c]
      BY <1>9, <2>3 DEF ExecEnds, Return, Fresh
    <3>2. job[c].do = "delete" => Deleting(c)
      BY <2>1 DEF Deleting
    <3> QED
      BY <1>1, <2>1, <3>1, <3>2 DEF Verified, Deleting
  <2> QED
    BY <2>2, <2>3
<1>10. ASSUME Abandon(c) PROVE Good
  <2>1. /\ pc[c] = "script" /\ pc'[c] = "done" /\ UNCHANGED <<job, answer>>
        /\ todo' = todo \/ todo' = [todo EXCEPT ![c] = <<>>]
        /\ result' = [result EXCEPT ![c] = "transport"]
    BY <1>10 DEF Abandon, Return
  <2>2. result'[c] # "ok" /\ (todo'[c] = todo[c] \/ todo'[c] = <<>>)
    BY <2>1 DEF Fresh
  <2> QED
    BY <1>1, <2>1, <2>2, ScriptEnds DEF Verified, Deleting
<1>11. Good
  BY <1>6, <1>7, <1>8, <1>9, <1>10 DEF Update
<1>12. Fresh'
  BY <1>2, <1>3, <1>11 DEF Fresh
<1>13. Verified'
  BY <1>1, <1>2, <1>11 DEF Verified, Deleting
<1> QED
  BY <1>12, <1>13

(* Every step keeps IInv. *)
LEMMA StepInv == IInv /\ [Next]_vars => IInv'
<1> SUFFICES ASSUME IInv, [Next]_vars PROVE Fresh' /\ Verified'
  BY StepLock DEF IInv
<1>1. CASE UNCHANGED vars
  BY <1>1 DEF vars, scriptVars, callVars, IInv, Fresh, Verified, Deleting
<1> QED
  BY <1>1, ScriptStepVerified, CallStepVerified DEF Next

(* IInv is inductive, so it holds in every state of the updates and deletes. *)
THEOREM Invariance == Spec => []IInv
BY InitInv, StepInv, PTL DEF Spec
-----------------------------------------------------------------------------
(* A key of the keyed mutex is held by a call exactly from the moment it   *)
(* locks it until it returns, on every path through Update and Delete.     *)
THEOREM LocksInOrder == Spec => []LockedByItsCall
<1>1. IInv => LockedByItsCall
  BY DEF IInv, LockInv
<1> QED
  BY <1>1, Invariance, PTL

(* Delete returns nil only if the OU is gone, whatever Remove-ADOrganiza-  *)
(* tionalUnit claimed and however often the script was sent again.         *)
THEOREM DeletesAreVerified == Spec => []DeleteVerified
<1>1. IInv => DeleteVerified
  <2> SUFFICES ASSUME IInv, NEW c \in Calls, Succeeded(c, "delete") PROVE ou = None
    BY DEF DeleteVerified
  <2>1. result[c] = "ok" /\ job[c].do = "delete" /\ pc[c] = "done"
    BY DEF Succeeded, IInv, Fresh
  <2> QED
    BY <2>1 DEF IInv, Verified, Deleting
<1> QED
  BY <1>1, Invariance, PTL
-----------------------------------------------------------------------------
(* The cmdlets a job may ask for: only an Update renames, moves or protects, *)
(* and it writes a description only if it was given one.                     *)
Allowed(j) ==
  {cmdlet \in Cmdlets :
     /\ cmdlet = "set" => j.do = "update" /\ j.spec.description # None
     /\ cmdlet \in {"rename", "move", "protect"} => j.do = "update"}

(* What the locks and the verification do not tell: the data of the calls. *)
DataTyped ==
  /\ ou \in OU \cup {None}
  /\ attempt \in [Calls -> 1..MaxAttempts]
  /\ current \in [Calls -> OU \cup {None}]
  /\ answer \in [Calls -> Answers]
  /\ model \in [Calls -> OU \cup {None}]
  /\ result \in [Calls -> (Answers \ {"none"}) \cup {"pending", "transport"}]
  /\ \A c \in Calls : /\ todo[c] \in Seq(Allowed(job[c]))
                      /\ pc[c] = "script" \/ todo[c] # <<>> => current[c] \in OU

(* A conditional cmdlet is a script of the cmdlets allowed. *)
LEMMA WhenType ==
  ASSUME NEW A, NEW condition, NEW cmdlet, condition => cmdlet \in A
  PROVE  When(condition, cmdlet) \in Seq(A)
<1>1. CASE condition
  BY <1>1 DEF When
<1>2. CASE ~condition
  BY <1>2 DEF When
<1> QED
  BY <1>1, <1>2

(* The script of a job has only cmdlets that the job may ask for. *)
LEMMA ScriptType ==
  ASSUME NEW j \in Jobs, NEW read
  PROVE  Script(j, read) \in Seq(Allowed(j))
<1> DEFINE A == Allowed(j)
<1>1. CASE j.do = "update"
  <2> DEFINE s == j.spec
             s1 == When(s.description # None, "set")
             s2 == When(s.name # read.name, "rename")
             s3 == When(Moves(s, read) /\ read.protected, "unprotect")
             s4 == When(Moves(s, read), "move")
             s5 == When(FinalProtected(s, read) # ProtectedAfterMove(s, read), "protect")
  <2>1. /\ s.description # None => "set" \in A
        /\ "rename" \in A /\ "unprotect" \in A /\ "move" \in A /\ "protect" \in A /\ "get" \in A
    BY <1>1 DEF Allowed, Cmdlets
  <2> HIDE DEF A
  <2>2. /\ s1 \in Seq(A) /\ s2 \in Seq(A) /\ s3 \in Seq(A) /\ s4 \in Seq(A) /\ s5 \in Seq(A)
    BY <2>1, WhenType
  <2>3. UpdateScript(s, read) = (((s1 \o s2) \o s3) \o s4) \o s5
    BY DEF UpdateScript
  <2> HIDE DEF s1, s2, s3, s4, s5
  <2>4. UpdateScript(s, read) \in Seq(A)
    <3>1. s1 \o s2 \in Seq(A)
      BY <2>2, ConcatProperties
    <3>2. (s1 \o s2) \o s3 \in Seq(A)
      BY <2>2, <3>1, ConcatProperties
    <3>3. ((s1 \o s2) \o s3) \o s4 \in Seq(A)
      BY <2>2, <3>2, ConcatProperties
    <3> QED
      BY <2>2, <2>3, <3>3, ConcatProperties
  <2>5. Script(j, read) = Append(UpdateScript(s, read), "get")
    BY <1>1 DEF Script
  <2> QED
    BY <2>1, <2>4, <2>5 DEF A
<1>2. CASE j.do # "update"
  <2> DEFINE first == <<"children">>
             second == When(j.unprotect, "unprotect")
             last == <<"remove", "presence">>
  <2>1. "children" \in A /\ "unprotect" \in A /\ "remove" \in A /\ "presence" \in A
    BY DEF Allowed, Cmdlets
  <2> HIDE DEF A
  <2>2. first \in Seq(A) /\ last \in Seq(A)
    BY <2>1
  <2>3. second \in Seq(A)
    BY <2>1, WhenType
  <2>4. Script(j, read) = (first \o second) \o last
    BY <1>2 DEF Script, DeleteScript
  <2> HIDE DEF first, second, last
  <2>5. first \o second \in Seq(A)
    BY <2>2, <2>3, ConcatProperties
  <2> QED
    BY <2>2, <2>4, <2>5, ConcatProperties DEF A
<1> QED
  BY <1>1, <1>2

(* No call has begun. *)
LEMMA InitData == Init => DataTyped
BY MaxAttemptsAssumption DEF Init, DataTyped, Answers

(* A step of the caller keeps the types: a script is made for its own job. *)
LEMMA CallData ==
  ASSUME IInv, DataTyped, NEW c \in Calls, Start(c) \/ Lock(c) \/ Update(c)
  PROVE  DataTyped'
<1> USE DEF DataTyped, IInv, LockInv, CallsTyped
<1>1. CASE Start(c)
  <2>1. /\ pc[c] = "start" /\ todo[c] = <<>> /\ pc' = [pc EXCEPT ![c] = "lock"]
        /\ UNCHANGED <<ou, scriptVars, attempt, current, result>>
        /\ \A d \in Calls : d # c => job'[d] = job[d]
    BY <1>1 DEF Start, Fresh
  <2>2. <<>> \in Seq(Allowed(job'[c]))
    OBVIOUS
  <2> QED
    BY <2>1, <2>2 DEF scriptVars
<1>2. CASE Lock(c)
  BY <1>2 DEF Lock, scriptVars
<1>3. CASE GetFails(c)
  <2>1. /\ UNCHANGED <<ou, job, scriptVars, attempt, current>> /\ pc' = [pc EXCEPT ![c] = "done"]
        /\ \/ result' = [result EXCEPT ![c] = "notFound"]
           \/ result' = [result EXCEPT ![c] = "transport"]
    BY <1>3 DEF GetFails, Return
  <2> QED
    BY <2>1 DEF scriptVars, Answers
<1>4. CASE Get(c)
  <2>1. ou \in OU /\ current' = [current EXCEPT ![c] = ou] /\ pc[c] = "get"
        /\ UNCHANGED <<ou, job, answer, attempt>> /\ job[c] \in Jobs
    BY <1>4 DEF Get, Resolves
  <2>2. CASE job[c].do = "update" /\ UpdateScript(job[c].spec, ou) = <<>>
    <3>1. /\ todo' = todo /\ model' = [model EXCEPT ![c] = ou]
          /\ result' = [result EXCEPT ![c] = "ok"] /\ pc' = [pc EXCEPT ![c] = "done"]
      BY <1>4, <2>2 DEF Get, Return
    <3>2. result' \in [Calls -> (Answers \ {"none"}) \cup {"pending", "transport"}]
      BY <3>1 DEF Answers
    <3> QED
      BY <2>1, <3>1, <3>2
  <2>3. CASE ~(job[c].do = "update" /\ UpdateScript(job[c].spec, ou) = <<>>)
    <3>1. /\ todo' = [todo EXCEPT ![c] = Script(job[c], ou)] /\ model' = model
          /\ result' = result /\ pc' = [pc EXCEPT ![c] = "script"]
      BY <1>4, <2>3 DEF Get
    <3>2. DOMAIN todo = Calls /\ Script(job[c], ou) \in Seq(Allowed(job[c]))
      BY <2>1, ScriptType DEF Fresh
    <3> QED
      BY <2>1, <3>1, <3>2
  <2> QED
    BY <2>2, <2>3
<1>5. CASE ExecEnds(c)
  <2>1. /\ pc[c] = "script" /\ answer[c] # "none" /\ job[c] \in Jobs
        /\ UNCHANGED <<ou, job, model, current>>
    BY <1>5 DEF ExecEnds
  <2>2. CASE answer[c] = "down" /\ attempt[c] < MaxAttempts
    <3>1. /\ attempt' = [attempt EXCEPT ![c] = @ + 1] /\ UNCHANGED <<pc, result>>
          /\ todo' = [todo EXCEPT ![c] = Script(job[c], current[c])]
          /\ answer' = [answer EXCEPT ![c] = "none"]
      BY <1>5, <2>2 DEF ExecEnds
    <3>2. attempt[c] + 1 \in 1..MaxAttempts
      BY <2>2, MaxAttemptsAssumption
    <3>3. DOMAIN todo = Calls /\ Script(job[c], current[c]) \in Seq(Allowed(job[c]))
      BY <2>1, ScriptType DEF Fresh
    <3>4. "none" \in Answers
      BY DEF Answers
    <3>5. attempt' \in [Calls -> 1..MaxAttempts] /\ answer' \in [Calls -> Answers]
      BY <3>1, <3>2, <3>4
    <3> QED
      BY <2>1, <3>1, <3>3, <3>5
  <2>3. CASE ~(answer[c] = "down" /\ attempt[c] < MaxAttempts)
    <3>1. UNCHANGED <<attempt, todo, answer>> /\ pc' = [pc EXCEPT ![c] = "done"]
          /\ result' = [result EXCEPT ![c] = answer[c]]
      BY <1>5, <2>3 DEF ExecEnds, Return
    <3> QED
      BY <2>1, <3>1
  <2> QED
    BY <2>2, <2>3
<1>6. CASE Abandon(c)
  <2>1. /\ UNCHANGED <<ou, job, answer, model, attempt, current>> /\ pc[c] = "script"
        /\ pc' = [pc EXCEPT ![c] = "done"] /\ result' = [result EXCEPT ![c] = "transport"]
        /\ todo' = todo \/ todo' = [todo EXCEPT ![c] = <<>>]
    BY <1>6 DEF Abandon, Return
  <2>2. <<>> \in Seq(Allowed(job[c])) /\ DOMAIN todo = Calls
    BY DEF Fresh
  <2> QED
    BY <2>1, <2>2
<1> QED
  BY <1>1, <1>2, <1>3, <1>4, <1>5, <1>6 DEF Update

(* A step of a script keeps the types: each write puts a value of the job or of the OU read. *)
LEMMA ScriptData ==
  ASSUME IInv, DataTyped, NEW c \in Calls, ScriptStep(c)
  PROVE  DataTyped'
<1> USE DEF DataTyped, IInv, LockInv, CallsTyped
<1> DEFINE spec == job[c].spec
<1>1. /\ todo[c] # <<>> /\ current[c] \in OU /\ job[c] \in Jobs
      /\ UNCHANGED <<job, callVars>> /\ DOMAIN todo = Calls
  BY DEF ScriptStep, WriteCmdlet, RefusedCmdlet, ReadCmdlet, CmdletFails, Runs, Fresh
<1>2. Head(todo[c]) \in Allowed(job[c]) /\ Tail(todo[c]) \in Seq(Allowed(job[c]))
  BY <1>1
<1>3. Proceed(c) \/ \E a \in Answers : Throw(c, a)
  BY DEF ScriptStep, WriteCmdlet, RefusedCmdlet, ReadCmdlet, CmdletFails, Answers
<1>4. answer' \in [Calls -> Answers] /\ \A d \in Calls : todo'[d] = todo[d] \/ d = c
  <2>1. "ok" \in Answers
    BY DEF Answers
  <2>2. \/ answer' = [answer EXCEPT ![c] = IF Len(todo[c]) = 1 THEN "ok" ELSE answer[c]]
        \/ \E a \in Answers : answer' = [answer EXCEPT ![c] = a]
    BY <1>3 DEF Proceed, Throw
  <2>3. answer' \in [Calls -> Answers]
    BY <2>1, <2>2
  <2>4. \/ todo' = [todo EXCEPT ![c] = Tail(todo[c])]
        \/ todo' = [todo EXCEPT ![c] = <<>>]
    BY <1>3 DEF Proceed, Throw
  <2> QED
    BY <1>1, <2>3, <2>4
<1>5. todo'[c] \in Seq(Allowed(job[c]))
  <2>1. \/ todo' = [todo EXCEPT ![c] = Tail(todo[c])]
        \/ todo' = [todo EXCEPT ![c] = <<>>]
    BY <1>3 DEF Proceed, Throw
  <2>2. todo'[c] = Tail(todo[c]) \/ todo'[c] = <<>>
    BY <1>1, <2>1
  <2>3. <<>> \in Seq(Allowed(job[c]))
    OBVIOUS
  <2> QED
    BY <1>2, <2>2, <2>3
<1>6. ou' \in OU \cup {None}
  <2>1. CASE WriteCmdlet(c)
    <3>1. ou \in OU /\ Writes(c)
      BY <2>1 DEF WriteCmdlet, Resolves
    <3>2. \A cmdlet : Runs(c, cmdlet) => cmdlet \in Allowed(job[c])
      BY <1>2 DEF Runs
    <3>3. job[c].do = "update" => spec \in OUSpec
      BY <1>1 DEF Jobs, Updates, Deletes
    <3>4. CASE Runs(c, "set") /\ ou' = [ou EXCEPT !.description = spec.description]
      <4>1. spec \in OUSpec /\ spec.description # None
        BY <3>2, <3>3, <3>4 DEF Allowed
      <4> QED
        BY <3>1, <3>4, <4>1 DEF OU, OUSpec
    <3>5. CASE Runs(c, "rename") /\ ou' = [ou EXCEPT !.name = spec.name]
      <4>1. spec \in OUSpec
        BY <3>2, <3>3, <3>5 DEF Allowed
      <4> QED
        BY <3>1, <3>5, <4>1 DEF OU, OUSpec
    <3>6. CASE ou' = [ou EXCEPT !.protected = FALSE]
      BY <3>1, <3>6 DEF OU
    <3>7. CASE Runs(c, "move") /\ ou' = [ou EXCEPT !.container = spec.container]
      <4>1. spec \in OUSpec
        BY <3>2, <3>3, <3>7 DEF Allowed
      <4> QED
        BY <3>1, <3>7, <4>1 DEF OU, OUSpec
    <3>8. CASE Runs(c, "protect") /\ ou' = [ou EXCEPT !.protected = FinalProtected(spec, current[c])]
      <4>1. spec \in OUSpec
        BY <3>2, <3>3, <3>8 DEF Allowed
      <4>2. FinalProtected(spec, current[c]) \in BOOLEAN
        BY <1>1, <4>1 DEF FinalProtected, OU, OUSpec
      <4> QED
        BY <3>1, <3>8, <4>2 DEF OU
    <3>9. CASE ou' = None
      BY <3>9
    <3> QED
      BY <3>1, <3>4, <3>5, <3>6, <3>7, <3>8, <3>9 DEF Writes
  <2>2. CASE ou' = ou
    BY <2>2
  <2> QED
    BY <2>1, <2>2 DEF ScriptStep, RefusedCmdlet, ReadCmdlet, CmdletFails
<1>7. model' \in [Calls -> OU \cup {None}]
  BY DEF ScriptStep, WriteCmdlet, RefusedCmdlet, ReadCmdlet, CmdletFails
<1> QED
  BY <1>1, <1>4, <1>5, <1>6, <1>7 DEF callVars

(* Every variable keeps its type: no script writes to the OU a value that  *)
(* its spec left nil, however often the script is sent again.              *)
THEOREM TypeCorrect == Spec => []TypeOK
<1>1. IInv /\ DataTyped /\ [Next]_vars => DataTyped'
  <2> SUFFICES ASSUME IInv, DataTyped, [Next]_vars PROVE DataTyped'
    OBVIOUS
  <2>1. CASE UNCHANGED vars
    BY <2>1 DEF vars, scriptVars, callVars, DataTyped
  <2> QED
    BY <2>1, CallData, ScriptData DEF Next
<1>2. IInv /\ DataTyped => TypeOK
  <2> SUFFICES ASSUME IInv, DataTyped PROVE TypeOK
    OBVIOUS
  <2>1. \A c \in Calls : todo[c] \in Seq(Cmdlets)
    <3> SUFFICES ASSUME NEW c \in Calls PROVE todo[c] \in Seq(Cmdlets)
      OBVIOUS
    <3>1. todo[c] \in Seq(Allowed(job[c])) /\ Allowed(job[c]) \subseteq Cmdlets
      BY DEF DataTyped, Allowed
    <3> QED
      BY <3>1
  <2> QED
    BY <2>1 DEF IInv, LockInv, CallsTyped, DataTyped, TypeOK, Jobs
<1> QED
  BY <1>1, <1>2, InitData, Invariance, PTL DEF Spec
-----------------------------------------------------------------------------
(* From here on: serialized calls.  When every caller names the OU by its  *)
(* GUID the calls share one key, so between the read of an Update and its  *)
(* return no other call's cmdlet runs, unless a caller has left its script *)
(* behind.                                                                 *)

(* The place of a cmdlet in the script of an Update. *)
Rank == [cmdlet \in Cmdlets |->
           CASE cmdlet = "set" -> 1 [] cmdlet = "rename" -> 2 [] cmdlet = "unprotect" -> 3
             [] cmdlet = "move" -> 4 [] cmdlet = "protect" -> 5 [] cmdlet = "get" -> 6 [] OTHER -> 7]
(* x occurs in s. *)
Has(s, x) == \E i \in 1..Len(s) : s[i] = x
(* The cmdlets of s are in the order of a script. *)
Ordered(s) ==
  /\ s \in Seq(Cmdlets)
  /\ \A i, j \in 1..Len(s) : i < j => Rank[s[i]] < Rank[s[j]]

(* s is the last part of script, which ends with get. *)
LastOf(s, script) ==
  /\ s # <<>> => Has(s, "get")
  /\ \A x \in Cmdlets : Has(s, x) => Has(script, x) /\ Rank[x] <= Rank["get"]
  /\ \A x, y \in Cmdlets : Has(s, y) /\ Rank[y] < Rank[x] /\ Has(script, x) => Has(s, x)

(* Every cmdlet in which that the payload has has run. *)
Ran(c, which) ==
  \/ \A x \in which : ~Has(Script(job[c], current[c]), x)
  \/ todo[c] # <<>> /\ \A x \in which : ~Has(todo[c], x)

(* o is the OU that the spec asks for of an OU that was as read. *)
Meets(o, spec, read) ==
  /\ o.name = spec.name /\ o.container = spec.container
  /\ spec.description \in {None, o.description}
  /\ o.protected = FinalProtected(spec, read)

(* The call is inside the exec of ou_update. *)
Updating(c) == pc[c] = "script" /\ job[c].do = "update"

(* What the cmdlets run so far have done to the OU: a part of the spec     *)
(* whose cmdlets have all run, or that needed none, is met.                *)
Progress(c) ==
  LET spec == job[c].spec IN
  /\ Ordered(todo[c])
  /\ LastOf(todo[c], Script(job[c], current[c]))
  /\ ou \in OU
  /\ Ran(c, {"rename"}) => ou.name = spec.name
  /\ Ran(c, {"move"}) => ou.container = spec.container
  /\ Ran(c, {"set"}) => spec.description \in {None, ou.description}
  /\ Ran(c, {"protect", "unprotect"}) => ou.protected = FinalProtected(spec, current[c])
  /\ attempt[c] = 1 =>
       /\ answer[c] # "protected"
       /\ Has(todo[c], "move") /\ ~Has(todo[c], "unprotect") => ~ou.protected
  /\ answer[c] = "ok" => model[c] = ou /\ Meets(ou, spec, current[c])

(* A call that has returned has no script left; an Update that returned ok has an OU as asked for. *)
Finished(c) ==
  pc[c] = "done" =>
    /\ todo[c] = <<>>
    /\ job[c].do = "update" /\ attempt[c] = 1 => answer[c] # "protected"
    /\ Succeeded(c, "update") => Meets(model[c], job[c].spec, current[c])

(* The call has set the field, and every other call so far has left it alone. *)
SoleSetter(c, field) ==
  /\ Succeeded(c, "update") /\ job[c].spec[field] # None
  /\ \A d \in Calls \ {c} : pc[d] # "start" =>
       /\ job[d].do = "update" /\ job[d].spec[field] = None
       /\ pc[d] = "done" => result[d] = "ok"
(* What a sole setter has set is still there: in the OU or, while a script *)
(* lifts the protection for its move, in what the script puts back.        *)
Kept(c) ==
  /\ SoleSetter(c, "description") => ou \in OU /\ ou.description = job[c].spec.description
  /\ SoleSetter(c, "protected") =>
       /\ ou \in OU
       /\ \A d \in Calls : pc[d] = "script" => current[d].protected = job[c].spec.protected
       /\ (\A d \in Calls : pc[d] # "script") => ou.protected = job[c].spec.protected

(* A script that has been answered is over, and there is none that was not made from an OU. *)
Answered == \A c \in Calls : /\ answer[c] # "none" => todo[c] = <<>>
                             /\ pc[c] = "script" => current[c] # None
(* What holds of every call as long as no script was left by its caller. *)
Serial ==
  \A c \in Calls :
    /\ Finished(c)
    /\ Updating(c) => Progress(c)
    /\ Kept(c)
(* The invariant of the serialized calls, inductive together with IInv and DataTyped. *)
SerialInv == Answered /\ (NobodyLeft => Serial)
-----------------------------------------------------------------------------
(* The ranks, cmdlet by cmdlet. *)
LEMMA Ranks ==
  /\ Rank \in [Cmdlets -> Nat]
  /\ Rank["set"] = 1 /\ Rank["rename"] = 2 /\ Rank["unprotect"] = 3
  /\ Rank["move"] = 4 /\ Rank["protect"] = 5 /\ Rank["get"] = 6
  /\ Rank["children"] = 7 /\ Rank["remove"] = 7 /\ Rank["presence"] = 7
BY DEF Rank, Cmdlets

(* What is left of an ordered script after its first cmdlet. *)
LEMMA TailOrdered ==
  ASSUME NEW s, Ordered(s), s # <<>>
  PROVE  /\ Head(s) \in Cmdlets
         /\ Ordered(Tail(s))
         /\ \A x : Has(s, x) <=> x = Head(s) \/ Has(Tail(s), x)
         /\ \A x : Has(Tail(s), x) => x \in Cmdlets /\ Rank[Head(s)] < Rank[x]
<1>1. s \in Seq(Cmdlets) /\ Head(s) = s[1] /\ Head(s) \in Cmdlets /\ Len(s) \in Nat \ {0}
  BY DEF Ordered
<1>2. /\ Tail(s) \in Seq(Cmdlets) /\ Len(Tail(s)) = Len(s) - 1
      /\ \A i \in 1..Len(s) - 1 : Tail(s)[i] = s[i+1]
  BY <1>1, HeadTailProperties
<1>3. \A i \in 1..Len(s) - 1 : i + 1 \in 1..Len(s)
  BY <1>1
<1>4. Ordered(Tail(s))
  BY <1>1, <1>2, <1>3 DEF Ordered
<1>5. ASSUME NEW x, Has(Tail(s), x)
      PROVE  Has(s, x) /\ x \in Cmdlets /\ Rank[Head(s)] < Rank[x]
  <2>1. PICK i \in 1..Len(s) - 1 : s[i+1] = x
    BY <1>2, <1>5 DEF Has
  <2>2. i + 1 \in 1..Len(s) /\ 1 \in 1..Len(s) /\ 1 < i + 1
    BY <1>1
  <2> QED
    BY <1>1, <2>1, <2>2 DEF Has, Ordered
<1>6. ASSUME NEW x, Has(s, x), x # Head(s) PROVE Has(Tail(s), x)
  <2>1. PICK i \in 1..Len(s) : s[i] = x
    BY <1>6 DEF Has
  <2>2. i - 1 \in 1..Len(s) - 1 /\ (i - 1) + 1 = i
    BY <1>1, <1>6, <2>1
  <2>3. Tail(s)[i - 1] = x
    BY <1>2, <2>1, <2>2
  <2> QED
    BY <1>2, <2>2, <2>3 DEF Has
<1>7. Has(s, Head(s))
  BY <1>1 DEF Has
<1> QED
  BY <1>1, <1>4, <1>5, <1>6, <1>7

(* A script with one more cmdlet, after those of a lower rank. *)
LEMMA ExtendOrdered ==
  ASSUME NEW s, Ordered(s), NEW cmdlet \in Cmdlets,
         \A x : Has(s, x) => Rank[x] < Rank[cmdlet],
         NEW t, t = s \o <<cmdlet>>
  PROVE  Ordered(t) /\ \A x : Has(t, x) <=> Has(s, x) \/ x = cmdlet
<1>1. s \in Seq(Cmdlets) /\ Len(s) \in Nat
  BY DEF Ordered
<1>2. t \in Seq(Cmdlets) /\ Len(t) = Len(s) + 1 /\ t[Len(s) + 1] = cmdlet
      /\ \A i \in 1..Len(s) : t[i] = s[i]
  BY <1>1
<1>3. /\ \A i \in 1..Len(t) : i \in 1..Len(s) \/ i = Len(s) + 1
      /\ 1..Len(s) \subseteq 1..Len(t) /\ Len(s) + 1 \in 1..Len(t)
  BY <1>1, <1>2
<1>4. ASSUME NEW i \in 1..Len(t), NEW k \in 1..Len(t), i < k PROVE Rank[t[i]] < Rank[t[k]]
  <2>1. i \in 1..Len(s) /\ t[i] = s[i] /\ Has(s, s[i])
    BY <1>1, <1>2, <1>3, <1>4 DEF Has
  <2>2. CASE k \in 1..Len(s)
    BY <1>2, <1>4, <2>1, <2>2 DEF Ordered
  <2>3. CASE k = Len(s) + 1
    BY <1>2, <2>1, <2>3
  <2> QED
    BY <1>3, <2>2, <2>3
<1>5. ASSUME NEW x PROVE Has(t, x) <=> Has(s, x) \/ x = cmdlet
  BY <1>2, <1>3 DEF Has
<1> QED
  BY <1>2, <1>4, <1>5 DEF Ordered

(* The script of an Update: its order, and what it has. *)
LEMMA UpdateScriptFacts ==
  ASSUME NEW spec, NEW read, NEW s, s = Append(UpdateScript(spec, read), "get")
  PROVE  /\ Ordered(s) /\ s # <<>> /\ Has(s, "get")
         /\ \A x : Has(s, x) => Rank[x] <= Rank["get"]
         /\ Has(s, "set") <=> spec.description # None
         /\ Has(s, "rename") <=> spec.name # read.name
         /\ Has(s, "unprotect") <=> Moves(spec, read) /\ read.protected
         /\ Has(s, "move") <=> Moves(spec, read)
         /\ Has(s, "protect") <=> FinalProtected(spec, read) # ProtectedAfterMove(spec, read)
         /\ UpdateScript(spec, read) = <<>> =>
              \A x \in {"set", "rename", "unprotect", "move", "protect"} : ~Has(s, x)
<1>0. "set" \in Cmdlets /\ "rename" \in Cmdlets /\ "unprotect" \in Cmdlets
      /\ "move" \in Cmdlets /\ "protect" \in Cmdlets /\ "get" \in Cmdlets
  BY DEF Cmdlets
<1>1. PICK s1 : s1 = When(spec.description # None, "set")
  OBVIOUS
<1>2. /\ Ordered(s1)
      /\ \A x : Has(s1, x) <=> spec.description # None /\ x = "set"
  BY <1>0, <1>1 DEF When, Ordered, Has
<1>3. PICK s2 : s2 = s1 \o When(spec.name # read.name, "rename")
  OBVIOUS
<1>4. /\ Ordered(s2)
      /\ \A x : Has(s2, x) <=> Has(s1, x) \/ (spec.name # read.name /\ x = "rename")
  <2>1. \A x : Has(s1, x) => Rank[x] < Rank["rename"]
    BY <1>2, Ranks
  <2>2. CASE spec.name # read.name
    <3>1. s2 = s1 \o <<"rename">>
      BY <1>3, <2>2 DEF When
    <3> QED
      BY <1>0, <1>2, <2>1, <2>2, <3>1, ExtendOrdered
  <2>3. CASE ~(spec.name # read.name)
    BY <1>2, <1>3, <2>3 DEF When, Ordered
  <2> QED
    BY <2>2, <2>3
<1>5. PICK s3 : s3 = s2 \o When(Moves(spec, read) /\ read.protected, "unprotect")
  OBVIOUS
<1>6. /\ Ordered(s3)
      /\ \A x : Has(s3, x) <=> Has(s2, x) \/ (Moves(spec, read) /\ read.protected /\ x = "unprotect")
  <2>1. \A x : Has(s2, x) => Rank[x] < Rank["unprotect"]
    BY <1>2, <1>4, Ranks
  <2>2. CASE Moves(spec, read) /\ read.protected
    <3>1. s3 = s2 \o <<"unprotect">>
      BY <1>5, <2>2 DEF When
    <3> QED
      BY <1>0, <1>4, <2>1, <2>2, <3>1, ExtendOrdered
  <2>3. CASE ~(Moves(spec, read) /\ read.protected)
    <3>1. s3 = s2 \o <<>>
      BY <1>5, <2>3 DEF When
    <3> QED
      BY <1>4, <2>3, <3>1 DEF Ordered
  <2> QED
    BY <2>2, <2>3
<1>7. PICK s4 : s4 = s3 \o When(Moves(spec, read), "move")
  OBVIOUS
<1>8. /\ Ordered(s4)
      /\ \A x : Has(s4, x) <=> Has(s3, x) \/ (Moves(spec, read) /\ x = "move")
  <2>1. \A x : Has(s3, x) => Rank[x] < Rank["move"]
    BY <1>2, <1>4, <1>6, Ranks
  <2>2. CASE Moves(spec, read)
    <3>1. s4 = s3 \o <<"move">>
      BY <1>7, <2>2 DEF When
    <3> QED
      BY <1>0, <1>6, <2>1, <2>2, <3>1, ExtendOrdered
  <2>3. CASE ~(Moves(spec, read))
    BY <1>6, <1>7, <2>3 DEF When, Ordered
  <2> QED
    BY <2>2, <2>3
<1>9. PICK s5 : s5 = s4 \o When(FinalProtected(spec, read) # ProtectedAfterMove(spec, read), "protect")
  OBVIOUS
<1>10. /\ Ordered(s5)
      /\ \A x : Has(s5, x) <=> Has(s4, x) \/ (FinalProtected(spec, read) # ProtectedAfterMove(spec, read) /\ x = "protect")
  <2>1. \A x : Has(s4, x) => Rank[x] < Rank["protect"]
    BY <1>2, <1>4, <1>6, <1>8, Ranks
  <2>2. CASE FinalProtected(spec, read) # ProtectedAfterMove(spec, read)
    <3>1. s5 = s4 \o <<"protect">>
      BY <1>9, <2>2 DEF When
    <3> QED
      BY <1>0, <1>8, <2>1, <2>2, <3>1, ExtendOrdered
  <2>3. CASE ~(FinalProtected(spec, read) # ProtectedAfterMove(spec, read))
    BY <1>8, <1>9, <2>3 DEF When, Ordered
  <2> QED
    BY <2>2, <2>3
<1>11. UpdateScript(spec, read) = s5 /\ s5 \in Seq(Cmdlets)
  BY <1>1, <1>3, <1>5, <1>7, <1>9, <1>10 DEF UpdateScript, Ordered
<1>12. s = s5 \o <<"get">> /\ s # <<>>
  BY <1>11
<1>13. Ordered(s) /\ \A x : Has(s, x) <=> Has(s5, x) \/ x = "get"
  <2>1. \A x : Has(s5, x) => Rank[x] < Rank["get"]
    BY <1>2, <1>4, <1>6, <1>8, <1>10, Ranks
  <2> QED
    BY <1>0, <1>10, <1>12, <2>1, ExtendOrdered
<1>14. s5 = <<>> => \A x : ~Has(s5, x)
  BY DEF Has
<1>15. \A x : Has(s, x) => Rank[x] <= Rank["get"]
  BY <1>2, <1>4, <1>6, <1>8, <1>10, <1>13, Ranks
<1>16. /\ Has(s, "set") <=> spec.description # None
       /\ Has(s, "rename") <=> spec.name # read.name
       /\ Has(s, "move") <=> Moves(spec, read)
       /\ Has(s, "protect") <=> FinalProtected(spec, read) # ProtectedAfterMove(spec, read)
       /\ Has(s, "get")
  BY <1>2, <1>4, <1>6, <1>8, <1>10, <1>13
<1>17. Has(s, "unprotect") <=> Moves(spec, read) /\ read.protected
  BY <1>2, <1>4, <1>6, <1>8, <1>10, <1>13
<1>18. UpdateScript(spec, read) = <<>> =>
         \A x \in {"set", "rename", "unprotect", "move", "protect"} : ~Has(s, x)
  BY <1>11, <1>13, <1>14
<1> QED
  BY <1>12, <1>13, <1>15, <1>16, <1>17, <1>18

(* A script of one cmdlet, and one of none. *)
LEMMA ShortScripts ==
  /\ \A A : \A s \in Seq(A) : s # <<>> => (Len(s) = 1 <=> Tail(s) = <<>>)
  /\ \A A : \A s \in Seq(A) : (\A x : ~Has(s, x)) => s = <<>>
<1>1. ASSUME NEW A, NEW s \in Seq(A), s # <<>> PROVE Len(s) = 1 <=> Tail(s) = <<>>
  <2>1. Tail(s) \in Seq(A) /\ Len(Tail(s)) = Len(s) - 1 /\ Len(s) \in Nat
    BY <1>1, HeadTailProperties, LenProperties
  <2>2. Tail(s) = <<>> <=> Len(Tail(s)) = 0
    BY <2>1, EmptySeq
  <2> QED
    BY <2>1, <2>2
<1>2. ASSUME NEW A, NEW s \in Seq(A), s # <<>> PROVE \E x : Has(s, x)
  <2>1. 1 \in 1..Len(s)
    BY <1>2, LenProperties, EmptySeq
  <2> QED
    BY <2>1 DEF Has
<1> QED
  BY <1>1, <1>2

(* With one form of identity there is one key, and one call at work. *)
LEMMA OneAtWork ==
  ASSUME Forms = {"guid"}, LockInv, NEW c \in Calls, NEW d \in Calls,
         pc[c] \in {"get", "script"}, pc[d] \in {"get", "script"}
  PROVE  c = d
<1>1. \A j \in Jobs : j.id = GUID
  BY DEF Jobs, Updates, Deletes, Identities
<1>2. job[c].id = GUID /\ job[d].id = GUID /\ GUID \in Keys
  BY <1>1 DEF LockInv, CallsTyped, Keys
<1>3. holder[GUID] = c /\ holder[GUID] = d
  BY <1>2 DEF LockInv, LockedByItsCall
<1> QED
  BY <1>3

(* What one step of a call can do to the rest of the state. *)
LEMMA OthersStay ==
  ASSUME IInv, DataTyped, NEW c \in Calls, NEW d \in Calls, d # c,
         Start(c) \/ Lock(c) \/ Update(c) \/ ScriptStep(c)
  PROVE  /\ pc'[d] = pc[d] /\ job'[d] = job[d] /\ attempt'[d] = attempt[d] /\ current'[d] = current[d]
         /\ todo'[d] = todo[d] /\ answer'[d] = answer[d] /\ model'[d] = model[d] /\ result'[d] = result[d]
<1> USE DEF IInv, LockInv, CallsTyped, DataTyped
<1>1. CASE Start(c)
  BY <1>1 DEF Start, scriptVars
<1>2. CASE Lock(c)
  BY <1>2 DEF Lock, scriptVars
<1>3. CASE Update(c)
  BY <1>3 DEF Update, Get, GetFails, ExecEnds, Abandon, Return, scriptVars, Fresh
<1>4. CASE ScriptStep(c)
  <2>1. UNCHANGED <<job, pc, attempt, current, result>>
    BY <1>4 DEF ScriptStep, WriteCmdlet, RefusedCmdlet, ReadCmdlet, CmdletFails, callVars
  <2>2. \E t : todo' = [todo EXCEPT ![c] = t]
    BY <1>4 DEF ScriptStep, WriteCmdlet, RefusedCmdlet, ReadCmdlet, CmdletFails, Proceed, Throw
  <2>3. \E a : answer' = [answer EXCEPT ![c] = a]
    BY <1>4 DEF ScriptStep, WriteCmdlet, RefusedCmdlet, ReadCmdlet, CmdletFails, Proceed, Throw
  <2>4. model' = model \/ \E m : model' = [model EXCEPT ![c] = m]
    BY <1>4 DEF ScriptStep, WriteCmdlet, RefusedCmdlet, ReadCmdlet, CmdletFails
  <2> QED
    BY <2>1, <2>2, <2>3, <2>4
<1> QED
  BY <1>1, <1>2, <1>3, <1>4

(* A script that has been answered has ended, whoever takes the step. *)
LEMMA StepAnswered ==
  ASSUME IInv, DataTyped, Answered, NEW c \in Calls,
         Start(c) \/ Lock(c) \/ Update(c) \/ ScriptStep(c)
  PROVE  Answered'
<1> USE DEF IInv, LockInv, CallsTyped, DataTyped, Answered
<1> SUFFICES /\ answer'[c] # "none" => todo'[c] = <<>>
             /\ pc'[c] = "script" => current'[c] # None
  BY OthersStay
<1>1. CASE Start(c) \/ Lock(c) \/ GetFails(c) \/ Abandon(c)
  BY <1>1 DEF Start, Lock, GetFails, Abandon, Return, scriptVars, Fresh
<1>2. CASE Get(c)
  <2>1. answer[c] = "none" /\ answer' = answer /\ current'[c] = ou /\ ou # None
    BY <1>2 DEF Get, Resolves, Fresh
  <2> QED
    BY <2>1
<1>3. CASE ExecEnds(c)
  BY <1>3 DEF ExecEnds, Return, Fresh
<1>4. CASE ScriptStep(c)
  <2>1. UNCHANGED <<pc, current>> /\ todo[c] # <<>> /\ answer[c] = "none"
    BY <1>4 DEF ScriptStep, WriteCmdlet, RefusedCmdlet, ReadCmdlet, CmdletFails, callVars, Runs
  <2>2. Proceed(c) \/ \E a : Throw(c, a)
    BY <1>4 DEF ScriptStep, WriteCmdlet, RefusedCmdlet, ReadCmdlet, CmdletFails
  <2>3. CASE Proceed(c)
    <3>1. todo'[c] = Tail(todo[c]) /\ (answer'[c] # "none" => Len(todo[c]) = 1)
      BY <2>1, <2>3 DEF Proceed, Fresh
    <3>2. Len(todo[c]) = 1 => Tail(todo[c]) = <<>>
      <4>1. todo[c] \in Seq(Allowed(job[c]))
        OBVIOUS
      <4> QED
        BY <4>1, <2>1, ShortScripts
    <3> QED
      BY <2>1, <3>1, <3>2
  <2>4. CASE \E a : Throw(c, a)
    BY <2>1, <2>4 DEF Throw, Fresh
  <2> QED
    BY <2>2, <2>3, <2>4
<1> QED
  BY <1>1, <1>2, <1>3, <1>4 DEF Update

(* What a step of the script of an Update does. *)
LEMMA UpdateCmdlet ==
  ASSUME IInv, DataTyped, Answered, NEW c \in Calls, job[c].do = "update", ScriptStep(c),
         Ordered(todo[c]), LastOf(todo[c], Script(job[c], current[c]))
  PROVE  LET spec == job[c].spec  h == Head(todo[c]) IN
         /\ todo[c] # <<>> /\ answer[c] = "none" /\ UNCHANGED <<job, callVars>>
         /\ Has(todo[c], h) /\ Rank[h] <= Rank["get"]
         /\ \/ h = "set" /\ ou # None /\ ou' = [ou EXCEPT !.description = spec.description]
            \/ h = "rename" /\ ou # None /\ ou' = [ou EXCEPT !.name = spec.name]
            \/ h = "unprotect" /\ ou # None /\ ou' = [ou EXCEPT !.protected = FALSE]
            \/ h = "move" /\ ou # None /\ ou' = [ou EXCEPT !.container = spec.container]
            \/ h = "protect" /\ ou # None /\ ou' = [ou EXCEPT !.protected = FinalProtected(spec, current[c])]
            \/ h = "move" /\ ou' = ou /\ ou.container = spec.container
            \/ h = "get" /\ ou' = ou /\ model'[c] = ou
            \/ ou' = ou /\ todo'[c] = <<>> /\ answer'[c] # "ok"
         /\ \/ /\ todo'[c] = Tail(todo[c])
               /\ answer'[c] = IF Len(todo[c]) = 1 THEN "ok" ELSE "none"
            \/ /\ todo'[c] = <<>> /\ answer'[c] # "ok"
               /\ answer'[c] = "protected" => h = "move" /\ ou.protected
<1> USE DEF IInv, LockInv, CallsTyped, DataTyped, Answered
<1> DEFINE spec == job[c].spec
           h == Head(todo[c])
<1>1. todo[c] # <<>> /\ answer[c] = "none" /\ UNCHANGED <<job, callVars>>
      /\ DOMAIN todo = Calls /\ DOMAIN answer = Calls
  BY DEF ScriptStep, WriteCmdlet, RefusedCmdlet, ReadCmdlet, CmdletFails, Runs, Fresh
<1>2. Has(todo[c], h) /\ Rank[h] <= Rank["get"] /\ h \in Cmdlets
  BY <1>1, TailOrdered DEF LastOf
<1>3. h \notin {"remove", "children", "presence"}
  <2>1. Rank["get"] = 6 /\ Rank["remove"] = 7 /\ Rank["children"] = 7 /\ Rank["presence"] = 7
    BY Ranks
  <2> HIDE DEF h
  <2> QED
    BY <1>2, <2>1
<1>4. \A cmdlet : Runs(c, cmdlet) <=> h = cmdlet
  BY <1>1 DEF Runs
<1>5. Proceed(c) => /\ todo'[c] = Tail(todo[c])
                    /\ answer'[c] = IF Len(todo[c]) = 1 THEN "ok" ELSE "none"
  BY <1>1 DEF Proceed
<1>6. \A a : Throw(c, a) => todo'[c] = <<>> /\ answer'[c] = a
  BY <1>1 DEF Throw
<1> HIDE DEF h
<1>7. CASE WriteCmdlet(c)
  <2>1. ou # None /\ Writes(c) /\ (Proceed(c) \/ Throw(c, "down"))
    BY <1>7 DEF WriteCmdlet, Resolves
  <2>2. \/ h = "set" /\ ou' = [ou EXCEPT !.description = spec.description]
        \/ h = "rename" /\ ou' = [ou EXCEPT !.name = spec.name]
        \/ h = "unprotect" /\ ou' = [ou EXCEPT !.protected = FALSE]
        \/ h = "move" /\ ou' = [ou EXCEPT !.container = spec.container]
        \/ h = "protect" /\ ou' = [ou EXCEPT !.protected = FinalProtected(spec, current[c])]
    BY <2>1, <1>3, <1>4 DEF Writes
  <2>3. \/ /\ todo'[c] = Tail(todo[c])
           /\ answer'[c] = IF Len(todo[c]) = 1 THEN "ok" ELSE "none"
        \/ todo'[c] = <<>> /\ answer'[c] # "ok" /\ answer'[c] # "protected"
    BY <1>5, <1>6, <2>1
  <2>4. ou # None
    BY <2>1
  <2> HIDE DEF spec
  <2> QED
    BY <1>1, <1>2, <2>2, <2>3, <2>4 DEF h, spec
<1>8. CASE RefusedCmdlet(c)
  <2>1. \/ h = "move" /\ ou.protected /\ Throw(c, "protected")
        \/ h = "move" /\ ou.container = spec.container /\ Proceed(c)
    BY <1>3, <1>4, <1>8 DEF RefusedCmdlet
  <2>2. ou' = ou
    BY <1>8 DEF RefusedCmdlet
  <2> QED
    BY <1>1, <1>2, <1>5, <1>6, <2>1, <2>2 DEF h
<1>9. CASE ReadCmdlet(c)
  <2>1. h = "get" /\ model'[c] = ou /\ ou' = ou /\ Proceed(c)
    BY <1>3, <1>4, <1>9 DEF ReadCmdlet
  <2> QED
    BY <1>1, <1>2, <1>5, <2>1 DEF h
<1>10. CASE CmdletFails(c)
  <2>1. ou' = ou /\ (Throw(c, "notFound") \/ Throw(c, "denied") \/ Throw(c, "down"))
    BY <1>10 DEF CmdletFails
  <2> QED
    BY <1>1, <1>2, <1>6, <2>1 DEF h
<1> QED
  BY <1>7, <1>8, <1>9, <1>10 DEF ScriptStep

(* Every cmdlet of an Update, done or failed, brings the OU towards the spec or leaves it. *)
LEMMA ScriptProgress ==
  ASSUME IInv, DataTyped, Answered, NEW c \in Calls, Updating(c), Progress(c), ScriptStep(c)
  PROVE  Progress(c)'
<1> DEFINE spec == job[c].spec
           read == current[c]
           s == todo[c]
           h == Head(s)
           F == Script(job[c], read)
<1>1. Ordered(s) /\ LastOf(s, F) /\ job[c].do = "update"
  BY DEF Progress, Updating
<1>2. /\ s # <<>> /\ answer[c] = "none" /\ UNCHANGED <<job, callVars>>
      /\ Has(s, h) /\ Rank[h] <= Rank["get"]
      /\ \/ h = "set" /\ ou # None /\ ou' = [ou EXCEPT !.description = spec.description]
         \/ h = "rename" /\ ou # None /\ ou' = [ou EXCEPT !.name = spec.name]
         \/ h = "unprotect" /\ ou # None /\ ou' = [ou EXCEPT !.protected = FALSE]
         \/ h = "move" /\ ou # None /\ ou' = [ou EXCEPT !.container = spec.container]
         \/ h = "protect" /\ ou # None /\ ou' = [ou EXCEPT !.protected = FinalProtected(spec, read)]
         \/ h = "move" /\ ou' = ou /\ ou.container = spec.container
         \/ h = "get" /\ ou' = ou /\ model'[c] = ou
         \/ ou' = ou /\ todo'[c] = <<>> /\ answer'[c] # "ok"
      /\ \/ /\ todo'[c] = Tail(s)
            /\ answer'[c] = IF Len(s) = 1 THEN "ok" ELSE "none"
         \/ /\ todo'[c] = <<>> /\ answer'[c] # "ok"
            /\ answer'[c] = "protected" => h = "move" /\ ou.protected
  BY <1>1, UpdateCmdlet
<1>3. /\ h \in Cmdlets /\ Ordered(Tail(s))
      /\ \A x : Has(s, x) <=> x = h \/ Has(Tail(s), x)
      /\ \A x : Has(Tail(s), x) => x \in Cmdlets /\ Rank[h] < Rank[x]
  BY <1>1, <1>2, TailOrdered
<1>4. /\ job' = job /\ current' = current /\ attempt' = attempt /\ pc' = pc
      /\ Script(job'[c], current'[c]) = F
  BY <1>2 DEF callVars
<1>5. Ordered(<<>>) /\ \A x : ~Has(<<>>, x)
  BY DEF Ordered, Has
<1>6. Ordered(todo'[c])
  BY <1>2, <1>3, <1>5
<1>7. \A x : Has(todo'[c], x) => Has(Tail(s), x) /\ todo'[c] = Tail(s)
  BY <1>2, <1>5
<1>8. h = "get" => Tail(s) = <<>> /\ Len(s) = 1
  <2>1. SUFFICES ASSUME h = "get" PROVE Tail(s) = <<>> /\ Len(s) = 1
    OBVIOUS
  <2>2. \A x : ~Has(Tail(s), x)
    BY <1>1, <1>3, <2>1, Ranks DEF LastOf
  <2>3. s \in Seq(Cmdlets) /\ Tail(s) \in Seq(Cmdlets)
    BY <1>1, <1>3 DEF Ordered
  <2> QED
    BY <1>2, <2>2, <2>3, ShortScripts
<1>9. Len(s) = 1 => h = "get"
  BY <1>1, <1>2 DEF LastOf, Has, Ordered
<1>10. h # "get" => Tail(s) # <<>>
  BY <1>1, <1>2, <1>9, ShortScripts DEF Ordered
<1>11. \A x \in Cmdlets : Has(s, x) => Has(F, x)
  BY <1>1 DEF LastOf
<1>12. ou \in OU /\ job[c] \in Updates /\ spec \in OUSpec /\ read \in OU
  <2>1. ou \in OU /\ pc[c] = "script" /\ job[c].do = "update"
    BY DEF Progress, Updating
  <2>2. job[c] \in Jobs /\ read \in OU
    BY <2>1 DEF IInv, LockInv, CallsTyped, DataTyped
  <2>3. job[c] \in Updates
    BY <2>1, <2>2 DEF Jobs, Updates, Deletes
  <2> QED
    BY <2>1, <2>2, <2>3 DEF Updates
<1>13. spec.description # None \/ ~Has(F, "set")
  BY UpdateScriptFacts, <1>1 DEF Script
<1> HIDE DEF h, F, s
<1>14. ASSUME NEW which, Ran(c, which)'
       PROVE  /\ h \notin which => Ran(c, which)
              /\ h \in which => todo'[c] = Tail(s) /\ \A x \in which \ {h} : ~Has(s, x)
  <2>1. \/ \A x \in which : ~Has(F, x)
        \/ todo'[c] # <<>> /\ \A x \in which : ~Has(todo'[c], x)
    BY <1>4, <1>14 DEF Ran
  <2>2. CASE \A x \in which : ~Has(F, x)
    BY <1>2, <1>3, <1>11, <2>2 DEF Ran, F
  <2>3. CASE todo'[c] # <<>> /\ \A x \in which : ~Has(todo'[c], x)
    <3>1. todo'[c] = Tail(s) /\ \A x \in which : ~Has(Tail(s), x)
      BY <1>2, <2>3
    <3> QED
      BY <1>2, <1>3, <3>1 DEF Ran, s
  <2> QED
    BY <2>1, <2>2, <2>3
<1>15. LastOf(todo'[c], F)
  <2>1. todo'[c] # <<>> => Has(todo'[c], "get")
    <3>1. Has(s, "get")
      BY <1>1, <1>2 DEF LastOf
    <3>2. h # "get" => Has(Tail(s), "get")
      BY <1>3, <3>1
    <3> QED
      BY <1>2, <1>8, <3>2
  <2>2. ASSUME NEW x \in Cmdlets, Has(todo'[c], x) PROVE Has(F, x) /\ Rank[x] <= Rank["get"]
    BY <1>1, <1>3, <1>7, <2>2 DEF LastOf
  <2>3. ASSUME NEW x \in Cmdlets, NEW y \in Cmdlets, Has(todo'[c], y), Rank[y] < Rank[x], Has(F, x)
        PROVE  Has(todo'[c], x)
    <3>1. Has(Tail(s), y) /\ todo'[c] = Tail(s) /\ Has(s, y) /\ Rank[h] < Rank[y]
      BY <1>3, <1>7, <2>3
    <3>2. Has(s, x)
      BY <1>1, <2>3, <3>1 DEF LastOf
    <3>3. x # h
      BY <1>3, <2>3, <3>1, Ranks
    <3> QED
      BY <1>3, <3>1, <3>2, <3>3
  <2> QED
    BY <2>1, <2>2, <2>3 DEF LastOf
<1>16. /\ ou' \in OU
       /\ Ran(c, {"rename"})' => ou'.name = spec.name
       /\ Ran(c, {"move"})' => ou'.container = spec.container
       /\ Ran(c, {"set"})' => spec.description \in {None, ou'.description}
  <2> USE DEF OU
  <2>1. Ran(c, {"rename"})' =>
          (h = "rename" /\ todo'[c] # <<>>) \/ (h # "rename" /\ ou.name = spec.name)
    <3>1. SUFFICES ASSUME Ran(c, {"rename"})'
                   PROVE  (h = "rename" /\ todo'[c] # <<>>) \/ (h # "rename" /\ ou.name = spec.name)
      OBVIOUS
    <3>2. CASE h = "rename"
      BY <1>10, <1>14, <3>1, <3>2
    <3>3. CASE h # "rename"
      <4>1. Ran(c, {"rename"})
        BY <1>14, <3>1, <3>3
      <4> QED
        BY <3>3, <4>1 DEF Progress
    <3> QED
      BY <3>2, <3>3
  <2>2. Ran(c, {"move"})' =>
          (h = "move" /\ todo'[c] # <<>>) \/ (h # "move" /\ ou.container = spec.container)
    <3>1. SUFFICES ASSUME Ran(c, {"move"})'
                   PROVE  (h = "move" /\ todo'[c] # <<>>) \/ (h # "move" /\ ou.container = spec.container)
      OBVIOUS
    <3>2. CASE h = "move"
      BY <1>10, <1>14, <3>1, <3>2
    <3>3. CASE h # "move"
      <4>1. Ran(c, {"move"})
        BY <1>14, <3>1, <3>3
      <4> QED
        BY <3>3, <4>1 DEF Progress
    <3> QED
      BY <3>2, <3>3
  <2>3. Ran(c, {"set"})' => \/ (h = "set" /\ todo'[c] # <<>>)
                          \/ (h # "set" /\ spec.description \in {None, ou.description})
    <3>1. SUFFICES ASSUME Ran(c, {"set"})'
                   PROVE  \/ (h = "set" /\ todo'[c] # <<>>)
                          \/ (h # "set" /\ spec.description \in {None, ou.description})
      OBVIOUS
    <3>2. CASE h = "set"
      BY <1>10, <1>14, <3>1, <3>2
    <3>3. CASE h # "set"
      <4>1. Ran(c, {"set"})
        BY <1>14, <3>1, <3>3
      <4> QED
        BY <3>3, <4>1 DEF Progress
    <3> QED
      BY <3>2, <3>3
  <2>4. FinalProtected(spec, read) \in BOOLEAN
    BY <1>12 DEF FinalProtected, OUSpec
  <2>5. h = "set" => spec.description \in Descriptions
    BY <1>2, <1>3, <1>11, <1>12, <1>13 DEF OUSpec
  <2>6. spec.name \in Names /\ spec.container \in Containers
    BY <1>12 DEF OUSpec
  <2>0. \/ h = "set" /\ ou' = [ou EXCEPT !.description = spec.description]
        \/ h = "rename" /\ ou' = [ou EXCEPT !.name = spec.name]
        \/ h = "unprotect" /\ ou' = [ou EXCEPT !.protected = FALSE]
        \/ h = "move" /\ ou' = [ou EXCEPT !.container = spec.container]
        \/ h = "protect" /\ ou' = [ou EXCEPT !.protected = FinalProtected(spec, read)]
        \/ h = "move" /\ ou' = ou /\ ou.container = spec.container
        \/ ou' = ou /\ (h = "get" \/ todo'[c] = <<>>)
    BY <1>2
  <2> HIDE DEF spec, read
  <2>7. CASE h = "set" /\ ou' = [ou EXCEPT !.description = spec.description]
    BY <1>12, <2>1, <2>2, <2>5, <2>7
  <2>8. CASE h = "rename" /\ ou' = [ou EXCEPT !.name = spec.name]
    BY <1>12, <2>2, <2>3, <2>6, <2>8
  <2>9. CASE h = "unprotect" /\ ou' = [ou EXCEPT !.protected = FALSE]
    BY <1>12, <2>1, <2>2, <2>3, <2>9
  <2>10. CASE h = "move" /\ ou' = [ou EXCEPT !.container = spec.container]
    BY <1>12, <2>1, <2>3, <2>6, <2>10
  <2>11. CASE h = "protect" /\ ou' = [ou EXCEPT !.protected = FinalProtected(spec, read)]
    BY <1>12, <2>1, <2>2, <2>3, <2>4, <2>11
  <2>12. CASE h = "move" /\ ou' = ou /\ ou.container = spec.container
    BY <1>12, <2>1, <2>2, <2>3, <2>12
  <2>13. CASE ou' = ou /\ (h = "get" \/ todo'[c] = <<>>)
    BY <1>12, <2>1, <2>2, <2>3, <2>13
  <2> QED
    BY <2>0, <2>7, <2>8, <2>9, <2>10, <2>11, <2>12, <2>13
<1>17. Ran(c, {"protect", "unprotect"})' => ou'.protected = FinalProtected(spec, read)
  <2>1. SUFFICES ASSUME Ran(c, {"protect", "unprotect"})'
                 PROVE  ou'.protected = FinalProtected(spec, read)
    OBVIOUS
  <2>2. h \notin {"protect", "unprotect"} =>
          ou.protected = FinalProtected(spec, read) /\ ou'.protected = ou.protected
    <3>1. SUFFICES ASSUME h \notin {"protect", "unprotect"}
                   PROVE  ou.protected = FinalProtected(spec, read) /\ ou'.protected = ou.protected
      OBVIOUS
    <3>2. ou.protected = FinalProtected(spec, read)
      BY <1>14, <2>1, <3>1 DEF Progress
    <3> HIDE DEF spec, read
    <3> QED
      BY <1>2, <1>12, <3>1, <3>2 DEF OU
  <2>3. h \in {"protect", "unprotect"} => todo'[c] = Tail(s) /\ todo'[c] # <<>>
    BY <1>10, <1>14, <2>1
  <2>4. CASE h = "protect"
    BY <1>2, <1>12, <2>3, <2>4 DEF OU
  <2>5. CASE h = "unprotect"
    <3>1. ou'.protected = FALSE
      BY <1>2, <1>12, <2>3, <2>5 DEF OU
    <3>2. ~Has(s, "protect")
      BY <1>14, <2>1, <2>5
    <3>3. ~Has(F, "protect")
      <4>1. Rank["unprotect"] < Rank["protect"] /\ "protect" \in Cmdlets /\ "unprotect" \in Cmdlets
        BY Ranks DEF Cmdlets
      <4> QED
        BY <1>1, <1>2, <2>5, <3>2, <4>1 DEF LastOf
    <3>4. Has(F, "unprotect")
      BY <1>2, <1>3, <1>11, <2>5
    <3>5. FinalProtected(spec, read) = ProtectedAfterMove(spec, read) /\ Moves(spec, read)
      <4>1. F = Append(UpdateScript(spec, read), "get")
        BY <1>1 DEF Script, F
      <4> HIDE DEF spec, read
      <4> QED
        BY <3>3, <3>4, <4>1, UpdateScriptFacts
    <3>6. ProtectedAfterMove(spec, read) = FALSE
      BY <1>12, <3>5 DEF ProtectedAfterMove, OU
    <3> QED
      BY <3>1, <3>5, <3>6
  <2> QED
    BY <2>2, <2>4, <2>5
<1>18. ASSUME attempt[c] = 1
       PROVE  /\ answer'[c] # "protected"
              /\ Has(todo'[c], "move") /\ ~Has(todo'[c], "unprotect") => ~ou'.protected
  <2>1. Has(s, "move") /\ ~Has(s, "unprotect") => ~ou.protected
    BY <1>18 DEF Progress, s
  <2>2. Rank["unprotect"] < Rank["move"] /\ Rank["move"] < Rank["protect"] /\ Rank["protect"] < Rank["get"]
    BY Ranks
  <2>3. answer'[c] # "protected"
    <3>1. SUFFICES ASSUME answer'[c] = "protected" PROVE FALSE
      OBVIOUS
    <3>2. h = "move" /\ ou.protected
      BY <1>2, <3>1
    <3>3. ~Has(s, "unprotect")
      <4>1. ~Has(Tail(s), "unprotect")
        BY <1>3, <2>2, <3>2, Ranks
      <4> QED
        BY <1>3, <3>2, <4>1
    <3> QED
      BY <1>2, <2>1, <3>2, <3>3
  <2>4. ASSUME Has(todo'[c], "move"), ~Has(todo'[c], "unprotect") PROVE ~ou'.protected
    <3>1. todo'[c] = Tail(s) /\ Has(Tail(s), "move") /\ Has(s, "move") /\ Rank[h] < Rank["move"]
      BY <1>3, <1>7, <2>4
    <3>2. h \notin {"move", "protect", "get"} /\ todo'[c] # <<>>
      <4>1. Rank["move"] = 4 /\ Rank["protect"] = 5 /\ Rank["get"] = 6
        BY Ranks
      <4>2. h # "move" /\ h # "protect" /\ h # "get"
        BY <3>1, <4>1
      <4>3. Tail(s) # <<>>
        BY <1>10, <4>2
      <4> QED
        BY <3>1, <4>2, <4>3
    <3>3. CASE h = "unprotect"
      BY <1>2, <1>12, <3>2, <3>3 DEF OU
    <3>4. CASE h # "unprotect"
      <4>1. ~ou.protected
        BY <1>3, <2>1, <2>4, <3>1, <3>4
      <4>2. ou'.protected = ou.protected
        BY <1>2, <1>12, <3>2, <3>4 DEF OU
      <4> QED
        BY <4>1, <4>2
    <3> QED
      BY <3>3, <3>4
  <2> QED
    BY <2>3, <2>4
<1>19. ASSUME answer'[c] = "ok" PROVE model'[c] = ou' /\ Meets(ou', spec, read)
  <2>1. h = "get" /\ Tail(s) = <<>>
    BY <1>2, <1>8, <1>9, <1>19
  <2>2. ou' = ou /\ model'[c] = ou
    <3>1. h \notin {"set", "rename", "unprotect", "move", "protect"} /\ todo'[c] = <<>>
      BY <1>2, <2>1
    <3>2. (model'[c] = ou /\ ou' = ou) \/ answer'[c] # "ok"
      BY <1>2, <3>1
    <3> QED
      BY <1>19, <3>2
  <2>3. \A x \in {"set", "rename", "unprotect", "move", "protect"} : ~Has(s, x)
    BY <1>3, <1>5, <2>1
  <2>4. Ran(c, {"rename"}) /\ Ran(c, {"move"}) /\ Ran(c, {"set"}) /\ Ran(c, {"protect", "unprotect"})
    BY <1>2, <2>3 DEF Ran, s
  <2> QED
    BY <2>2, <2>4 DEF Progress, Meets
<1> QED
  BY <1>4, <1>6, <1>15, <1>16, <1>17, <1>18, <1>19 DEF Progress, F
-----------------------------------------------------------------------------
(* While no script has been left by its caller, only a call inside its exec runs cmdlets. *)
LEMMA ScriptRuns ==
  ASSUME IInv, Serial, NEW c \in Calls, ScriptStep(c)
  PROVE  pc[c] = "script"
<1>1. todo[c] # <<>>
  BY DEF ScriptStep, WriteCmdlet, RefusedCmdlet, ReadCmdlet, CmdletFails, Runs
<1> QED
  BY <1>1 DEF IInv, Fresh, LockInv, CallsTyped, Serial, Finished

(* A script left by its caller stays left. *)
LEMMA StillLeft ==
  ASSUME IInv, DataTyped, NEW c \in Calls, NobodyLeft',
         Start(c) \/ Lock(c) \/ Update(c) \/ ScriptStep(c)
  PROVE  NobodyLeft
<1> SUFFICES ASSUME NEW d \in Calls, result[d] = "transport" PROVE current[d] = None
  BY DEF NobodyLeft
<1>1. pc[d] = "done"
  BY DEF IInv, Fresh
<1>2. CASE d # c
  BY <1>2, OthersStay DEF NobodyLeft
<1>3. CASE d = c
  <2>1. ScriptStep(c)
    BY <1>1, <1>3 DEF Start, Lock, Update, Get, GetFails, ExecEnds, Abandon
  <2>2. UNCHANGED <<result, current>>
    BY <2>1 DEF ScriptStep, WriteCmdlet, RefusedCmdlet, ReadCmdlet, CmdletFails, callVars
  <2> QED
    BY <2>2 DEF NobodyLeft
<1> QED
  BY <1>2, <1>3

(* A new script has all its cmdlets before it. *)
LEMMA WholeScript ==
  ASSUME NEW j, NEW read, j.do = "update", NEW s, s = Script(j, read)
  PROVE  /\ Ordered(s) /\ LastOf(s, s)
         /\ Has(s, "set") <=> j.spec.description # None
         /\ Has(s, "rename") <=> j.spec.name # read.name
         /\ Has(s, "unprotect") <=> Moves(j.spec, read) /\ read.protected
         /\ Has(s, "move") <=> Moves(j.spec, read)
         /\ Has(s, "protect") <=> FinalProtected(j.spec, read) # ProtectedAfterMove(j.spec, read)
         /\ UpdateScript(j.spec, read) = <<>> =>
              \A x \in {"set", "rename", "unprotect", "move", "protect"} : ~Has(s, x)
<1>1. s = Append(UpdateScript(j.spec, read), "get")
  BY DEF Script
<1>2. PICK spec : spec = j.spec
  OBVIOUS
<1> QED
  BY <1>1, <1>2, UpdateScriptFacts DEF LastOf

(* Get leaves an Update with the whole of its script, or with an OU that meets the spec. *)
LEMMA GetProgress ==
  ASSUME IInv, DataTyped, Answered, Serial, NEW c \in Calls, Get(c)
  PROVE  /\ Finished(c)'
         /\ Updating(c)' => Progress(c)'
         /\ Succeeded(c, "update")' =>
              ou' = ou /\ ou \in OU /\ pc'[c] = "done" /\ Meets(ou, job'[c].spec, current'[c])
<1> USE DEF IInv, LockInv, CallsTyped, DataTyped, Fresh
<1> DEFINE spec == job[c].spec
           s == Script(job[c], ou)
<1>1. /\ ou \in OU /\ current'[c] = ou /\ UNCHANGED <<ou, job, answer, attempt>>
      /\ answer[c] = "none" /\ todo[c] = <<>> /\ result[c] = "pending"
  BY DEF Get, Resolves
<1>2. ou.protected \in BOOLEAN
  BY <1>1 DEF OU
<1>3. ASSUME job[c].do = "update"
      PROVE  /\ Ordered(s) /\ LastOf(s, s)
             /\ Has(s, "set") <=> spec.description # None
             /\ Has(s, "rename") <=> spec.name # ou.name
             /\ Has(s, "unprotect") <=> Moves(spec, ou) /\ ou.protected
             /\ Has(s, "move") <=> Moves(spec, ou)
             /\ Has(s, "protect") <=> FinalProtected(spec, ou) # ProtectedAfterMove(spec, ou)
             /\ UpdateScript(spec, ou) = <<>> =>
                  \A x \in {"set", "rename", "unprotect", "move", "protect"} : ~Has(s, x)
  BY <1>3, WholeScript
<1>4. ASSUME job[c].do = "update", ~Has(s, "protect"), ~Has(s, "unprotect")
      PROVE  ou.protected = FinalProtected(spec, ou)
  <2>1. FinalProtected(spec, ou) = ProtectedAfterMove(spec, ou) /\ ~(Moves(spec, ou) /\ ou.protected)
    BY <1>3, <1>4
  <2> QED
    BY <1>2, <2>1 DEF ProtectedAfterMove
<1>5. CASE job[c].do = "update" /\ UpdateScript(spec, ou) = <<>>
  <2>1. pc'[c] = "done" /\ model'[c] = ou /\ todo' = todo
    BY <1>5 DEF Get, Return
  <2>2. Meets(ou, spec, ou)
    BY <1>3, <1>4, <1>5 DEF Meets, Moves
  <2>3. ~Updating(c)'
    BY <2>1 DEF Updating
  <2> QED
    BY <1>1, <2>1, <2>2, <2>3 DEF Finished
<1>6. CASE ~(job[c].do = "update" /\ UpdateScript(spec, ou) = <<>>)
  <2>1. pc'[c] = "script" /\ todo'[c] = s /\ result' = result
    BY <1>6 DEF Get
  <2>2. ~Succeeded(c, "update")'
    BY <1>1, <2>1 DEF Succeeded
  <2>3. Finished(c)'
    BY <2>1 DEF Finished
  <2>4. ASSUME job[c].do = "update" PROVE Progress(c)'
    <3>1. Script(job'[c], current'[c]) = s
      BY <1>1
    <3>2. \A which : Ran(c, which)' => \A x \in which : ~Has(s, x)
      BY <2>1, <3>1 DEF Ran
    <3>3. Ran(c, {"rename"})' => ou.name = spec.name
      BY <1>3, <2>4, <3>2
    <3>4. Ran(c, {"move"})' => ou.container = spec.container
      BY <1>3, <2>4, <3>2 DEF Moves
    <3>5. Ran(c, {"set"})' => spec.description \in {None, ou.description}
      BY <1>3, <2>4, <3>2
    <3>6. Ran(c, {"protect", "unprotect"})' => ou.protected = FinalProtected(spec, ou)
      BY <1>4, <2>4, <3>2
    <3>7. Has(s, "move") /\ ~Has(s, "unprotect") => ~ou.protected
      BY <1>3, <2>4
    <3>8. Ordered(s) /\ LastOf(s, s)
      BY <1>3, <2>4
    <3>9. answer'[c] = "none" /\ ou' = ou /\ job' = job
      BY <1>1
    <3> HIDE DEF s
    <3> QED
      BY <1>1, <2>1, <3>1, <3>3, <3>4, <3>5, <3>6, <3>7, <3>8, <3>9 DEF Progress
  <2> QED
    BY <1>1, <2>2, <2>3, <2>4 DEF Updating
<1> QED
  BY <1>5, <1>6

(* The end of an exec: the same payload from its start, or the return. *)
LEMMA ExecProgress ==
  ASSUME IInv, DataTyped, Answered, Serial, NEW c \in Calls, ExecEnds(c)
  PROVE  /\ Finished(c)'
         /\ Updating(c)' => Progress(c)'
         /\ Succeeded(c, "update")' =>
              ou' = ou /\ ou \in OU /\ pc'[c] = "done" /\ Meets(ou, job'[c].spec, current'[c])
<1> USE DEF IInv, LockInv, CallsTyped, DataTyped, Fresh
<1> DEFINE s == Script(job[c], current[c])
<1>1. /\ pc[c] = "script" /\ answer[c] # "none" /\ UNCHANGED <<ou, job, model, current>>
      /\ result[c] = "pending" /\ todo[c] = <<>>
  BY DEF ExecEnds, Answered
<1>2. job[c].do = "update" => Progress(c)
  BY <1>1 DEF Serial, Updating
<1>3. CASE answer[c] = "down" /\ attempt[c] < MaxAttempts
  <2>1. /\ attempt'[c] = attempt[c] + 1 /\ todo'[c] = s /\ answer'[c] = "none"
        /\ UNCHANGED <<pc, result>>
    BY <1>3 DEF ExecEnds
  <2>2. attempt'[c] # 1
    <3>1. attempt[c] \in 1..MaxAttempts
      OBVIOUS
    <3> QED
      BY <2>1, <3>1, MaxAttemptsAssumption
  <2>3. ~Succeeded(c, "update")' /\ Finished(c)'
    BY <1>1, <2>1 DEF Succeeded, Finished
  <2>4. ASSUME job[c].do = "update" PROVE Progress(c)'
    <3>1. Script(job'[c], current'[c]) = s
      BY <1>1
    <3>2. \A which : Ran(c, which)' => Ran(c, which)
      BY <2>1, <3>1 DEF Ran
    <3>3. Ordered(s) /\ LastOf(s, s)
      BY <2>4, WholeScript
    <3>4. /\ ou' = ou /\ job' = job /\ current' = current
          /\ ou \in OU
          /\ Ran(c, {"rename"}) => ou.name = job[c].spec.name
          /\ Ran(c, {"move"}) => ou.container = job[c].spec.container
          /\ Ran(c, {"set"}) => job[c].spec.description \in {None, ou.description}
          /\ Ran(c, {"protect", "unprotect"}) => ou.protected = FinalProtected(job[c].spec, current[c])
      BY <1>1, <1>2, <2>4 DEF Progress
    <3> HIDE DEF s
    <3> QED
      BY <2>1, <2>2, <3>1, <3>2, <3>3, <3>4 DEF Progress
  <2> QED
    BY <1>1, <2>3, <2>4 DEF Updating
<1>4. CASE ~(answer[c] = "down" /\ attempt[c] < MaxAttempts)
  <2>1. pc'[c] = "done" /\ result'[c] = answer[c] /\ UNCHANGED <<attempt, todo, answer>>
    BY <1>4 DEF ExecEnds, Return
  <2>2. job[c].do = "update" /\ attempt[c] = 1 => answer[c] # "protected"
    BY <1>2 DEF Progress
  <2>3. job[c].do = "update" /\ answer[c] = "ok" =>
          ou \in OU /\ model[c] = ou /\ Meets(ou, job[c].spec, current[c])
    BY <1>2 DEF Progress
  <2>4. Succeeded(c, "update")' => job[c].do = "update" /\ answer[c] = "ok"
    BY <1>1, <2>1 DEF Succeeded
  <2>5. /\ Meets(model[c], job[c].spec, current[c])' <=> Meets(model[c], job[c].spec, current[c])
        /\ Meets(ou, job'[c].spec, current'[c]) <=> Meets(ou, job[c].spec, current[c])
    BY <1>1
  <2>6. ~Updating(c)'
    BY <2>1 DEF Updating
  <2> QED
    BY <1>1, <2>1, <2>2, <2>3, <2>4, <2>5, <2>6 DEF Finished
<1> QED
  BY <1>3, <1>4

(* What the steps of the caller do to its own call. *)
LEMMA CallerProgress ==
  ASSUME IInv, DataTyped, Answered, Serial, NEW c \in Calls, NobodyLeft',
         Start(c) \/ Lock(c) \/ Update(c)
  PROVE  /\ Finished(c)'
         /\ Updating(c)' => Progress(c)'
         /\ Succeeded(c, "update")' =>
              ou' = ou /\ ou \in OU /\ pc'[c] = "done" /\ Meets(ou, job'[c].spec, current'[c])
<1> USE DEF IInv, LockInv, CallsTyped, DataTyped, Fresh
<1>1. CASE Start(c) \/ Lock(c)
  BY <1>1 DEF Start, Lock, Finished, Updating, Succeeded
<1>2. CASE GetFails(c)
  <2>1. /\ pc'[c] = "done" /\ result'[c] # "ok" /\ answer[c] = "none" /\ todo[c] = <<>>
        /\ UNCHANGED <<todo, answer>>
    BY <1>2 DEF GetFails, Return, scriptVars
  <2> QED
    BY <2>1 DEF Finished, Updating, Succeeded
<1>3. CASE Abandon(c)
  <2>1. result'[c] = "transport" /\ current'[c] # None
    BY <1>3 DEF Abandon, Return, Answered
  <2> QED
    BY <2>1 DEF NobodyLeft
<1> QED
  BY <1>1, <1>2, <1>3, GetProgress, ExecProgress DEF Update

(* Whoever has succeeded takes no further step, and was the sole setter of its field before. *)
LEMMA SetterBefore ==
  ASSUME IInv, DataTyped, Serial, NEW c \in Calls, NEW e \in Calls, NEW field,
         Start(c) \/ Lock(c) \/ Update(c) \/ ScriptStep(c),
         Succeeded(e, "update"), SoleSetter(e, field)'
  PROVE  e # c /\ SoleSetter(e, field)
<1>1. pc[e] = "done" /\ pc[c] # "done"
  <2>1. pc[e] = "done"
    BY DEF IInv, Fresh, Succeeded
  <2>2. pc[c] # "done"
    BY ScriptRuns DEF Start, Lock, Update, Get, GetFails, ExecEnds, Abandon
  <2> QED
    BY <2>1, <2>2
<1>2. pc[c] # "start" => job'[c] = job[c] /\ pc'[c] # "start"
  <2>1. SUFFICES ASSUME pc[c] # "start" PROVE job'[c] = job[c] /\ pc'[c] # "start"
    OBVIOUS
  <2>2. CASE ScriptStep(c)
    BY <2>1, <2>2 DEF ScriptStep, WriteCmdlet, RefusedCmdlet, ReadCmdlet, CmdletFails, callVars
  <2>3. CASE Lock(c) \/ Update(c)
    BY <2>1, <2>3 DEF Lock, Update, Get, GetFails, ExecEnds, Abandon, Return, IInv, LockInv, CallsTyped
  <2> QED
    BY <2>1, <2>2, <2>3 DEF Start
<1>3. /\ job'[e] = job[e]
      /\ \A d \in Calls \ {c} : job'[d] = job[d] /\ pc'[d] = pc[d] /\ result'[d] = result[d]
  BY <1>1, OthersStay
<1> QED
  BY <1>1, <1>2, <1>3 DEF SoleSetter

(* The OU changes only under a call inside its exec; while that is an      *)
(* Update, only "set" writes the description.                              *)
LEMMA WhoWrites ==
  ASSUME IInv, DataTyped, Answered, Serial, NEW c \in Calls, ScriptStep(c), job[c].do = "update"
  PROVE  /\ Progress(c)' /\ ou' \in OU
         /\ job[c].spec.description = None => ou'.description = ou.description
<1>1. pc[c] = "script" /\ Updating(c) /\ Progress(c)
  BY ScriptRuns DEF Serial, Updating
<1>2. Progress(c)'
  BY <1>1, ScriptProgress
<1>3. Ordered(todo[c]) /\ LastOf(todo[c], Script(job[c], current[c])) /\ ou \in OU
  BY <1>1 DEF Progress
<1>4. ASSUME job[c].spec.description = None PROVE ou'.description = ou.description
  <2>1. /\ Has(todo[c], Head(todo[c])) /\ todo[c] # <<>>
        /\ \/ Head(todo[c]) = "set"
           \/ ou' = ou
           \/ \E v : ou' = [ou EXCEPT !.name = v]
           \/ \E v : ou' = [ou EXCEPT !.protected = v]
           \/ \E v : ou' = [ou EXCEPT !.container = v]
    BY <1>3, UpdateCmdlet
  <2>2. Head(todo[c]) # "set"
    <3>1. ~Has(Script(job[c], current[c]), "set")
      BY <1>4, WholeScript
    <3>2. "set" \in Cmdlets
      BY DEF Cmdlets
    <3> QED
      BY <1>3, <2>1, <3>1, <3>2 DEF LastOf
  <2> QED
    BY <1>3, <2>1, <2>2 DEF OU
<1> QED
  BY <1>2, <1>4 DEF Progress

(* No other Update loses what a call has set as the only one. *)
LEMMA StepKept ==
  ASSUME Forms = {"guid"}, IInv, DataTyped, Answered, Serial, NEW c \in Calls, NEW e \in Calls,
         NobodyLeft', Start(c) \/ Lock(c) \/ Update(c) \/ ScriptStep(c)
  PROVE  Kept(e)'
<1> USE DEF IInv, LockInv, CallsTyped
<1>0. /\ \A d \in Calls \ {c} : /\ pc'[d] = pc[d] /\ job'[d] = job[d] /\ current'[d] = current[d]
                                /\ result'[d] = result[d]
      /\ Start(c) \/ Lock(c) \/ Update(c) => ou' = ou
  BY OthersStay DEF Start, Lock, Update, Get, GetFails, ExecEnds, Abandon
<1>1. ASSUME NEW field, SoleSetter(e, field)', Succeeded(e, "update")
      PROVE  /\ e # c /\ SoleSetter(e, field) /\ job'[e] = job[e]
             /\ pc[c] # "start" => /\ job[c].do = "update" /\ job[c].spec[field] = None
                                   /\ pc'[c] = "done" => result'[c] = "ok"
  <2>1. e # c /\ SoleSetter(e, field)
    BY <1>1, SetterBefore
  <2>2. pc'[c] = "done" => result'[c] = "ok"
    BY <1>1, <2>1 DEF SoleSetter
  <2> QED
    BY <1>0, <2>1, <2>2 DEF SoleSetter
<1>2. ASSUME NEW field, SoleSetter(e, field)', ~Succeeded(e, "update")
      PROVE  /\ e = c /\ ou' = ou /\ ou \in OU /\ pc[c] \in {"get", "script"} /\ pc'[c] = "done"
             /\ Meets(ou, job'[c].spec, current'[c])
  <2>1. Succeeded(e, "update")'
    BY <1>2 DEF SoleSetter
  <2>2. e = c
    BY <1>0, <1>2, <2>1 DEF Succeeded
  <2>3. ~ScriptStep(c)
    <3>1. ScriptStep(c) => UNCHANGED <<job, result>>
      BY DEF ScriptStep, WriteCmdlet, RefusedCmdlet, ReadCmdlet, CmdletFails, callVars
    <3> QED
      BY <1>2, <2>1, <2>2, <3>1 DEF Succeeded
  <2>4. ou' = ou /\ ou \in OU /\ pc'[c] = "done" /\ Meets(ou, job'[c].spec, current'[c])
    BY <2>1, <2>2, <2>3, CallerProgress
  <2>5. pc[c] \in {"get", "script"}
    BY <2>3, <2>4 DEF Start, Lock, Update, Get, GetFails, ExecEnds, Abandon
  <2> QED
    BY <2>2, <2>4, <2>5
<1>3. ASSUME SoleSetter(e, "description")'
      PROVE  ou' \in OU /\ ou'.description = job'[e].spec.description
  <2>1. CASE Succeeded(e, "update")
    <3>1. /\ e # c /\ SoleSetter(e, "description") /\ job'[e] = job[e]
          /\ pc[c] # "start" => job[c].do = "update" /\ job[c].spec.description = None
      BY <1>1, <1>3, <2>1
    <3>2. ou \in OU /\ ou.description = job[e].spec.description
      BY <3>1 DEF Serial, Kept
    <3>3. ScriptStep(c) => ou' \in OU /\ ou'.description = ou.description
      BY <3>1, WhoWrites, ScriptRuns
    <3> QED
      BY <1>0, <3>1, <3>2, <3>3
  <2>2. CASE ~Succeeded(e, "update")
    <3>1. e = c /\ ou' = ou /\ ou \in OU /\ Meets(ou, job'[c].spec, current'[c])
      BY <1>2, <1>3, <2>2
    <3>2. job'[e].spec.description # None
      BY <1>3 DEF SoleSetter
    <3> QED
      BY <3>1, <3>2 DEF Meets
  <2> QED
    BY <2>1, <2>2
<1>4. ASSUME SoleSetter(e, "protected")'
      PROVE  /\ ou' \in OU
             /\ \A d \in Calls : pc'[d] = "script" => current'[d].protected = job'[e].spec.protected
             /\ (\A d \in Calls : pc'[d] # "script") => ou'.protected = job'[e].spec.protected
  <2>1. CASE Succeeded(e, "update")
    <3>1. /\ e # c /\ SoleSetter(e, "protected") /\ job'[e] = job[e]
          /\ pc[c] # "start" => /\ job[c].do = "update" /\ job[c].spec.protected = None
                                /\ pc'[c] = "done" => result'[c] = "ok"
      BY <1>1, <1>4, <2>1
    <3> DEFINE value == job[e].spec.protected
    <3>2. /\ ou \in OU
          /\ \A d \in Calls : pc[d] = "script" => current[d].protected = value
          /\ (\A d \in Calls : pc[d] # "script") => ou.protected = value
      BY <3>1 DEF Serial, Kept
    <3> HIDE DEF value
    <3>3. /\ ou' \in OU
          /\ pc'[c] = "script" => current'[c].protected = value
          /\ pc'[c] = pc[c] \/ (pc[c] = "start" /\ pc'[c] = "lock") \/ (pc[c] = "lock" /\ pc'[c] = "get")
               \/ pc'[c] = "script" \/ ou'.protected = value
      <4>1. CASE ScriptStep(c)
        <5>1. pc[c] = "script" /\ UNCHANGED <<pc, current>>
          BY <4>1, ScriptRuns DEF ScriptStep, WriteCmdlet, RefusedCmdlet, ReadCmdlet, CmdletFails, callVars
        <5>2. ou' \in OU
          BY <3>1, <4>1, <5>1, WhoWrites
        <5> QED
          BY <3>2, <5>1, <5>2
      <4>2. CASE Start(c) \/ Lock(c)
        BY <1>0, <3>2, <4>2 DEF Start, Lock
      <4>3. CASE Get(c) \/ GetFails(c)
        <5>1. pc[c] = "get" /\ ou' = ou
          BY <1>0, <4>3 DEF Get, GetFails, Update
        <5>2. \A d \in Calls : pc[d] # "script"
          BY <5>1, OneAtWork
        <5>3. ou.protected = value
          BY <3>2, <5>2
        <5>4. pc'[c] = "script" => current'[c] = ou
          BY <4>3, <5>1 DEF Get, GetFails, Return, DataTyped
        <5> QED
          BY <3>2, <5>1, <5>3, <5>4
      <4>4. CASE ExecEnds(c)
        <5>1. pc[c] = "script" /\ UNCHANGED <<ou, job, current>> /\ (pc' = pc \/ pc'[c] = "done")
          BY <4>4 DEF ExecEnds, Return
        <5>2. CASE pc' = pc
          BY <3>2, <5>1, <5>2
        <5>3. CASE pc'[c] = "done"
          <6>1. Succeeded(c, "update")'
            BY <3>1, <5>1, <5>3 DEF Succeeded
          <6>2. ou.protected = FinalProtected(job[c].spec, current[c])
            BY <4>4, <5>1, <6>1, CallerProgress DEF Meets, Update
          <6>3. ou.protected = value
            BY <3>1, <3>2, <5>1, <6>2 DEF FinalProtected
          <6> QED
            BY <3>2, <5>1, <5>3, <6>3
        <5> QED
          BY <5>1, <5>2, <5>3
      <4>5. CASE Abandon(c)
        <5>1. pc'[c] = "done" /\ result'[c] = "transport"
          BY <4>5 DEF Abandon, Return, DataTyped
        <5> QED
          BY <3>1, <4>5, <5>1 DEF Abandon
      <4> QED
        BY <4>1, <4>2, <4>3, <4>4, <4>5 DEF Update
    <3>4. \A d \in Calls : pc'[d] = "script" => current'[d].protected = value
      BY <1>0, <3>2, <3>3
    <3>5. ASSUME \A d \in Calls : pc'[d] # "script" PROVE ou'.protected = value
      <4>1. \A d \in Calls \ {c} : pc[d] # "script"
        BY <1>0, <3>5
      <4>2. CASE pc[c] = "script"
        BY <3>3, <3>5, <4>2
      <4>3. CASE pc[c] # "script"
        <5>1. ou' = ou
          BY <1>0, <4>3, ScriptRuns
        <5> QED
          BY <3>2, <4>1, <4>3, <5>1
      <4> QED
        BY <4>2, <4>3
    <3> QED
      BY <3>1, <3>3, <3>4, <3>5 DEF value
  <2>2. CASE ~Succeeded(e, "update")
    <3>1. /\ e = c /\ ou' = ou /\ ou \in OU /\ Meets(ou, job'[c].spec, current'[c])
          /\ pc[c] \in {"get", "script"} /\ pc'[c] = "done"
      BY <1>2, <1>4, <2>2
    <3>2. \A d \in Calls : pc'[d] # "script"
      BY <1>0, <3>1, OneAtWork
    <3>3. job'[e].spec.protected # None
      BY <1>4 DEF SoleSetter
    <3> QED
      BY <3>1, <3>2, <3>3 DEF Meets, FinalProtected
  <2> QED
    BY <2>1, <2>2
<1> QED
  BY <1>3, <1>4 DEF Kept

(* What one step of a call does to the calls and to what they have set. *)
LEMMA StepSerial ==
  ASSUME Forms = {"guid"}, IInv, DataTyped, Answered, Serial, NEW c \in Calls, NobodyLeft',
         Start(c) \/ Lock(c) \/ Update(c) \/ ScriptStep(c)
  PROVE  Serial'
<1>1. \A e \in Calls : Kept(e)'
  BY StepKept
<1>2. Finished(c)' /\ (Updating(c)' => Progress(c)')
  <2>1. CASE ScriptStep(c)
    <3>1. pc[c] = "script" /\ UNCHANGED <<pc, job>>
      BY <2>1, ScriptRuns DEF ScriptStep, WriteCmdlet, RefusedCmdlet, ReadCmdlet, CmdletFails, callVars
    <3> QED
      BY <2>1, <3>1, WhoWrites DEF Finished, Updating
  <2>2. CASE ~ScriptStep(c)
    BY <2>2, CallerProgress
  <2> QED
    BY <2>1, <2>2
<1>3. ASSUME NEW d \in Calls \ {c} PROVE Finished(d)' /\ (Updating(d)' => Progress(d)')
  <2>1. /\ pc'[d] = pc[d] /\ job'[d] = job[d] /\ attempt'[d] = attempt[d] /\ current'[d] = current[d]
        /\ todo'[d] = todo[d] /\ answer'[d] = answer[d] /\ model'[d] = model[d] /\ result'[d] = result[d]
    BY OthersStay
  <2>2. Finished(d)
    BY DEF Serial, Finished
  <2>3. Finished(d)'
    BY <2>1, <2>2 DEF Finished, Meets, Succeeded
  <2>4. ASSUME Updating(d)' PROVE Progress(d)'
    <3>1. Updating(d) /\ pc[d] = "script"
      BY <2>1, <2>4 DEF Updating
    <3>2. ~ScriptStep(c)
      BY <3>1, OneAtWork, ScriptRuns DEF IInv
    <3>3. ou' = ou
      BY <3>2 DEF Start, Lock, Update, Get, GetFails, ExecEnds, Abandon
    <3>4. \A which : Ran(d, which)' <=> Ran(d, which)
      BY <2>1 DEF Ran
    <3>5. Progress(d)
      BY <3>1 DEF Serial
    <3> QED
      BY <2>1, <3>3, <3>4, <3>5 DEF Progress
  <2> QED
    BY <2>3, <2>4
<1> QED
  BY <1>1, <1>2, <1>3 DEF Serial, Finished

(* No call has begun. *)
LEMMA InitSerial == Init => SerialInv
<1> SUFFICES ASSUME Init PROVE SerialInv
  OBVIOUS
<1>1. \A c \in Calls : pc[c] = "start" /\ todo[c] = <<>> /\ answer[c] = "none" /\ result[c] = "pending"
  BY DEF Init
<1> QED
  BY <1>1 DEF SerialInv, Answered, Serial, Finished, Updating, Kept, SoleSetter, Succeeded

(* SerialInv is inductive when every caller names the OU by its GUID. *)
LEMMA SerialInvariance ==
  ASSUME Forms = {"guid"}
  PROVE  Spec => [](IInv /\ DataTyped /\ SerialInv)
<1>1. IInv /\ DataTyped /\ SerialInv /\ [Next]_vars => (DataTyped /\ SerialInv)'
  <2> SUFFICES ASSUME IInv, DataTyped, SerialInv, [Next]_vars PROVE DataTyped' /\ SerialInv'
    OBVIOUS
  <2>1. CASE UNCHANGED vars
    <3> USE DEF vars, scriptVars, callVars
    <3>1. DataTyped'
      BY <2>1 DEF DataTyped
    <3>2. Answered' /\ (NobodyLeft' => NobodyLeft)
      BY <2>1 DEF SerialInv, Answered, NobodyLeft
    <3>3. ASSUME Serial PROVE Serial'
      <4>1. \A c \in Calls : Finished(c)' <=> Finished(c)
        BY <2>1 DEF Finished, Meets, Succeeded
      <4>2. \A c \in Calls : (Updating(c) => Progress(c)) => (Updating(c)' => Progress(c)')
        <5>1. \A c, which : Ran(c, which)' <=> Ran(c, which)
          BY <2>1 DEF Ran
        <5> QED
          BY <2>1, <5>1 DEF Updating, Progress
      <4>3. \A c \in Calls : Kept(c) => Kept(c)'
        <5>1. \A c, field : SoleSetter(c, field)' <=> SoleSetter(c, field)
          BY <2>1 DEF SoleSetter, Succeeded
        <5> QED
          BY <2>1, <5>1 DEF Kept
      <4> QED
        BY <3>3, <4>1, <4>2, <4>3 DEF Serial, Finished
    <3> QED
      BY <3>1, <3>2, <3>3 DEF SerialInv
  <2>2. CASE Next
    <3>1. PICK c \in Calls : Start(c) \/ Lock(c) \/ Update(c) \/ ScriptStep(c)
      BY <2>2 DEF Next
    <3>2. DataTyped'
      BY <3>1, CallData, ScriptData
    <3>3. Answered'
      BY <3>1, StepAnswered DEF SerialInv
    <3>4. NobodyLeft' => Serial'
      BY <3>1, StillLeft, StepSerial DEF SerialInv
    <3> QED
      BY <3>2, <3>3, <3>4 DEF SerialInv
  <2> QED
    BY <2>1, <2>2
<1> QED
  BY <1>1, InitSerial, InitData, Invariance, PTL DEF Spec
-----------------------------------------------------------------------------
(* When every caller names the OU by its GUID and none leaves its script   *)
(* behind, the OU an Update returns is the one it was asked for, in name,  *)
(* container, description and protection.                                  *)
THEOREM UpdatesAgree ==
  ASSUME Forms = {"guid"}
  PROVE  Spec => []UpdateAgrees
<1>1. IInv /\ SerialInv => UpdateAgrees
  <2> SUFFICES ASSUME IInv, SerialInv, NobodyLeft, NEW c \in Calls, Succeeded(c, "update")
               PROVE  /\ DN(model[c]) = DN(job[c].spec)
                      /\ job[c].spec.description \in {None, model[c].description}
                      /\ model[c].protected = IF job[c].spec.protected = None
                                                THEN current[c].protected ELSE job[c].spec.protected
    BY DEF UpdateAgrees
  <2>1. pc[c] = "done"
    BY DEF IInv, Fresh, Succeeded
  <2>2. Meets(model[c], job[c].spec, current[c])
    BY <2>1 DEF SerialInv, Serial, Finished
  <2> QED
    BY <2>2 DEF Meets, DN, FinalProtected
<1> QED
  BY <1>1, SerialInvariance, PTL

(* The order of the cmdlets never makes an Update deny itself, as long as  *)
(* callers name the OU by its GUID: on its first attempt no move is refused *)
(* because of the protection it found or is about to set.                  *)
THEOREM NeverDeniesItself ==
  ASSUME Forms = {"guid"}
  PROVE  Spec => []NeverSelfDenied
<1>1. IInv /\ SerialInv => NeverSelfDenied
  <2> SUFFICES ASSUME IInv, SerialInv, NobodyLeft, NEW c \in Calls,
                      pc[c] # "start", job[c].do = "update", attempt[c] = 1
               PROVE  answer[c] # "protected"
    BY DEF NeverSelfDenied
  <2>1. CASE pc[c] \in {"lock", "get"}
    BY <2>1 DEF IInv, Fresh
  <2>2. CASE pc[c] = "script"
    BY <2>2 DEF SerialInv, Serial, Updating, Progress
  <2>3. CASE pc[c] = "done"
    BY <2>3 DEF SerialInv, Serial, Finished
  <2> QED
    BY <2>1, <2>2, <2>3 DEF IInv, LockInv, CallsTyped
<1> QED
  BY <1>1, SerialInvariance, PTL

(* Updates by GUID are serialized from read to write: once all of them     *)
(* have returned and none has failed, a description or a protection that   *)
(* only one of them asked for is the one it asked for.                     *)
THEOREM NoUpdateIsLost ==
  ASSUME Forms = {"guid"}
  PROVE  Spec => []NoLostUpdate
<1>1. IInv /\ SerialInv => NoLostUpdate
  <2> SUFFICES ASSUME IInv, SerialInv, \A c \in Calls : Succeeded(c, "update"),
                      NEW c \in Calls, NEW field \in {"description", "protected"},
                      \A d \in Calls : (job[d].spec[field] # None) = (d = c)
               PROVE  ou[field] = job[c].spec[field]
    BY DEF NoLostUpdate
  <2>1. \A d \in Calls : result[d] = "ok" /\ job[d].do = "update" /\ pc[d] = "done"
    BY DEF IInv, Fresh, Succeeded
  <2>2. NobodyLeft
    BY <2>1 DEF NobodyLeft
  <2>3. Kept(c)
    BY <2>2 DEF SerialInv, Serial
  <2>4. SoleSetter(c, field)
    BY <2>1 DEF SoleSetter
  <2>5. CASE field = "description"
    BY <2>3, <2>4, <2>5 DEF Kept
  <2>6. CASE field = "protected"
    BY <2>1, <2>3, <2>4, <2>6 DEF Kept
  <2> QED
    BY <2>5, <2>6
<1> QED
  BY <1>1, SerialInvariance, PTL
=============================================================================
