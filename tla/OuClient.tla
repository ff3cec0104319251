------------------------------ MODULE OuClient ------------------------------
(***************************************************************************)
(* OUClient.Update and OUClient.Delete (ou.go) on one organizational unit: *)
(* the lock keyed by the text of the identity, the read, the payload made  *)
(* from it, and ou_update.ps1 / ou_delete.ps1 as the domain controller     *)
(* runs them, cmdlet by cmdlet.  core.exec sends the same payload again    *)
(* after an ADServerDownException; a caller whose transport gives up       *)
(* (KindTransport) leaves while the script may still be running.  The DC   *)
(* refuses to move or delete a protected OU (ou.go:165-168).  GroupClient, *)
(* UserClient, ComputerClient and ServiceAccountClient have the same shape *)
(* without the protection steps.                                           *)
(***************************************************************************)
EXTENDS Naturals, Sequences

CONSTANTS Calls,            \* the calls of Update and Delete
          Names, Containers, Descriptions,      \* the values of the OU's attributes
          Forms,            \* how callers name the OU: a subset of {"guid", "dn"}
          MaxAttempts,      \* RetryConfig.MaxAttempts
          None              \* a nil pointer in a spec; no OU; nobody

ASSUME FormsAssumption == Forms \subseteq {"guid", "dn"}
ASSUME MaxAttemptsAssumption == MaxAttempts \in Nat \ {0}
ASSUME NoneAssumption == None \notin Calls \cup Descriptions \cup BOOLEAN

VARIABLES
  ou,               \* the OU in the directory, None once deleted
  holder,           \* KeyedMutex: the call that holds each key, or None
  job,              \* what each call was asked to do
  pc, attempt,      \* where its goroutine is; core.exec's counter
  current,          \* the OU its Get returned
  todo, answer,     \* the cmdlets its script has yet to run; what the script answered
  model, result     \* what it returned: the OU, and "ok" or what went wrong

scriptVars == <<todo, answer, model>>
callVars == <<pc, attempt, current, result>>
vars == <<ou, holder, job, scriptVars, callVars>>

OU == [name : Names, container : Containers, description : Descriptions, protected : BOOLEAN]
OUSpec == [name : Names, container : Containers, description : Descriptions \cup {None},
           protected : BOOLEAN \cup {None}]
DN(o) == <<o.name, o.container>>

(* IdentityArg: the text of the identity, which is also the key of the lock. *)
GUID == <<"guid">>
Keys == {GUID} \cup (Names \X Containers)
Identities == {k \in Keys : IF k = GUID THEN "guid" \in Forms ELSE "dn" \in Forms}
Updates == [do : {"update"}, id : Identities, spec : OUSpec]
Deletes == [do : {"delete"}, id : Identities, unprotect : BOOLEAN]

Cmdlets == {"set", "rename", "unprotect", "move", "protect", "get", "children", "remove", "presence"}
Answers == {"none", "ok", "notFound", "denied", "protected", "down", "children", "present", "unverified"}

TypeOK ==
  /\ ou \in OU \cup {None}
  /\ holder \in [Keys -> Calls \cup {None}]
  /\ job \in [Calls -> Updates \cup Deletes \cup {None}]
  /\ pc \in [Calls -> {"start", "lock", "get", "script", "done"}]
  /\ attempt \in [Calls -> 1..MaxAttempts]
  /\ current \in [Calls -> OU \cup {None}]
  /\ \A c \in Calls : todo[c] \in Seq(Cmdlets)
  /\ answer \in [Calls -> Answers]
  /\ model \in [Calls -> OU \cup {None}]
  /\ result \in [Calls -> (Answers \ {"none"}) \cup {"pending", "transport"}]

Init ==
  /\ ou \in OU
  /\ holder = [k \in Keys |-> None]
  /\ job = [c \in Calls |-> None]
  /\ pc = [c \in Calls |-> "start"]
  /\ attempt = [c \in Calls |-> 1]
  /\ current = [c \in Calls |-> None]
  /\ todo = [c \in Calls |-> <<>>]
  /\ answer = [c \in Calls |-> "none"]
  /\ model = [c \in Calls |-> None]
  /\ result = [c \in Calls |-> "pending"]
-----------------------------------------------------------------------------
Resolves(id) == IF id = GUID THEN ou # None ELSE ou # None /\ DN(ou) = id

(* Update's decisions, from the OU it has just read. *)
Moves(spec, read) == spec.container # read.container
FinalProtectedNil(spec, read) == spec.protected                                     \* plausible bug
FinalProtectedFalse(spec, read) == IF spec.protected = None THEN FALSE ELSE spec.protected  \* plausible bug
FinalProtected(spec, read) == IF spec.protected = None THEN read.protected ELSE spec.protected
ProtectedAfterMove(spec, read) == read.protected /\ ~Moves(spec, read)

(* A cmdlet that the payload asks for under a condition. *)
When(condition, cmdlet) == IF condition THEN <<cmdlet>> ELSE <<>>

(* Plausible bug: the flag is never lifted for a move. *)
UpdateScriptProtected(spec, read) ==
  When(spec.description # None, "set") \o When(spec.name # read.name, "rename")
    \o When(Moves(spec, read), "move")
    \o When(FinalProtected(spec, read) # read.protected, "protect")

(* The payload of ou_update: the cmdlets that will write, in the script's order. *)
UpdateScript(spec, read) ==
  When(spec.description # None, "set") \o When(spec.name # read.name, "rename")
    \o When(Moves(spec, read) /\ read.protected, "unprotect") \o When(Moves(spec, read), "move")
    \o When(FinalProtected(spec, read) # ProtectedAfterMove(spec, read), "protect")

(* Plausible bug: the re-read after Remove-ADOrganizationalUnit is dropped. *)
DeleteScriptUnverified(unprotect) == <<"children">> \o When(unprotect, "unprotect") \o <<"remove">>
DeleteScript(unprotect) ==
  <<"children">> \o When(unprotect, "unprotect") \o <<"remove", "presence">>

Script(j, read) == IF j.do = "update" THEN Append(UpdateScript(j.spec, read), "get")
                                      ELSE DeleteScript(j.unprotect)

(* The identity the script is given: Delete passes on the GUID it has read. *)
ScriptId(j) == IF j.do = "update" THEN j.id ELSE GUID
-----------------------------------------------------------------------------
Start(c) ==
  /\ pc[c] = "start"
  /\ \E j \in Updates \cup Deletes : job' = [job EXCEPT ![c] = j]
  /\ pc' = [pc EXCEPT ![c] = "lock"]
  /\ UNCHANGED <<ou, holder, scriptVars, attempt, current, result>>

(* Plausible bug: the lock is not taken. *)
LockNothing(c) ==
  /\ pc[c] = "lock"
  /\ pc' = [pc EXCEPT ![c] = "get"]
  /\ UNCHANGED <<ou, holder, job, scriptVars, attempt, current, result>>

(* locks.Lock(IdentityArg(id)) *)
Lock(c) ==
  /\ pc[c] = "lock" /\ holder[job[c].id] = None
  /\ holder' = [holder EXCEPT ![job[c].id] = c]
  /\ pc' = [pc EXCEPT ![c] = "get"]
  /\ UNCHANGED <<ou, job, scriptVars, attempt, current, result>>

(* Any return: the deferred unlock runs. *)
Return(c, r) ==
  /\ result' = [result EXCEPT ![c] = r]
  /\ pc' = [pc EXCEPT ![c] = "done"]
  /\ holder' = [holder EXCEPT ![job[c].id] = None]

ReturnLocked(c, r) ==
  /\ result' = [result EXCEPT ![c] = r]
  /\ pc' = [pc EXCEPT ![c] = "done"]
  /\ UNCHANGED holder

(* Plausible bug: the unlock is not deferred, and the error return of Get forgets it. *)
GetFailsLocked(c) ==
  /\ pc[c] = "get"
  /\ \/ ~Resolves(job[c].id) /\ ReturnLocked(c, "notFound")
     \/ ReturnLocked(c, "transport")
  /\ UNCHANGED <<ou, job, scriptVars, attempt, current>>

(* Get fails: there is no such OU, or the exec of ou_read failed. *)
GetFails(c) ==
  /\ pc[c] = "get"
  /\ \/ ~Resolves(job[c].id) /\ Return(c, "notFound")
     \/ Return(c, "transport")
  /\ UNCHANGED <<ou, job, scriptVars, attempt, current>>

(* Get reads the OU and the payload is made from what it read; an Update   *)
(* with nothing to write returns what it read.                             *)
Get(c) ==
  /\ pc[c] = "get" /\ Resolves(job[c].id)
  /\ current' = [current EXCEPT ![c] = ou]
  /\ IF job[c].do = "update" /\ UpdateScript(job[c].spec, ou) = <<>>
       THEN /\ Return(c, "ok")
            /\ model' = [model EXCEPT ![c] = ou]
            /\ UNCHANGED todo
       ELSE /\ todo' = [todo EXCEPT ![c] = Script(job[c], ou)]
            /\ pc' = [pc EXCEPT ![c] = "script"]
            /\ UNCHANGED <<model, result, holder>>
  /\ UNCHANGED <<ou, job, answer, attempt>>

(* The exec of the script ends: a transient answer sends the same payload again. *)
ExecEnds(c) ==
  /\ pc[c] = "script" /\ answer[c] # "none"
  /\ IF answer[c] = "down" /\ attempt[c] < MaxAttempts
       THEN /\ attempt' = [attempt EXCEPT ![c] = @ + 1]
            /\ todo' = [todo EXCEPT ![c] = Script(job[c], current[c])]
            /\ answer' = [answer EXCEPT ![c] = "none"]
            /\ UNCHANGED <<holder, pc, result>>
       ELSE /\ Return(c, answer[c])
            /\ UNCHANGED <<attempt, todo, answer>>
  /\ UNCHANGED <<ou, job, model, current>>

(* The transport or the context ends the exec; the script goes on, or died with its shell. *)
Abandon(c) ==
  /\ pc[c] = "script"
  /\ Return(c, "transport")
  /\ \/ UNCHANGED todo
     \/ todo' = [todo EXCEPT ![c] = <<>>]
  /\ UNCHANGED <<ou, job, answer, model, attempt, current>>

Update(c) == Get(c) \/ GetFails(c) \/ ExecEnds(c) \/ Abandon(c)
-----------------------------------------------------------------------------
(* The cmdlet at hand does its work, and the script goes on or answers ok. *)
Proceed(c) == /\ todo' = [todo EXCEPT ![c] = Tail(@)]
              /\ answer' = [answer EXCEPT ![c] = IF Len(todo[c]) = 1 THEN "ok" ELSE @]

(* The cmdlet at hand throws: the catch block of the epilogue answers. *)
Throw(c, a) == /\ todo' = [todo EXCEPT ![c] = <<>>]
               /\ answer' = [answer EXCEPT ![c] = a]

Runs(c, cmdlet) == todo[c] # <<>> /\ Head(todo[c]) = cmdlet

Writes(c) ==
  LET spec == job[c].spec IN
  \/ Runs(c, "set") /\ ou' = [ou EXCEPT !.description = spec.description]
  \/ Runs(c, "rename") /\ ou' = [ou EXCEPT !.name = spec.name]
  \/ Runs(c, "unprotect") /\ ou' = [ou EXCEPT !.protected = FALSE]
  \/ Runs(c, "move") /\ ~ou.protected /\ ou' = [ou EXCEPT !.container = spec.container]
  \/ Runs(c, "protect") /\ ou' = [ou EXCEPT !.protected = FinalProtected(spec, current[c])]
  \/ Runs(c, "remove") /\ ~ou.protected /\ ou' = None

(* A writing cmdlet succeeds, or the DC is lost after it has written. *)
WriteCmdlet(c) ==
  /\ todo[c] # <<>> /\ Resolves(ScriptId(job[c]))
  /\ Writes(c)
  /\ Proceed(c) \/ Throw(c, "down")
  /\ UNCHANGED <<holder, job, model, callVars>>

(* A move or a delete of a protected OU is refused; a move to where the OU already is may be.  *)
(* Remove may also come back cleanly from a deletion that was refused (README, "Delete        *)
(* verification").                                                                             *)
RefusedCmdlet(c) ==
  /\ todo[c] # <<>> /\ Resolves(ScriptId(job[c]))
  /\ \/ (Runs(c, "move") \/ Runs(c, "remove")) /\ ou.protected /\ Throw(c, "protected")
     \/ Runs(c, "move") /\ ou.protected /\ ou.container = job[c].spec.container /\ Proceed(c)
     \/ Runs(c, "remove") /\ Proceed(c)
  /\ UNCHANGED <<ou, holder, job, model, callVars>>

ReadCmdlet(c) ==
  /\ \/ /\ Runs(c, "get") /\ Resolves(ScriptId(job[c]))
        /\ model' = [model EXCEPT ![c] = ou]
        /\ Proceed(c)
     \/ /\ Runs(c, "children") /\ ou # None /\ DN(ou) = DN(current[c])
        /\ Throw(c, "children") \/ Proceed(c)      \* others create and remove children all the time
        /\ UNCHANGED model
     \/ /\ Runs(c, "presence")
        /\ Throw(c, "unverified") \/ IF ou # None THEN Throw(c, "present") ELSE Proceed(c)
        /\ UNCHANGED model
  /\ UNCHANGED <<ou, holder, job, callVars>>

(* A cmdlet fails without an effect: no such object, access denied, the DC is down. *)
CmdletFails(c) ==
  /\ todo[c] # <<>> /\ ~Runs(c, "presence")
  /\ \/ ~Resolves(IF Runs(c, "children") THEN DN(current[c]) ELSE ScriptId(job[c])) /\ Throw(c, "notFound")
     \/ Throw(c, "denied")
     \/ Throw(c, "down")
  /\ UNCHANGED <<ou, holder, job, model, callVars>>

ScriptStep(c) == WriteCmdlet(c) \/ RefusedCmdlet(c) \/ ReadCmdlet(c) \/ CmdletFails(c)

Next == \E c \in Calls : Start(c) \/ Lock(c) \/ Update(c) \/ ScriptStep(c)

Spec == Init /\ [][Next]_vars
-----------------------------------------------------------------------------
NobodyLeft == \A c \in Calls : result[c] = "transport" => current[c] = None    \* no script without its caller
Succeeded(c, do) == result[c] = "ok" /\ job[c].do = do

(* The OU an Update returns is the one it was asked for: name, container   *)
(* and, where the spec says so, description and protection; a protection   *)
(* the spec leaves alone has survived the move that had to lift it.        *)
UpdateAgrees ==
  NobodyLeft => \A c \in Calls : Succeeded(c, "update") =>
    LET spec == job[c].spec IN
    /\ DN(model[c]) = DN(spec)
    /\ spec.description \in {None, model[c].description}
    /\ model[c].protected = IF spec.protected = None THEN current[c].protected ELSE spec.protected

(* Serialized writes: once every call has returned and none has failed, a  *)
(* field that only one call asked for has the value that call asked for.   *)
NoLostUpdate ==
  (\A c \in Calls : Succeeded(c, "update")) =>
    \A c \in Calls, field \in {"description", "protected"} :
      (\A d \in Calls : (job[d].spec[field] # None) = (d = c)) => ou[field] = job[c].spec[field]

(* The order of the cmdlets never makes an Update deny itself: on its      *)
(* first attempt no move is refused because of the protection it found or  *)
(* is about to set.                                                        *)
NeverSelfDenied ==
  NobodyLeft => \A c \in Calls :
    pc[c] # "start" /\ job[c].do = "update" /\ attempt[c] = 1 => answer[c] # "protected"

(* Delete returns nil only if the OU is gone.                              *)
DeleteVerified == \A c \in Calls : Succeeded(c, "delete") => ou = None

(* "in the order that keeps the DN valid" (ou.go): a single Update whose   *)
(* Get found the OU does not lose it half way.                             *)
OrderKeepsDNValid == \A c \in Calls : pc[c] = "done" /\ current[c] # None => result[c] # "notFound"

(* No path out of a call keeps its key locked, and no other call frees it. *)
LockedByItsCall ==
  \A c \in Calls, k \in Keys : holder[k] = c <=> pc[c] \in {"get", "script"} /\ job[c].id = k
=============================================================================
