------------------------------ MODULE Accounts ------------------------------
(***************************************************************************)
(* The sub-clients of one Client (ou.go, group.go, user.go, computer.go,   *)
(* serviceaccount.go, acl_client.go) at work on a directory: calls made at *)
(* the same time, each a sequence of requests, with a lock over the read   *)
(* and the write of a change.  The directory is the fake's (Directory),    *)
(* which answers every request at once and never fails for a reason of its *)
(* own, so an exec is one request and replicate returns; what core.exec    *)
(* and replicate add is in CoreExec and Replication.  Validation is left   *)
(* out: Jobs holds what passes it.                                         *)
(***************************************************************************)
EXTENDS Directory

CONSTANTS Calls,     \* the calls, each made once
          Jobs,      \* what each call may be asked to do
          Seeds      \* the directories it may find

(* What validation lets through.  A user's Name may be nil or empty, which the code treats alike: None. *)
Ids == ({"guid"} \X GUIDs) \cup ({"dn"} \X DNs) \cup ({"sam"} \X Seq(Texts))
Specs(class) ==
  [name : IF class = "user" THEN {None} \cup (Texts \ {""}) ELSE Texts, container : DNs,
   sam : IF class = "ou" THEN {<<>>} ELSE [1..1 -> Texts \ {"$"}], description : {None} \cup Texts,
   enabled : {None} \cup BOOLEAN, spns : {None} \cup SUBSET Texts, protected : {None} \cup BOOLEAN,
   password : {None} \cup Texts]
Requests(class) ==
  [op : {"create"}, class : {class}, spec : Specs(class)]
  \cup [op : {"update"}, class : {class}, id : Ids, spec : Specs(class)]
  \cup [op : {"delete"}, class : {class} \cap {"ou"}, id : Ids, unprotect : BOOLEAN]
  \cup [op : {"delete"}, class : {class} \ {"ou"}, id : Ids] \cup [op : {"get"}, class : {class}, id : Ids]
  \cup [op : {"search"}, class : {class}, filter : Filters, base : DNs, limit : Nat,
        scope : {"base", "oneLevel", "subtree"}]
  \cup [op : {"setPassword"}, id : Ids, password : Texts]
  \cup [op : {"members", "membersRecursive", "aclGet"}, id : Ids] \cup [op : {"isMember"}, id : Ids, member : Ids]
  \cup [op : {"addMembers", "removeMembers"}, id : Ids, members : SUBSET Ids]
  \cup [op : {"grant", "revoke"}, id : Ids, aces : Seq(Aces)]

ASSUME CallsAssumption == None \notin Calls
ASSUME JobsAssumption == \A c \in Calls : \A j \in Jobs[c] : \E class \in Classes : j \in Requests(class)
(* The objects are numbered as they were created. *)
ASSUME SeedsAssumption ==
  \A d \in Seeds : /\ d \in [GUIDs -> Objects \cup {None}]
                   /\ Used(d) = 1..Cardinality(Used(d))
                   /\ \A g \in Used(d) : d[g].member \subseteq Used(d)

VARIABLES dir, holder, job, pc, current, answer

vars == <<dir, holder, job, pc, current, answer>>

Writing == {"update", "delete", "setPassword", "addMembers", "removeMembers", "grant", "revoke"}
LockTexts == {j.id : j \in {j \in UNION {Jobs[c] : c \in Calls} : j.op \in Writing}}

Answer(kind, data) == [kind |-> kind, data |-> data, tombstoned |-> FALSE]

Init ==
  /\ dir \in Seeds
  /\ holder = [t \in LockTexts |-> None]
  /\ job = [c \in Calls |-> None]
  /\ pc = [c \in Calls |-> "start"]
  /\ current = [c \in Calls |-> None]
  /\ answer = [c \in Calls |-> Answer("pending", None)]
-----------------------------------------------------------------------------
(* The models: the fields a class has.  samWithoutDollar takes off the "$" of computers and gMSAs. *)
SamWithoutDollar(sam) == IF sam # <<>> /\ Last(sam) = "$" THEN Front(sam) ELSE sam
Fields(d, g, names) == [f \in names \cup {"guid", "name", "container"} |-> IF f = "guid" THEN g ELSE d[g][f]]
OUModel(d, g) == Fields(d, g, {"description", "protected"})
GroupModel(d, g) == Fields(d, g, {"sam", "description"})
UserModel(d, g) == Fields(d, g, {"sam", "description", "enabled"})
ComputerModel(d, g) ==
  [Fields(d, g, {"sam", "description", "enabled", "spns"}) EXCEPT !.sam = SamWithoutDollar(@)]
GMSAModel(d, g) ==
  [Fields(d, g, {"sam", "description", "enabled", "spns"}) EXCEPT !.sam = SamWithoutDollar(@)]
Model(class, d, g) ==
  CASE class = "ou" -> OUModel(d, g)
    [] class = "group" -> GroupModel(d, g)
    [] class = "user" -> UserModel(d, g)
    [] class = "computer" -> ComputerModel(d, g)
    [] class = "gmsa" -> GMSAModel(d, g)

(* What the specs set: a nil field is left alone; on create so is an empty text. *)
NonNil(spec, fields) == {f \in fields : spec[f] # None}
Given(spec, fields) == {f \in NonNil(spec, fields) : f # "description" \/ spec[f] # ""}
CreateQuery(class, name, spec, fields) ==
  [class |-> class, name |-> name, container |-> spec.container, password |-> None,
   splat |-> [f \in {"sam"} \cup Given(spec, fields) |-> spec[f]]]
OUCreate(spec) == CreateQuery("ou", spec.name, spec, {"description", "protected"})
GroupCreate(spec) == CreateQuery("group", spec.name, spec, {"description"})
UserCreate(spec) ==
  [CreateQuery("user", IF spec.name = None THEN Head(spec.sam) ELSE spec.name, spec, {"description", "enabled"})
     EXCEPT !.password = spec.password]
ComputerCreate(spec) == CreateQuery("computer", spec.name, spec, {"description", "enabled", "spns"})
GMSACreate(spec) == CreateQuery("gmsa", spec.name, spec, {"description", "enabled", "spns"})
Creates(class, spec) ==
  CASE class = "ou" -> OUCreate(spec)
    [] class = "group" -> GroupCreate(spec)
    [] class = "user" -> UserCreate(spec)
    [] class = "computer" -> ComputerCreate(spec)
    [] class = "gmsa" -> GMSACreate(spec)

(* The payload of an Update, from the model just read.  The sAMAccountName and the flags are   *)
(* diffed; a text and a multi-valued field are sent whenever the spec has them.                *)
Differs(spec, read, f) == spec[f] \notin {None, read[f]}
Payload(id, spec, read, fields, renamed) ==
  [id |-> id, set |-> [f \in fields |-> spec[f]],
   rename |-> IF renamed THEN spec.name ELSE None,
   move |-> IF spec.container # read.container THEN spec.container ELSE None,
   unprotect |-> FALSE, protect |-> None]
Diffed(spec, read, fields) == {f \in fields : Differs(spec, read, f)}

GroupUpdate(id, spec, read) ==
  Payload(id, spec, read, NonNil(spec, {"description"}) \cup Diffed(spec, read, {"sam"}), spec.name # read.name)
UserUpdate(id, spec, read) ==
  Payload(id, spec, read, NonNil(spec, {"description"}) \cup Diffed(spec, read, {"sam", "enabled"}),
          Differs(spec, read, "name"))
(* Plausible bug: the sAMAccountName is compared with the one the directory stores. *)
ComputerUpdateSuffixed(id, spec, read) ==
  Payload(id, spec, read, NonNil(spec, {"description", "spns"}) \cup {"sam"} \cup Diffed(spec, read, {"enabled"}),
          spec.name # read.name)
ComputerUpdate(id, spec, read) ==
  Payload(id, spec, read, NonNil(spec, {"description", "spns"}) \cup Diffed(spec, read, {"sam", "enabled"}),
          spec.name # read.name)
GMSAUpdate(id, spec, read) ==
  Payload(id, spec, read, NonNil(spec, {"description", "spns"}) \cup Diffed(spec, read, {"sam", "enabled"}),
          spec.name # read.name)
OUUpdate(id, spec, read) ==
  LET p == Payload(id, spec, read, NonNil(spec, {"description"}), spec.name # read.name)
      lifted == p.move # None /\ read.protected
      final == IF spec.protected = None THEN read.protected ELSE spec.protected
  IN [p EXCEPT !.unprotect = lifted,
               !.protect = IF final # (read.protected /\ ~lifted) THEN final ELSE None]
Updates(class, id, spec, read) ==
  CASE class = "ou" -> OUUpdate(id, spec, read)
    [] class = "group" -> GroupUpdate(id, spec, read)
    [] class = "user" -> UserUpdate(id, spec, read)
    [] class = "computer" -> ComputerUpdate(id, spec, read)
    [] class = "gmsa" -> GMSAUpdate(id, spec, read)
Empty(p) == DOMAIN p.set = {} /\ p.rename = None /\ p.move = None /\ p.protect = None
-----------------------------------------------------------------------------
At(c, step, op) == pc[c] = step /\ job[c].op = op
Go(c, step) == pc' = [pc EXCEPT ![c] = step]

(* A return: the deferred unlock runs. *)
Return(c, a) ==
  /\ answer' = [answer EXCEPT ![c] = a]
  /\ Go(c, "done")
  /\ holder' = [t \in LockTexts |-> IF holder[t] = c THEN None ELSE holder[t]]

Verbatim(r) == Answer(r.err, IF r.err = "ok" THEN r.data ELSE None)
(* A request that ends its call, by the answer the call makes of the response. *)
Ask(c, op, responses, Reading(_)) ==
  /\ At(c, "exec", op)
  /\ \E r \in responses : dir' = r.dir /\ Return(c, Reading(r))
  /\ UNCHANGED <<job, current>>

(* What needs no request: nothing to add, remove, grant or revoke, and an empty password. *)
Idle(j) == \/ j.op \in {"addMembers", "removeMembers"} /\ j.members = {}
           \/ j.op \in {"grant", "revoke"} /\ j.aces = <<>>
Call(c) ==
  /\ pc[c] = "start"
  /\ \E j \in Jobs[c] :
       /\ job' = [job EXCEPT ![c] = j]
       /\ IF Idle(j) THEN Return(c, Answer("ok", None))
          ELSE IF j.op = "setPassword" /\ j.password = "" THEN Return(c, Answer("password", None))
          ELSE /\ Go(c, IF j.op \in Writing THEN "lock" ELSE IF j.op = "get" THEN "get" ELSE "exec")
               /\ UNCHANGED <<answer, holder>>
  /\ UNCHANGED <<dir, current>>

(* locks.Lock(IdentityArg(id)): the lock of the text the caller used. *)
Lock(c) ==
  /\ pc[c] = "lock" /\ holder[job[c].id] = None
  /\ holder' = [holder EXCEPT ![job[c].id] = c]
  /\ Go(c, IF job[c].op \in {"update", "delete"} THEN "get" ELSE "exec")
  /\ UNCHANGED <<dir, job, current, answer>>

(* Get, and the Get an Update or a Delete begins with; an Update with nothing to write ends here. *)
Get(c) ==
  /\ pc[c] = "get"
  /\ \E r \in HandleRead(dir, job[c].id) :
       IF r.err # "ok" THEN Return(c, Verbatim(r)) /\ UNCHANGED current
       ELSE LET read == Model(job[c].class, dir, r.data) IN
            /\ current' = [current EXCEPT ![c] = read]
            /\ IF \/ job[c].op = "get"
                  \/ job[c].op = "update" /\ Empty(Updates(job[c].class, job[c].id, job[c].spec, read))
                 THEN Return(c, Answer("ok", read))
                 ELSE Go(c, "exec") /\ UNCHANGED <<answer, holder>>
  /\ UNCHANGED <<dir, job>>

(* A refused create goes on to look for a tombstone; data is what was in its way, which the caller is not told. *)
Create(c) ==
  /\ At(c, "exec", "create")
  /\ Cardinality(Used(dir)) < MaxObjects                                     \* bound
  /\ \E r \in HandleCreate(dir, Creates(job[c].class, job[c].spec)) :
       /\ dir' = r.dir
       /\ IF r.err = "alreadyExists"
            THEN Go(c, "probe") /\ answer' = [answer EXCEPT ![c] = Answer(r.err, r.data)] /\ UNCHANGED holder
            ELSE Return(c, Answer("ok", Model(job[c].class, dir', r.data)))
  /\ UNCHANGED <<job, current>>

DeletedOUFilter(name, container) == [sam |-> None, name |-> name, container |-> container]
(* Plausible bug: the filter is made from the name. *)
DeletedPrincipalFilterByName(spec) == [sam |-> <<spec.name>>, name |-> None, container |-> None]
DeletedPrincipalFilter(spec) == [sam |-> spec.sam, name |-> None, container |-> None]
(* annotateAlreadyExists: the first tombstone the probe finds is named. *)
AnnotateAlreadyExists(c) ==
  LET spec == job[c].spec
      matches == HandleDeletedProbe(dir, IF job[c].class = "ou" THEN DeletedOUFilter(spec.name, spec.container)
                                                               ELSE DeletedPrincipalFilter(spec))
  IN /\ pc[c] = "probe"
     /\ IF matches = {} THEN Return(c, answer[c])
        ELSE \E g \in matches : Return(c, [answer[c] EXCEPT !.data = g, !.tombstoned = TRUE])
     /\ UNCHANGED <<dir, job, current>>

Update(c) ==
  Ask(c, "update", HandleUpdate(dir, Updates(job[c].class, job[c].id, job[c].spec, current[c])),
      LAMBDA r : IF r.err = "ok" THEN Answer("ok", Model(job[c].class, r.dir, r.data)) ELSE Verbatim(r))

(* Plausible bug: the delete passes on the caller's identity. *)
DeletedByIdentity(c) == job[c].id
Deleted(c) == <<"guid", current[c].guid>>
DeletePrincipal(c) ==
  /\ At(c, "exec", "delete") /\ job[c].class # "ou"
  /\ Ask(c, "delete", HandleDelete(dir, [id |-> Deleted(c)]), Verbatim)
DeleteOU(c) ==
  /\ At(c, "exec", "delete") /\ job[c].class = "ou"
  /\ Ask(c, "delete", HandleOUDelete(dir, [id |-> Deleted(c), unprotect |-> job[c].unprotect]), Verbatim)

SetPassword(c) == Ask(c, "setPassword", HandleSetPassword(dir, job[c]), Verbatim)

(* One row more than the limit is asked for; finding it is an error, not a cut. *)
QueryPayloadExact(j) == j.limit                                              \* plausible bug
QueryPayload(j) == j.limit + 1
Search(c) ==
  Ask(c, "search", HandleSearch(dir, job[c], QueryPayload(job[c])),
      LAMBDA r : IF r.err = "ok" /\ Cardinality(r.data) > job[c].limit THEN Answer("tooMany", None) ELSE Verbatim(r))

Members(c) == Ask(c, "members", HandleMembersRead(dir, job[c]), Verbatim)
MembersRecursive(c) == Ask(c, "membersRecursive", HandleMembersReadRecursive(dir, job[c]), Verbatim)
AddMembers(c) == Ask(c, "addMembers", HandleMembersAdd(dir, job[c]), Verbatim)
(* What is not found, the group or a member, counts as removed. *)
RemoveMembers(c) ==
  Ask(c, "removeMembers", HandleMembersRemove(dir, job[c]),
      LAMBDA r : IF r.err = "notFound" THEN Answer("ok", None) ELSE Verbatim(r))
IsMember(c) ==
  Ask(c, "isMember", HandleMemberCheck(dir, job[c]),
      LAMBDA r : IF r.err = "notFound" THEN Answer("ok", FALSE) ELSE Verbatim(r))

ACLGet(c) == Ask(c, "aclGet", HandleACLRead(dir, job[c]), Verbatim)
Grant(c) == Ask(c, "grant", HandleACLGrant(dir, job[c]), Verbatim)
Revoke(c) == Ask(c, "revoke", HandleACLRevoke(dir, job[c]), Verbatim)

Step(c) ==
  \/ Call(c) \/ Lock(c) \/ Get(c) \/ Create(c) \/ AnnotateAlreadyExists(c) \/ Update(c)
  \/ DeletePrincipal(c) \/ DeleteOU(c) \/ SetPassword(c) \/ Search(c)
  \/ Members(c) \/ MembersRecursive(c) \/ AddMembers(c) \/ RemoveMembers(c) \/ IsMember(c)
  \/ ACLGet(c) \/ Grant(c) \/ Revoke(c)
AllReturned == (\A c \in Calls : pc[c] = "done") /\ UNCHANGED vars
Next == AllReturned \/ \E c \in Calls : Step(c)

Spec == Init /\ [][Next]_vars
-----------------------------------------------------------------------------
Done(c, op) == pc[c] = "done" /\ job[c].op = op /\ answer[c].kind = "ok"
Answers(c, op) == At(c, "exec", op) /\ pc'[c] = "done" /\ answer'[c].kind = "ok"

WellFormed(o) ==
  /\ o.class \in Classes /\ o.protected \in BOOLEAN /\ o.enabled \in BOOLEAN /\ o.deleted \in BOOLEAN
  /\ o.class = "ou" <=> o.sam = <<>>
  /\ o.class \in Suffixing => Last(o.sam) = "$"
Times(s, r) == Cardinality({i \in DOMAIN s : s[i] = r})
Permuted(s, t) == ToSet(s) = ToSet(t) /\ \A r \in ToSet(s) : Times(s, r) = Times(t, r)
SameAce(dacl) == {ij \in (DOMAIN dacl) \X (DOMAIN dacl) :
  /\ ij[1] < ij[2] /\ dacl[ij[1]].trustee = dacl[ij[2]].trustee
  /\ Permuted(dacl[ij[1]].rights, dacl[ij[2]].rights)}
Sound(d) ==
  \A g \in Used(d) : /\ WellFormed(d[g])
                     /\ d[g].member \subseteq Used(d)
                     /\ d[g].member # {} => d[g].class = "group"
                     /\ SameAce(d[g].dacl) = {}
(* The directory keeps its shape: accounts have a name and computers and   *)
(* gMSAs have "$" in theirs, only groups have members, who were all        *)
(* created, and no access control list holds the same entry twice, however *)
(* its rights were ordered; a lock is held by a call that is at work.      *)
TypeOK ==
  /\ Sound(dir)
  /\ pc \in [Calls -> {"start", "lock", "get", "exec", "probe", "done"}]
  /\ \A t \in LockTexts : holder[t] # None =>
       job[holder[t]].op \in Writing /\ job[holder[t]].id = t /\ pc[holder[t]] \in {"get", "exec"}

(* What a careful caller asks: an Update of, or an addition to, an object that is there, by its *)
(* GUID, through the client of its class.  The fake lets any client change any object.          *)
Intended(d) ==
  \A c \in Calls : \A j \in Jobs[c] : j.op \in {"update", "addMembers"} =>
    \E g \in Used(d) : /\ j.id = <<"guid", g>>
                       /\ d[g].deleted \/ d[g].class = IF j.op = "update" THEN j.class ELSE "group"
AsIntended == \A d \in Seeds : Sound(d) /\ Intended(d)

(* The calls keep what Membership promises: members are kept by GUID, so   *)
(* no rename, move, update or creation makes or breaks an edge; only an    *)
(* AddMembers makes some, those it was asked for and all of them, only a   *)
(* RemoveMembers or the deletion of one end breaks some, and a call that   *)
(* fails has done neither.                                                 *)
Edges == {e \in Live(dir) \X Live(dir) : e[2] \in dir[e[1]].member}
MemberOps == {"addMembers", "removeMembers"}
Doing == [c \in Calls |->
  CASE pc[c] = "start" -> "none"
    [] pc[c] = "done" -> (IF answer[c].kind = "ok" THEN "ok" ELSE "failed")
    [] OTHER -> (IF job[c].op \in MemberOps \cup {"delete"} THEN job[c].op ELSE "other")]
Targets == [c \in Calls |->
  CASE pc[c] = "exec" /\ job[c].op \in MemberOps -> Find(dir, job[c].id)
    [] At(c, "exec", "delete") -> Find(dir, Deleted(c))
    [] OTHER -> {}]
Candidates == [c \in Calls |->
  IF pc[c] # "start" /\ job[c].op \in MemberOps THEN {Find(dir, m) : m \in job[c].members} ELSE {}]
Promised == INSTANCE Membership WITH Objects <- GUIDs, edges <- Edges, doing <- Doing,
                                     group <- Targets, named <- Candidates
MembershipSpec == Promised!Spec

(* MembersRecursive answers with the accounts that can be reached, through *)
(* cycles and by several paths: those in every set that holds the group's  *)
(* members and, with a nested group, that group's members.                 *)
Reached(g) ==
  LET closed == {s \in SUBSET Live(dir) : /\ MembersOf(dir, g) \subseteq s
                                          /\ \A h \in s : dir[h].class = "group" => MembersOf(dir, h) \subseteq s}
  IN {m \in Live(dir) : dir[m].class # "group" /\ \A s \in closed : m \in s}
RecursiveIsReached ==
  [][\A c \in Calls : Answers(c, "membersRecursive") =>
       \E g \in Find(dir, job[c].id) : answer'[c].data = Reached(g)]_vars

(* A search is never cut silently: what it returns is every object of the  *)
(* class below its base that its filter matches, never more than the       *)
(* limit, and it fails rather than leave one out.                          *)
SearchIsComplete ==
  [][\A c \in Calls : Answers(c, "search") =>
       /\ Cardinality(answer'[c].data) <= job[c].limit
       /\ answer'[c].data = {g \in Live(dir) : /\ dir[g].class = job[c].class
                                               /\ InScope(DN(dir[g]), job[c].base, job[c].scope)
                                               /\ MatchFilter(dir[g], job[c].filter) = "yes"}]_vars

(* A created object shares its DN and its sAMAccountName with no object of *)
(* any class, deleted ones included, counting the "$" the server adds.     *)
CreateIsUnique ==
  [][\A g \in Used(dir') \ Used(dir) : \A h \in Used(dir') \ {g} :
       DN(dir'[h]) # DN(dir'[g]) /\ ~SameSam(dir'[h], dir'[g].sam)]_vars

(* An Update that returns has what its spec asked for, and one whose spec  *)
(* the object already meets, "$" or not, sends nothing: it writes only for *)
(* a difference, or for a field that is sent without being compared.       *)
UpdateConverges ==
  \A c \in Calls :
    LET spec == job[c].spec  m == answer[c].data  r == current[c] IN
    /\ Done(c, "update") => \A f \in DOMAIN m \ {"guid"} : spec[f] \in {None, m[f]}
    /\ At(c, "exec", "update") => \E f \in DOMAIN r \ {"guid"} :
         spec[f] # None /\ (f \in {"description", "spns"} \/ spec[f] # r[f])

(* A refused create is explained: when a tombstone of the same name is in  *)
(* the way of a user or a group, or of the same place of an OU, the error  *)
(* says so, and it says so only if there is such a tombstone, although the *)
(* probe is a later request.                                               *)
TombstoneNamed ==
  [][\A c \in Calls : pc[c] = "probe" /\ pc'[c] = "done" =>
       LET spec == job[c].spec
           class == job[c].class
           Same(o) == IF class = "ou" THEN o.name = spec.name /\ o.container = spec.container
                                      ELSE o.sam = spec.sam
           blocking == answer[c].data
           named == answer'[c] IN
       /\ class \in {"ou", "user", "group"} /\ blocking \in Tombstones(dir) /\ Same(dir[blocking]) => named.tombstoned
       /\ named.tombstoned => named.data \in Tombstones(dir) /\ Same(dir[named.data])]_vars

(* The object that goes is the one its Delete read, even if the name the   *)
(* caller used has come to stand for another one in between.               *)
DeletesWhatItRead ==
  [][\A g \in Live(dir) \ Live(dir') : \E c \in Calls : At(c, "exec", "delete") /\ current[c].guid = g]_vars
=============================================================================
