----------------------------- MODULE Directory -----------------------------
(***************************************************************************)
(* The in-memory directory of transport/fake (directory.go, filter.go)     *)
(* that client code is tested on: its handlers as operators on its value.  *)
(* Every handler runs under Directory.mu, so a request is one step of the  *)
(* server.  A handler is the set of responses it may give, a response      *)
(* being the directory after it, an error kind and the data: find and the  *)
(* scans range over a Go map, whose order is arbitrary, so where several   *)
(* objects fit any of them is taken.  A text is an opaque value, a DN the  *)
(* sequence of its RDNs, a sAMAccountName the sequence of its base and,    *)
(* for computers and gMSAs, "$".  Where the handlers treat a family of     *)
(* attributes alike one stands for it: description for the texts, enabled  *)
(* for the flags, spns for the multi-valued ones.                          *)
(***************************************************************************)
EXTENDS Naturals, FiniteSets, Sequences, SequencesExt

CONSTANTS MaxObjects,     \* bound: how many objects are ever created
          Texts,          \* the values of the attributes
          Filters,        \* the LDAP filters searches use, with their parts
          None            \* a nil pointer, an absent parameter, no object

ASSUME MaxObjectsAssumption == MaxObjects \in Nat

GUIDs == 1..MaxObjects
Classes == {"ou", "group", "user", "gmsa", "computer"}
Suffixing == {"gmsa", "computer"}     \* the classes whose sAMAccountName ends in "$"

DNs == Seq(Texts \X Texts)
(* An access control entry: whom it is about, and his rights. *)
Aces == [trustee : Texts, rights : Seq(Texts)]
Objects ==
  [class : Classes, name : Texts, container : DNs, sam : Seq(Texts), description : Texts,
   enabled : BOOLEAN, spns : SUBSET Texts, protected : BOOLEAN, member : SUBSET GUIDs,
   dacl : Seq(Aces), passwords : Seq(Texts), deleted : BOOLEAN]

ASSUME TextsAssumption == {"", "$"} \subseteq Texts
ASSUME NoneAssumption ==
  None \notin Objects /\ None \notin Texts /\ None \notin BOOLEAN
  /\ None \notin DNs /\ None \notin Seq(Texts)

Used(d) == {g \in GUIDs : d[g] # None}
Live(d) == {g \in Used(d) : ~d[g].deleted}
Tombstones(d) == Used(d) \ Live(d)

BuildDN(class, name, container) == <<<<IF class = "ou" THEN "OU" ELSE "CN", name>>>> \o container
DN(o) == BuildDN(o.class, o.name, o.container)

(* The identity texts the cmdlets accept for object g. *)
Identities(d, g) == {<<"guid", g>>, <<"dn", DN(d[g])>>, <<"sam", d[g].sam>>}
Find(d, id) == {g \in Live(d) : id \in Identities(d, g)}

Response(d, err, data) == [dir |-> d, err |-> err, data |-> data]
(* A handler's answer for each object the identity may stand for. *)
OnFound(d, id, Do(_)) == IF Find(d, id) = {} THEN {Response(d, "notFound", None)}
                                             ELSE {Do(g) : g \in Find(d, id)}
-----------------------------------------------------------------------------
Suffixed(class, sam) == IF class \in Suffixing /\ sam # <<>> /\ Last(sam) # "$" THEN Append(sam, "$") ELSE sam

(* applySplat: the parameters of the splat, a function on field names, over the object. *)
ApplySplat(o, splat) ==
  [f \in DOMAIN o |-> IF f \notin DOMAIN splat THEN o[f]
                      ELSE IF f = "sam" THEN Suffixed(o.class, splat[f]) ELSE splat[f]]

(* A computer is called by its name when the splat has no sAMAccountName. *)
CreateSam(class, name, sam) == Suffixed(class, IF class = "computer" /\ sam = <<>> THEN <<name>> ELSE sam)

NewObject(class, name, container) ==
  [class |-> class, name |-> name, container |-> container, sam |-> <<>>, description |-> "",
   enabled |-> class \in Suffixing, spns |-> {}, protected |-> class = "ou", member |-> {},
   dacl |-> <<>>, passwords |-> <<>>, deleted |-> FALSE]

SameSam(o, sam) == o.sam # <<>> /\ o.sam = sam
(* The scan for an object that already has the name: a tombstone still holds both. *)
BlocksCreateByDN(o, class, dn, sam) == DN(o) = dn                            \* plausible bug
BlocksCreate(o, class, dn, sam) ==
  \/ DN(o) = dn
  \/ SameSam(o, sam) /\ (o.deleted \/ class # "ou")

HandleCreate(d, q) ==
  LET sam == CreateSam(q.class, q.name, q.splat.sam)
      blocking == {g \in Used(d) : BlocksCreate(d[g], q.class, BuildDN(q.class, q.name, q.container), sam)}
      new == Cardinality(Used(d)) + 1
      o == [ApplySplat(NewObject(q.class, q.name, q.container), [q.splat EXCEPT !.sam = sam])
              EXCEPT !.passwords = IF q.password = None THEN <<>> ELSE <<q.password>>]
  IN IF blocking # {} THEN {Response(d, "alreadyExists", g) : g \in blocking}
     ELSE {Response([d EXCEPT ![new] = o], "ok", new)}

HandleRead(d, id) == OnFound(d, id, LAMBDA g : Response(d, "ok", g))

(* set, rename and move; protect comes last.  A refused move leaves what came before it. *)
HandleUpdate(d, q) ==
  OnFound(d, q.id, LAMBDA g :
    LET o1 == ApplySplat(d[g], q.set)
        o2 == IF q.rename = None THEN o1 ELSE [o1 EXCEPT !.name = q.rename]
        o3 == IF q.move # None /\ q.unprotect THEN [o2 EXCEPT !.protected = FALSE] ELSE o2
        o4 == IF q.move = None THEN o3 ELSE [o3 EXCEPT !.container = q.move]
    IN IF q.move # None /\ o3.protected THEN Response([d EXCEPT ![g] = o3], "denied", None)
       ELSE Response([d EXCEPT ![g] = IF q.protect = None THEN o4 ELSE [o4 EXCEPT !.protected = q.protect]],
                     "ok", g))

HandleDelete(d, q) == OnFound(d, q.id, LAMBDA g : Response([d EXCEPT ![g].deleted = TRUE], "ok", g))

Children(d, g) == {h \in Live(d) \ {g} : d[h].container = DN(d[g])}
HandleOUDelete(d, q) ==
  OnFound(d, q.id, LAMBDA g :
    LET p == d[g].protected /\ ~q.unprotect
    IN IF Children(d, g) # {} THEN Response(d, "children", None)
       ELSE IF p THEN Response(d, "denied", None)
       ELSE Response([d EXCEPT ![g].protected = FALSE, ![g].deleted = TRUE], "ok", g))

(* The Recycle Bin probe: by sAMAccountName, or by last known parent and name. *)
HandleDeletedProbe(d, filter) ==
  {g \in Tombstones(d) : \/ SameSam(d[g], filter.sam)
                         \/ filter.name = d[g].name /\ filter.container = d[g].container}

HandleSetPassword(d, q) ==
  OnFound(d, q.id, LAMBDA g : Response([d EXCEPT ![g].passwords = Append(@, q.password)], "ok", g))
-----------------------------------------------------------------------------
(* The group's member set with the named objects added or taken out: none of them when one is unknown. *)
HandleMembers(d, q, Change(_, _)) ==
  IF \E m \in q.members : Find(d, m) = {} THEN OnFound(d, q.id, LAMBDA g : Response(d, "notFound", None))
  ELSE UNION {OnFound(d, q.id, LAMBDA g : Response([d EXCEPT ![g].member = Change(@, {f[m] : m \in q.members})], "ok", g)) :
              f \in {f \in [q.members -> GUIDs] : \A m \in q.members : f[m] \in Find(d, m)}}
HandleMembersAddReplace(d, q) == HandleMembers(d, q, LAMBDA old, named : named)      \* plausible bug
HandleMembersAdd(d, q) == HandleMembers(d, q, LAMBDA old, named : old \cup named)
HandleMembersRemove(d, q) == HandleMembers(d, q, LAMBDA old, named : old \ named)

MembersOf(d, g) == d[g].member \cap Live(d)
HandleMembersRead(d, q) == OnFound(d, q.id, LAMBDA g : Response(d, "ok", MembersOf(d, g)))

(* Plausible bug: members of nested groups are not followed. *)
WalkFlat(d, start) == {m \in MembersOf(d, start) : d[m].class # "group"}
(* The walk of the membership graph: groups are entered once and never returned. *)
Walk(d, start) ==
  LET walk[todo \in SUBSET GUIDs, seen \in SUBSET GUIDs] ==
        IF todo = {} THEN {}
        ELSE LET m == CHOOSE m \in todo : TRUE
                 nested == m \in Live(d) /\ d[m].class = "group"
                 more == IF nested THEN d[m].member \ (seen \cup {m}) ELSE {}
                 leaf == IF m \in Live(d) /\ ~nested THEN {m} ELSE {}
             IN leaf \cup walk[(todo \ {m}) \cup more, seen \cup {m}]
  IN walk[d[start].member, {}]
HandleMembersReadRecursive(d, q) == OnFound(d, q.id, LAMBDA g : Response(d, "ok", Walk(d, g)))

HandleMemberCheck(d, q) ==
  IF Find(d, q.member) = {} THEN OnFound(d, q.id, LAMBDA g : Response(d, "notFound", None))
  ELSE UNION {OnFound(d, q.id, LAMBDA g : Response(d, "ok", m \in d[g].member)) : m \in Find(d, q.member)}
-----------------------------------------------------------------------------
(* An attribute's value, None for one that is not there or empty. *)
FakeAttr(o, attr) == CASE attr = "dn" -> DN(o)
                       [] attr = "sam" -> (IF o.sam = <<>> THEN None ELSE o.sam)
                       [] attr = "description" -> (IF o.description = "" THEN None ELSE o.description)
                       [] attr \in {"class", "name"} -> o[attr]
                       [] OTHER -> None
(* One assertion: presence, equality, or a pattern, which is the set of the values it matches; *)
(* any other operator is an error.                                                             *)
MatchItem(o, f) == CASE f.op = "present" -> (IF FakeAttr(o, f.attr) # None THEN "yes" ELSE "no")
                     [] f.op = "eq" -> (IF FakeAttr(o, f.attr) = f.value THEN "yes" ELSE "no")
                     [] f.op = "like" -> (IF FakeAttr(o, f.attr) \in f.value \ {None} THEN "yes" ELSE "no")
                     [] OTHER -> "error"
(* matchFilter: "yes", "no" or "error", the parts of & and | from left to right until one decides. *)
MatchFilter(o, filter) ==
  LET match[f \in Filters] ==
        LET parts(undecided) == FoldLeft(LAMBDA sofar, p : IF sofar = undecided THEN match[p] ELSE sofar,
                                         undecided, f.parts)
        IN CASE f.op = "and" -> parts("yes")
             [] f.op = "or" -> parts("no")
             [] f.op = "not" -> LET m == match[f.parts[1]]
                                IN IF m = "yes" THEN "no" ELSE IF m = "no" THEN "yes" ELSE m
             [] OTHER -> MatchItem(o, f)
  IN match[filter]

InScope(dn, base, scope) == CASE scope = "base" -> dn = base
                              [] scope = "oneLevel" -> Tail(dn) = base
                              [] OTHER -> IsSuffix(base, dn)

(* handleSearch: at most max of the matches; which of them is the order of their DNs. *)
HandleSearch(d, q, max) ==
  LET scanned == {g \in Live(d) : d[g].class = q.class /\ InScope(DN(d[g]), q.base, q.scope)}
      matched == {g \in scanned : MatchFilter(d[g], q.filter) = "yes"}
  IN IF \E g \in scanned : MatchFilter(d[g], q.filter) = "error" THEN {Response(d, "filter", None)}
     ELSE {Response(d, "ok", s) : s \in {s \in SUBSET matched :
             Cardinality(s) = IF Cardinality(matched) > max THEN max ELSE Cardinality(matched)}}
-----------------------------------------------------------------------------
(* fakeACEKey: the rights are sorted, so their order does not count. *)
FakeACEKeyUnsorted(ace) == ace                                               \* plausible bug
FakeACEKey(ace) == <<ace.trustee, [r \in ToSet(ace.rights) |-> Cardinality({i \in DOMAIN ace.rights : ace.rights[i] = r})]>>
Keys(aces) == {FakeACEKey(ace) : ace \in ToSet(aces)}

HandleACLRead(d, q) == OnFound(d, q.id, LAMBDA g : Response(d, "ok", d[g].dacl))
(* The elements of s at the places in keep, in their order. *)
Subsequence(s, keep) ==
  [n \in 1..Cardinality(keep) |-> s[CHOOSE i \in keep : Cardinality({j \in keep : j <= i}) = n]]
(* Appended are the entries whose key neither the list nor an entry before them has. *)
Granted(dacl, aces) ==
  dacl \o Subsequence(aces, {i \in DOMAIN aces :
    /\ FakeACEKey(aces[i]) \notin Keys(dacl)
    /\ \A j \in 1..i-1 : FakeACEKey(aces[j]) # FakeACEKey(aces[i])})
Revoked(dacl, aces) == Subsequence(dacl, {i \in DOMAIN dacl : FakeACEKey(dacl[i]) \notin Keys(aces)})
HandleACLGrant(d, q) == OnFound(d, q.id, LAMBDA g : Response([d EXCEPT ![g].dacl = Granted(@, q.aces)], "ok", g))
HandleACLRevoke(d, q) ==
  OnFound(d, q.id, LAMBDA g : Response([d EXCEPT ![g].dacl = Revoked(@, q.aces)], "ok", g))
=============================================================================
