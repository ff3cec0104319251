--------------------------- MODULE AccountsProofs ---------------------------
(***************************************************************************)
(* Theorems about the sub-clients at work on the fake directory, for any   *)
(* calls, jobs, filters and directories.  In order: what the requests and  *)
(* the handlers do, one operator at a time; the steps of a call sorted by  *)
(* what they do to the directory (DirectoryCases) and to the calls         *)
(* (ControlCases); the invariants Typed and Locked and the action          *)
(* properties that follow; then, for calls made as AsIntended says,        *)
(* TypeOK and UpdateConverges.                                             *)
(***************************************************************************)
EXTENDS Accounts, FiniteSetTheorems, SequenceTheorems, TLAPS


(* The directories there can be. *)
Directories == [GUIDs -> Objects \cup {None}]

(* What a job has, by its operation. *)
LEMMA RequestFacts ==
  ASSUME NEW class \in Classes, NEW j \in Requests(class)
  PROVE  /\ j.op \in {"create", "update", "delete", "get", "search", "setPassword", "members",
                      "membersRecursive", "aclGet", "isMember", "addMembers", "removeMembers", "grant", "revoke"}
         /\ j.op \in {"create", "update"} => j.spec \in Specs(j.class)
         /\ j.op \in {"create", "update", "delete", "get", "search"} => j.class \in Classes
         /\ j.op \notin {"create", "search"} => j.id \in Ids
         /\ j.op = "search" => j.limit \in Nat
         /\ j.op \in {"addMembers", "removeMembers"} => j.members \subseteq Ids
         /\ j.op \in {"grant", "revoke"} => j.aces \in Seq(Aces)
         /\ j.op = "setPassword" => j.password \in Texts
BY DEF Requests

(* The fields of a spec. *)
LEMMA SpecFacts ==
  ASSUME NEW class, NEW spec \in Specs(class)
  PROVE  /\ spec.container \in DNs
         /\ spec.name # None => spec.name \in Texts
         /\ class # "user" => spec.name \in Texts
         /\ spec.sam \in Seq(Texts)
         /\ class = "ou" => spec.sam = <<>>
         /\ class # "ou" => spec.sam # <<>> /\ Last(spec.sam) # "$"
         /\ spec.description # None => spec.description \in Texts
         /\ spec.enabled # None => spec.enabled \in BOOLEAN
         /\ spec.spns # None => spec.spns \in SUBSET Texts
         /\ spec.protected # None => spec.protected \in BOOLEAN
         /\ spec.password # None => spec.password \in Texts
<1>1. /\ spec.container \in DNs
      /\ spec.name # None => spec.name \in Texts
      /\ class # "user" => spec.name \in Texts
      /\ spec.description # None => spec.description \in Texts
      /\ spec.enabled # None => spec.enabled \in BOOLEAN
      /\ spec.spns # None => spec.spns \in SUBSET Texts
      /\ spec.protected # None => spec.protected \in BOOLEAN
      /\ spec.password # None => spec.password \in Texts
  BY DEF Specs
<1>2. spec.sam \in Seq(Texts)
  <2>1. spec.sam = <<>> \/ spec.sam \in [1..1 -> Texts]
    BY DEF Specs
  <2>2. [1..1 -> Texts] \subseteq Seq(Texts)
    <3>1. 1 \in Nat
      OBVIOUS
    <3>2. Seq(Texts) = UNION {[1..n -> Texts] : n \in Nat}
      BY SeqDef
    <3> QED
      BY <3>1, <3>2, Zenon
  <2>3. <<>> \in Seq(Texts)
    OBVIOUS
  <2> QED
    BY <2>1, <2>2, <2>3, Zenon
<1>3. class # "ou" => spec.sam # <<>> /\ Last(spec.sam) # "$"
  <2>1. SUFFICES ASSUME class # "ou" PROVE spec.sam # <<>> /\ Last(spec.sam) # "$"
    OBVIOUS
  <2>2. spec.sam \in [1..1 -> Texts \ {"$"}]
    BY <2>1 DEF Specs
  <2>3. Len(spec.sam) = 1 /\ spec.sam[1] # "$"
    BY <1>2, <2>2
  <2> QED
    BY <1>2, <2>3 DEF Last
<1>4. class = "ou" => spec.sam = <<>>
  BY DEF Specs
<1> QED
  BY <1>1, <1>2, <1>3, <1>4

(* The payload of an update sets only what the schema of its class has. *)
PayloadTyped(q, class, id, spec) ==
  /\ q.id = id
  /\ DOMAIN q.set \subseteq {"sam", "description", "enabled", "spns"}
  /\ "sam" \in DOMAIN q.set => q.set["sam"] = spec.sam /\ class # "ou"
  /\ "description" \in DOMAIN q.set => q.set["description"] \in Texts
  /\ "enabled" \in DOMAIN q.set => q.set["enabled"] \in BOOLEAN
  /\ "spns" \in DOMAIN q.set => q.set["spns"] \in SUBSET Texts
  /\ q.rename # None => q.rename \in Texts
  /\ q.move # None => q.move \in DNs
  /\ q.protect # None => q.protect \in BOOLEAN

(* Every client's Update payload is typed, and carries the sAMAccountName  *)
(* of the spec or none.                                                    *)
LEMMA PayloadFacts ==
  ASSUME NEW class \in Classes, NEW id, NEW spec \in Specs(class), NEW read,
         class = "ou" => read.protected \in BOOLEAN
  PROVE  PayloadTyped(Updates(class, id, spec, read), class, id, spec)
<1>0. PICK q : q = Updates(class, id, spec, read)
  OBVIOUS
<1>1. /\ spec.container \in DNs
      /\ spec.name # None => spec.name \in Texts
      /\ class # "user" => spec.name \in Texts
      /\ spec.description # None => spec.description \in Texts
      /\ spec.enabled # None => spec.enabled \in BOOLEAN
      /\ spec.spns # None => spec.spns \in SUBSET Texts
      /\ spec.protected # None => spec.protected \in BOOLEAN
  BY SpecFacts
<1>3. /\ \A fields, renamed : LET p == Payload(id, spec, read, fields, renamed) IN
           /\ p.id = id /\ DOMAIN p.set = fields /\ \A f \in fields : p.set[f] = spec[f]
           /\ p.rename = (IF renamed THEN spec.name ELSE None)
           /\ p.move # None => p.move = spec.container
           /\ p.protect = None
  BY DEF Payload
<1>4. \A fields : /\ NonNil(spec, fields) \subseteq fields /\ Diffed(spec, read, fields) \subseteq fields
                 /\ \A f \in NonNil(spec, fields) \cup Diffed(spec, read, fields) : spec[f] # None
  BY DEF NonNil, Diffed, Differs
<1>5. ASSUME class = "ou" PROVE PayloadTyped(q, class, id, spec)
  <2> DEFINE p == Payload(id, spec, read, NonNil(spec, {"description"}), spec.name # read.name)
             final == IF spec.protected = None THEN read.protected ELSE spec.protected
  <2>1. final \in BOOLEAN
    BY <1>1, <1>5
  <2>2. \E lifted, protect : /\ q = [p EXCEPT !.unprotect = lifted, !.protect = protect]
                            /\ protect \in {final, None}
    BY <1>0, <1>5 DEF Updates, OUUpdate
  <2>3. /\ q.id = p.id /\ q.set = p.set /\ q.rename = p.rename /\ q.move = p.move
        /\ q.protect \in {final, None}
    BY <2>2 DEF Payload
  <2>4. /\ p.id = id /\ DOMAIN p.set \subseteq {"description"}
        /\ \A f \in DOMAIN p.set : p.set[f] = spec[f] /\ spec[f] # None
        /\ p.rename # None => p.rename = spec.name
        /\ p.move # None => p.move = spec.container
    BY <1>3, <1>4
  <2> HIDE DEF p, final
  <2> QED
    BY <1>1, <1>5, <2>1, <2>3, <2>4 DEF PayloadTyped
<1>6. ASSUME class # "ou" PROVE PayloadTyped(q, class, id, spec)
  <2>1. PICK fields, renamed :
          /\ q = Payload(id, spec, read, fields, renamed)
          /\ fields \subseteq {"sam", "description", "enabled", "spns"}
          /\ \A f \in fields : spec[f] # None
          /\ renamed => spec.name # None
    <3>1. CASE class = "group"
      <4> DEFINE fields == NonNil(spec, {"description"}) \cup Diffed(spec, read, {"sam"})
      <4>1. q = Payload(id, spec, read, fields, spec.name # read.name)
        BY <1>0, <3>1 DEF Updates, GroupUpdate
      <4>2. fields \subseteq {"sam", "description", "enabled", "spns"} /\ \A f \in fields : spec[f] # None
        BY <1>4
      <4> HIDE DEF fields
      <4> QED
        BY <1>1, <3>1, <4>1, <4>2, NoneAssumption
    <3>2. CASE class = "user"
      <4> DEFINE fields == NonNil(spec, {"description"}) \cup Diffed(spec, read, {"sam", "enabled"})
      <4>1. q = Payload(id, spec, read, fields, Differs(spec, read, "name"))
        BY <1>0, <3>2 DEF Updates, UserUpdate
      <4>2. fields \subseteq {"sam", "description", "enabled", "spns"} /\ \A f \in fields : spec[f] # None
        BY <1>4
      <4>3. Differs(spec, read, "name") => spec.name # None
        BY DEF Differs
      <4> HIDE DEF fields
      <4> QED
        BY <4>1, <4>2, <4>3
    <3>3. CASE class \in {"computer", "gmsa"}
      <4> DEFINE fields == NonNil(spec, {"description", "spns"}) \cup Diffed(spec, read, {"sam", "enabled"})
      <4>1. q = Payload(id, spec, read, fields, spec.name # read.name)
        BY <1>0, <3>3 DEF Updates, ComputerUpdate, GMSAUpdate
      <4>2. fields \subseteq {"sam", "description", "enabled", "spns"} /\ \A f \in fields : spec[f] # None
        BY <1>4
      <4> HIDE DEF fields
      <4> QED
        BY <1>1, <3>3, <4>1, <4>2, NoneAssumption
    <3> QED
      BY <1>6, <3>1, <3>2, <3>3 DEF Classes
  <2>2. /\ q.id = id /\ DOMAIN q.set = fields /\ \A f \in fields : q.set[f] = spec[f]
        /\ q.rename = (IF renamed THEN spec.name ELSE None)
        /\ q.move # None => q.move = spec.container
        /\ q.protect = None
    BY <1>3, <2>1
  <2> QED
    BY <1>1, <1>6, <2>1, <2>2 DEF PayloadTyped
<1> QED
  BY <1>0, <1>5, <1>6

(* Two objects with the same values in some fields. *)
Same(o, p, fields) == \A f \in fields : o[f] = p[f]
(* What a splat never sets. *)
Fixed == {"class", "member", "deleted"}

(* A sAMAccountName with its "$" is one, and ends in "$" for the classes   *)
(* that have it.                                                           *)
LEMMA SuffixedType ==
  ASSUME NEW class, NEW sam \in Seq(Texts)
  PROVE  /\ Suffixed(class, sam) \in Seq(Texts)
         /\ Suffixed(class, sam) = <<>> <=> sam = <<>>
         /\ class \in Suffixing /\ sam # <<>> => Last(Suffixed(class, sam)) = "$"
         /\ Suffixed(class, Suffixed(class, sam)) = Suffixed(class, sam)
<1>1. Append(sam, "$") \in Seq(Texts) /\ Append(sam, "$") # <<>> /\ Last(Append(sam, "$")) = "$"
  <2>1. "$" \in Texts
    BY TextsAssumption
  <2>2. /\ Append(sam, "$") \in Seq(Texts) /\ Append(sam, "$") # <<>>
        /\ Len(Append(sam, "$")) = Len(sam) + 1 /\ Append(sam, "$")[Len(sam) + 1] = "$"
    BY <2>1, AppendProperties
  <2> QED
    BY <2>2 DEF Last
<1>2. PICK t : t = Suffixed(class, sam)
  OBVIOUS
<1>3. CASE class \in Suffixing /\ sam # <<>> /\ Last(sam) # "$"
  <2>1. t = Append(sam, "$")
    BY <1>2, <1>3 DEF Suffixed
  <2>2. Suffixed(class, t) = t
    BY <1>1, <2>1 DEF Suffixed
  <2> QED
    BY <1>1, <1>2, <1>3, <2>1, <2>2
<1>4. CASE ~(class \in Suffixing /\ sam # <<>> /\ Last(sam) # "$")
  <2>1. t = sam
    BY <1>2, <1>4 DEF Suffixed
  <2> QED
    BY <1>2, <1>4, <2>1
<1> QED
  BY <1>3, <1>4

(* applySplat sets the fields of the splat, the sAMAccountName with its    *)
(* "$", and no other.                                                      *)
LEMMA SplatFacts ==
  ASSUME NEW o \in Objects, NEW s,
         DOMAIN s \subseteq {"sam", "description", "enabled", "spns", "protected"},
         "sam" \in DOMAIN s => s["sam"] \in Seq(Texts),
         "description" \in DOMAIN s => s["description"] \in Texts,
         "enabled" \in DOMAIN s => s["enabled"] \in BOOLEAN,
         "spns" \in DOMAIN s => s["spns"] \in SUBSET Texts,
         "protected" \in DOMAIN s => s["protected"] \in BOOLEAN,
         NEW p, p = ApplySplat(o, s)
  PROVE  /\ p \in Objects
         /\ \A f \in {"class", "name", "container", "member", "dacl", "passwords", "deleted"} : p[f] = o[f]
         /\ p.sam = IF "sam" \in DOMAIN s THEN Suffixed(o.class, s["sam"]) ELSE o.sam
         /\ \A f \in {"description", "enabled", "spns", "protected"} : p[f] = IF f \in DOMAIN s THEN s[f] ELSE o[f]
<1>1. /\ DOMAIN o = {"class", "name", "container", "sam", "description", "enabled", "spns", "protected",
                     "member", "dacl", "passwords", "deleted"}
  BY DEF Objects
<1>2. /\ DOMAIN p = DOMAIN o
      /\ \A f \in DOMAIN o : p[f] = IF f \notin DOMAIN s THEN o[f]
                      ELSE IF f = "sam" THEN Suffixed(o.class, s[f]) ELSE s[f]
      /\ p = [f \in DOMAIN p |-> p[f]]
  BY DEF ApplySplat
<1>3. /\ \A f \in {"class", "name", "container", "member", "dacl", "passwords", "deleted"} : p[f] = o[f]
      /\ p.sam = IF "sam" \in DOMAIN s THEN Suffixed(o.class, s["sam"]) ELSE o.sam
      /\ \A f \in {"description", "enabled", "spns", "protected"} : p[f] = IF f \in DOMAIN s THEN s[f] ELSE o[f]
  BY <1>1, <1>2
<1>4. p \in Objects
  <2>1. p.sam \in Seq(Texts)
    BY <1>3, SuffixedType DEF Objects
  <2>2. /\ p.class \in Classes /\ p.name \in Texts /\ p.container \in DNs /\ p.description \in Texts
        /\ p.enabled \in BOOLEAN /\ p.spns \in SUBSET Texts /\ p.protected \in BOOLEAN /\ p.member \in SUBSET GUIDs
        /\ p.dacl \in Seq(Aces) /\ p.passwords \in Seq(Texts) /\ p.deleted \in BOOLEAN
    BY <1>3 DEF Objects
  <2> QED
    BY <1>1, <1>2, <2>1, <2>2 DEF Objects
<1> QED
  BY <1>3, <1>4

(* Live, used, found: from the object an identity names to the directory. *)
LEMMA FindFacts ==
  ASSUME NEW d, NEW id
  PROVE  Find(d, id) \subseteq Live(d) /\ Live(d) \subseteq Used(d) /\ Used(d) \subseteq GUIDs
         /\ \A g \in Live(d) : d[g] # None /\ ~d[g].deleted
BY DEF Find, Live, Used

(* What is used is an object. *)
LEMMA ObjectFields ==
  ASSUME NEW d \in Directories, NEW g \in Used(d)
  PROVE  d[g] \in Objects
BY DEF Directories, Used

(* What an update makes of the object it finds. *)
Updated(o, p, q) ==
  /\ p.name = IF q.rename = None THEN o.name ELSE q.rename
  /\ p.container = IF q.move = None THEN o.container ELSE q.move
  /\ p.protected = IF q.protect # None THEN q.protect ELSE IF q.move # None /\ q.unprotect THEN FALSE ELSE o.protected
  /\ \A f \in {"description", "enabled", "spns"} : p[f] = IF f \in DOMAIN q.set THEN q.set[f] ELSE o[f]

(* An update finds nothing, or writes what it sets over one object; refused, it may have written part. *)
UpdateWritten(d, q, r) ==
  \/ r.dir = d /\ r.err = "notFound"
  \/ \E g \in Find(d, q.id), p \in Objects :
       /\ r.dir = [d EXCEPT ![g] = p] /\ r.err \in {"ok", "denied"}
       /\ Same(p, d[g], {"class", "member", "deleted", "dacl", "passwords"})
       /\ p.sam = IF "sam" \in DOMAIN q.set THEN Suffixed(d[g].class, q.set["sam"]) ELSE d[g].sam
       /\ r.err = "ok" => r.data = g /\ Updated(d[g], p, q)

(* Every answer of handleUpdate, whatever the payload sets, is such a      *)
(* write.                                                                  *)
LEMMA UpdateResponse ==
  ASSUME NEW d \in Directories, NEW class, NEW id, NEW spec, spec.sam \in Seq(Texts),
         NEW q, PayloadTyped(q, class, id, spec), NEW r \in HandleUpdate(d, q)
  PROVE  UpdateWritten(d, q, r)
<1>0. /\ DOMAIN q.set \subseteq {"sam", "description", "enabled", "spns"}
      /\ "sam" \in DOMAIN q.set => q.set["sam"] \in Seq(Texts)
      /\ "description" \in DOMAIN q.set => q.set["description"] \in Texts
      /\ "enabled" \in DOMAIN q.set => q.set["enabled"] \in BOOLEAN
      /\ "spns" \in DOMAIN q.set => q.set["spns"] \in SUBSET Texts
      /\ q.rename # None => q.rename \in Texts
      /\ q.move # None => q.move \in DNs
      /\ q.protect # None => q.protect \in BOOLEAN
  BY DEF PayloadTyped
<1>1. CASE Find(d, q.id) = {}
  BY <1>1 DEF HandleUpdate, OnFound, Response, UpdateWritten
<1>2. CASE Find(d, q.id) # {}
  <2>1. PICK g \in Find(d, q.id) :
          r = LET o1 == ApplySplat(d[g], q.set)
                  o2 == IF q.rename = None THEN o1 ELSE [o1 EXCEPT !.name = q.rename]
                  o3 == IF q.move # None /\ q.unprotect THEN [o2 EXCEPT !.protected = FALSE] ELSE o2
                  o4 == IF q.move = None THEN o3 ELSE [o3 EXCEPT !.container = q.move]
              IN IF q.move # None /\ o3.protected THEN Response([d EXCEPT ![g] = o3], "denied", None)
                 ELSE Response([d EXCEPT ![g] = IF q.protect = None THEN o4 ELSE [o4 EXCEPT !.protected = q.protect]],
                               "ok", g)
    BY <1>2 DEF HandleUpdate, OnFound
  <2>2. d[g] \in Objects
    BY FindFacts, ObjectFields
  <2>3. PICK o : o = d[g]
    OBVIOUS
  <2>4. PICK o1 : o1 = ApplySplat(o, q.set)
    OBVIOUS
  <2>5. /\ o1 \in Objects
        /\ \A f \in {"class", "name", "container", "member", "dacl", "passwords", "deleted"} : o1[f] = o[f]
        /\ o1.sam = IF "sam" \in DOMAIN q.set THEN Suffixed(o.class, q.set["sam"]) ELSE o.sam
        /\ \A f \in {"description", "enabled", "spns"} : o1[f] = IF f \in DOMAIN q.set THEN q.set[f] ELSE o[f]
        /\ o1.protected = o.protected
    BY <1>0, <2>2, <2>3, <2>4, SplatFacts
  <2>6. PICK o2 : o2 = IF q.rename = None THEN o1 ELSE [o1 EXCEPT !.name = q.rename]
    OBVIOUS
  <2>7. /\ o2 \in Objects
        /\ \A f \in {"class", "container", "sam", "description", "enabled", "spns", "protected", "member", "dacl",
                     "passwords", "deleted"} : o2[f] = o1[f]
        /\ o2.name = IF q.rename = None THEN o.name ELSE q.rename
    BY <1>0, <2>5, <2>6 DEF Objects
  <2>8. PICK o3 : o3 = IF q.move # None /\ q.unprotect THEN [o2 EXCEPT !.protected = FALSE] ELSE o2
    OBVIOUS
  <2>9. /\ o3 \in Objects
        /\ \A f \in {"class", "container", "sam", "description", "enabled", "spns", "name", "member", "dacl",
                     "passwords", "deleted"} : o3[f] = o2[f]
        /\ o3.protected = IF q.move # None /\ q.unprotect THEN FALSE ELSE o.protected
    BY <2>5, <2>7, <2>8 DEF Objects
  <2>10. PICK o4 : o4 = IF q.move = None THEN o3 ELSE [o3 EXCEPT !.container = q.move]
    OBVIOUS
  <2>11. /\ o4 \in Objects
        /\ \A f \in {"class", "protected", "sam", "description", "enabled", "spns", "name", "member", "dacl",
                     "passwords", "deleted"} : o4[f] = o3[f]
        /\ o4.container = IF q.move = None THEN o.container ELSE q.move
    BY <1>0, <2>5, <2>7, <2>9, <2>10 DEF Objects
  <2>12. PICK o5 : o5 = IF q.protect = None THEN o4 ELSE [o4 EXCEPT !.protected = q.protect]
    OBVIOUS
  <2>13. /\ o5 \in Objects
         /\ \A f \in {"class", "container", "sam", "description", "enabled", "spns", "name", "member", "dacl",
                     "passwords", "deleted"} : o5[f] = o4[f]
         /\ o5.protected = IF q.protect # None THEN q.protect ELSE o3.protected
    BY <1>0, <2>11, <2>12 DEF Objects
  <2>14. /\ Same(o3, o, {"class", "member", "deleted", "dacl", "passwords"}) /\ o3.sam = o1.sam
         /\ Same(o5, o, {"class", "member", "deleted", "dacl", "passwords"}) /\ o5.sam = o1.sam
         /\ Updated(o, o5, q)
    BY <2>5, <2>7, <2>9, <2>11, <2>13 DEF Same, Updated
  <2>15. r = IF q.move # None /\ o3.protected THEN Response([d EXCEPT ![g] = o3], "denied", None)
             ELSE Response([d EXCEPT ![g] = o5], "ok", g)
    BY <2>1, <2>3, <2>4, <2>6, <2>8, <2>10, <2>12
  <2>16. CASE q.move # None /\ o3.protected
    <3>1. r.dir = [d EXCEPT ![g] = o3] /\ r.err = "denied"
      BY <2>15, <2>16 DEF Response
    <3>2. o3.sam = IF "sam" \in DOMAIN q.set THEN Suffixed(d[g].class, q.set["sam"]) ELSE d[g].sam
      BY <2>3, <2>5, <2>14
    <3>3. o3 \in Objects /\ Same(o3, d[g], {"class", "member", "deleted", "dacl", "passwords"})
      BY <2>3, <2>9, <2>14
    <3>4. r.err # "ok"
      BY <3>1
    <3> QED
      BY <3>1, <3>2, <3>3, <3>4 DEF UpdateWritten
  <2>17. CASE ~(q.move # None /\ o3.protected)
    <3>1. r.dir = [d EXCEPT ![g] = o5] /\ r.err = "ok" /\ r.data = g
      BY <2>15, <2>17 DEF Response
    <3> QED
      BY <2>3, <2>5, <2>13, <2>14, <3>1 DEF UpdateWritten
  <2> QED
    BY <2>16, <2>17
<1> QED
  BY <1>1, <1>2
-----------------------------------------------------------------------------
(* A subsequence: an element of s for each place kept, no place twice. *)
LEMMA SubsequenceFacts ==
  ASSUME NEW S, NEW s \in Seq(S), NEW keep, keep \subseteq DOMAIN s,
         NEW t, t = Subsequence(s, keep)
  PROVE  /\ t \in Seq(S)
         /\ \A m, n \in DOMAIN t : \E i, j \in keep : t[m] = s[i] /\ t[n] = s[j] /\ (m # n => i # j)
<1> DEFINE upto(i) == {j \in keep : j <= i}
           N == Cardinality(keep)
           f == [i \in keep |-> Cardinality(upto(i))]
<1>1. IsFiniteSet(keep) /\ N \in Nat /\ keep \subseteq Nat /\ keep \subseteq 1..Len(s)
  <2>1. DOMAIN s = 1..Len(s) /\ Len(s) \in Nat
    OBVIOUS
  <2>2. IsFiniteSet(1..Len(s))
    BY <2>1, FS_Interval
  <2>3. IsFiniteSet(keep)
    BY <2>1, <2>2, FS_Subset
  <2> QED
    BY <2>1, <2>3, FS_CardinalityType
<1>2. ASSUME NEW i \in keep
      PROVE  upto(i) \subseteq keep /\ i \in upto(i) /\ IsFiniteSet(upto(i)) /\ Cardinality(upto(i)) \in 1..N
  <2>1. upto(i) \subseteq keep /\ i \in upto(i)
    BY <1>1
  <2>2. IsFiniteSet(upto(i)) /\ Cardinality(upto(i)) <= N
    BY <1>1, <2>1, FS_Subset
  <2>3. Cardinality(upto(i)) \in Nat /\ Cardinality(upto(i)) # 0
    BY <2>1, <2>2, FS_CardinalityType, FS_EmptySet
  <2> QED
    BY <1>1, <2>1, <2>2, <2>3
<1>3. ASSUME NEW i \in keep, NEW j \in keep, i < j PROVE Cardinality(upto(i)) # Cardinality(upto(j))
  <2>1. upto(i) \subseteq upto(j) /\ j \notin upto(i) /\ j \in upto(j)
    BY <1>1, <1>3
  <2> HIDE DEF upto
  <2> QED
    BY <1>2, <2>1, FS_Subset
<1> HIDE DEF upto, N
<1>4. f \in Injection(keep, 1..N)
  <2>1. f \in [keep -> 1..N]
    BY <1>2
  <2>2. ASSUME NEW i \in keep, NEW j \in keep, f[i] = f[j] PROVE i = j
    <3>1. i < j \/ j < i \/ i = j
      BY <1>1
    <3> QED
      BY <1>3, <2>2, <3>1
  <2> QED
    BY <2>1, <2>2 DEF Injection, IsInjective
<1>5. f \in Surjection(keep, 1..N)
  <2>1. IsFiniteSet(1..N) /\ Cardinality(1..N) = N
    BY <1>1, FS_Interval
  <2> QED
    BY <1>4, <2>1, FS_Injection DEF N
<1>6. \A n \in 1..N : \E i \in keep : Cardinality(upto(i)) = n
  BY <1>5 DEF Surjection
<1> DEFINE place(n) == CHOOSE i \in keep : Cardinality(upto(i)) = n
<1>7. \A n \in 1..N : place(n) \in keep /\ Cardinality(upto(place(n))) = n
  BY <1>6
<1>8. t = [n \in 1..N |-> s[place(n)]]
  BY DEF Subsequence, N, upto
<1> HIDE DEF place
<1>9. \A n \in 1..N : s[place(n)] \in S
  BY <1>1, <1>7
<1>10. t \in Seq(S)
  <2>1. t \in [1..N -> S]
    BY <1>8, <1>9
  <2>2. Seq(S) = UNION {[1..n -> S] : n \in Nat}
    BY SeqDef
  <2> QED
    BY <1>1, <2>1, <2>2, Zenon
<1>11. ASSUME NEW m \in DOMAIN t, NEW n \in DOMAIN t
       PROVE  \E i, j \in keep : t[m] = s[i] /\ t[n] = s[j] /\ (m # n => i # j)
  <2>1. m \in 1..N /\ n \in 1..N /\ t[m] = s[place(m)] /\ t[n] = s[place(n)]
    BY <1>8
  <2>2. place(m) \in keep /\ place(n) \in keep /\ (m # n => place(m) # place(n))
    BY <1>7, <2>1
  <2> QED
    BY <2>1, <2>2
<1> QED
  BY <1>10, <1>11

(* The query of a create has the typed parameters of its spec. *)
LEMMA QueryFacts ==
  ASSUME NEW class \in Classes, NEW spec \in Specs(class), NEW q, q = Creates(class, spec)
  PROVE  /\ q.class = class /\ q.name \in Texts /\ q.container \in DNs
         /\ q.password = None \/ q.password \in Texts
         /\ "sam" \in DOMAIN q.splat /\ q.splat["sam"] = spec.sam
         /\ DOMAIN q.splat \subseteq {"sam", "description", "enabled", "spns", "protected"}
         /\ "description" \in DOMAIN q.splat => q.splat["description"] \in Texts
         /\ "enabled" \in DOMAIN q.splat => q.splat["enabled"] \in BOOLEAN
         /\ "spns" \in DOMAIN q.splat => q.splat["spns"] \in SUBSET Texts
         /\ "protected" \in DOMAIN q.splat => q.splat["protected"] \in BOOLEAN
<1>1. /\ spec.container \in DNs
      /\ spec.name # None => spec.name \in Texts
      /\ class # "user" => spec.name \in Texts
      /\ spec.sam \in Seq(Texts)
      /\ class = "ou" => spec.sam = <<>>
      /\ class # "ou" => spec.sam # <<>>
      /\ spec.description # None => spec.description \in Texts
      /\ spec.enabled # None => spec.enabled \in BOOLEAN
      /\ spec.spns # None => spec.spns \in SUBSET Texts
      /\ spec.protected # None => spec.protected \in BOOLEAN
      /\ spec.password # None => spec.password \in Texts
  BY SpecFacts
<1>2. PICK name, fields, password :
        /\ name \in Texts /\ (password = None \/ password \in Texts)
        /\ fields \subseteq {"description", "enabled", "spns", "protected"}
        /\ \/ q = CreateQuery(class, name, spec, fields) /\ password = None
           \/ q = [CreateQuery(class, name, spec, fields) EXCEPT !.password = password]
  <2>1. CASE class = "user"
    <3>1. q = [CreateQuery("user", IF spec.name = None THEN Head(spec.sam) ELSE spec.name, spec, {"description", "enabled"})
                EXCEPT !.password = spec.password]
      BY <2>1 DEF Creates, UserCreate
    <3>2. Head(spec.sam) \in Texts
      BY <1>1, <2>1
    <3>3. PICK name \in Texts : name = IF spec.name = None THEN Head(spec.sam) ELSE spec.name
      BY <1>1, <3>2
    <3>4. PICK fields : fields = {"description", "enabled"}
      OBVIOUS
    <3>5. q = [CreateQuery(class, name, spec, fields) EXCEPT !.password = spec.password]
      BY <2>1, <3>1, <3>3, <3>4
    <3>6. fields \subseteq {"description", "enabled", "spns", "protected"}
      BY <3>4
    <3>7. spec.password = None \/ spec.password \in Texts
      BY <1>1
    <3> WITNESS name, fields, spec.password
    <3> QED
      BY <3>3, <3>5, <3>6, <3>7
  <2>2. CASE class # "user"
    <3>1. \E fields : /\ q = CreateQuery(class, spec.name, spec, fields)
                      /\ fields \subseteq {"description", "enabled", "spns", "protected"}
      <4>1. CASE class = "ou"
        BY <4>1 DEF Creates, OUCreate
      <4>2. CASE class = "group"
        BY <4>2 DEF Creates, GroupCreate
      <4>3. CASE class = "computer"
        BY <4>3 DEF Creates, ComputerCreate
      <4>4. CASE class = "gmsa"
        BY <4>4 DEF Creates, GMSACreate
      <4> QED
        BY <2>2, <4>1, <4>2, <4>3, <4>4 DEF Classes
    <3> QED
      BY <1>1, <2>2, <3>1
  <2> QED
    BY <2>1, <2>2
<1>3. /\ q.class = class /\ q.name = name /\ q.container = spec.container /\ q.password = password
      /\ q.splat = [f \in {"sam"} \cup Given(spec, fields) |-> spec[f]]
  <2>1. CASE q = CreateQuery(class, name, spec, fields) /\ password = None
    BY <2>1 DEF CreateQuery
  <2>2. CASE q = [CreateQuery(class, name, spec, fields) EXCEPT !.password = password]
    BY <2>2 DEF CreateQuery
  <2> QED
    BY <1>2, <2>1, <2>2
<1>4. \A f \in Given(spec, fields) : f \in fields /\ spec[f] # None
  BY DEF Given, NonNil
<1>5. /\ "sam" \in DOMAIN q.splat /\ q.splat["sam"] = spec.sam
      /\ DOMAIN q.splat \subseteq {"sam", "description", "enabled", "spns", "protected"}
      /\ \A f \in DOMAIN q.splat \ {"sam"} : q.splat[f] = spec[f] /\ spec[f] # None
  BY <1>1, <1>2, <1>3, <1>4
<1> QED
  BY <1>1, <1>2, <1>3, <1>5

(* The object a create starts from. *)
LEMMA NewObjectFacts ==
  ASSUME NEW class \in Classes, NEW name \in Texts, NEW container \in DNs
  PROVE  /\ NewObject(class, name, container) \in Objects
         /\ LET o == NewObject(class, name, container) IN
            o.class = class /\ o.name = name /\ o.container = container /\ o.member = {} /\ ~o.deleted /\ o.dacl = <<>>
<1>1. "" \in Texts
  BY TextsAssumption
<1>2. PICK o : o = NewObject(class, name, container)
  OBVIOUS
<1>3. /\ DOMAIN o = {"class", "name", "container", "sam", "description", "enabled", "spns", "protected",
                     "member", "dacl", "passwords", "deleted"}
      /\ o = [f \in DOMAIN o |-> o[f]]
      /\ o.class = class /\ o.name = name /\ o.container = container /\ o.sam = <<>> /\ o.description = ""
      /\ o.spns = {} /\ o.member = {} /\ o.dacl = <<>> /\ o.passwords = <<>> /\ o.deleted = FALSE
  BY <1>2 DEF NewObject
<1>4. o.enabled = (class \in Suffixing)
  BY <1>2 DEF NewObject
<1>5. o.protected = (class = "ou")
  BY <1>2 DEF NewObject
<1>10. o.enabled \in BOOLEAN
  BY <1>4
<1>11. o.protected \in BOOLEAN
  BY <1>5
<1>6. o.sam \in Seq(Texts) /\ o.dacl \in Seq(Aces) /\ o.passwords \in Seq(Texts)
  <2>1. <<>> \in Seq(Texts)
    OBVIOUS
  <2>2. <<>> \in Seq(Aces)
    OBVIOUS
  <2> QED
    BY <1>3, <2>1, <2>2, Zenon
<1>7. /\ o.class \in Classes /\ o.name \in Texts /\ o.container \in DNs /\ o.description \in Texts
      /\ o.spns \in SUBSET Texts /\ o.member \in SUBSET GUIDs /\ o.deleted \in BOOLEAN
  BY <1>1, <1>3
<1>8. /\ DOMAIN o = {"class", "name", "container", "sam", "description", "enabled", "spns", "protected",
                     "member", "dacl", "passwords", "deleted"}
      /\ o = [f \in DOMAIN o |-> o[f]]
  BY <1>3
<1>9. o \in Objects
  BY <1>6, <1>7, <1>8, <1>10, <1>11 DEF Objects
<1> QED
  BY <1>2, <1>3, <1>9
(* A create finds something in its way, or adds an object that shares no name with another. *)
CreateWritten(d, class, r) ==
  \/ r.dir = d /\ r.err = "alreadyExists"
  \/ \E new \in GUIDs \ Used(d), o \in Objects :
       /\ r.err = "ok" /\ r.data = new /\ r.dir = [d EXCEPT ![new] = o]
       /\ Used(d) \cup {new} = 1..(Cardinality(Used(d)) + 1)
       /\ o.class = class /\ o.member = {} /\ ~o.deleted /\ o.dacl = <<>> /\ WellFormed(o)
       /\ \A h \in Used(d) : DN(d[h]) # DN(o) /\ ~SameSam(d[h], o.sam)

(* handleCreate refuses, or adds an object that shares neither name nor    *)
(* account with one that is there.                                         *)
LEMMA CreateResponse ==
  ASSUME NEW d \in Directories, Used(d) = 1..Cardinality(Used(d)), Cardinality(Used(d)) < MaxObjects,
         NEW class \in Classes, NEW spec \in Specs(class),
         NEW r \in HandleCreate(d, Creates(class, spec))
  PROVE  CreateWritten(d, class, r)
<1>1. PICK q : q = Creates(class, spec)
  OBVIOUS
<1>2. /\ q.class = class /\ q.name \in Texts /\ q.container \in DNs
      /\ q.password = None \/ q.password \in Texts
      /\ "sam" \in DOMAIN q.splat /\ q.splat["sam"] = spec.sam
      /\ DOMAIN q.splat \subseteq {"sam", "description", "enabled", "spns", "protected"}
      /\ "description" \in DOMAIN q.splat => q.splat["description"] \in Texts
      /\ "enabled" \in DOMAIN q.splat => q.splat["enabled"] \in BOOLEAN
      /\ "spns" \in DOMAIN q.splat => q.splat["spns"] \in SUBSET Texts
      /\ "protected" \in DOMAIN q.splat => q.splat["protected"] \in BOOLEAN
  BY <1>1, QueryFacts
<1>3. /\ spec.sam \in Seq(Texts)
      /\ class = "ou" => spec.sam = <<>>
      /\ class # "ou" => spec.sam # <<>> /\ Last(spec.sam) # "$"
  BY SpecFacts
<1>4. PICK sam : sam = CreateSam(q.class, q.name, q.splat.sam)
  OBVIOUS
<1>5. /\ sam = Suffixed(class, spec.sam) /\ sam \in Seq(Texts) /\ Suffixed(class, sam) = sam
      /\ sam = <<>> <=> class = "ou"
      /\ class \in Suffixing => Last(sam) = "$"
  <2>1. sam = Suffixed(class, spec.sam)
    BY <1>2, <1>3, <1>4 DEF CreateSam
  <2>2. class \in Suffixing => class # "ou"
    BY DEF Suffixing
  <2> QED
    BY <1>3, <2>1, <2>2, SuffixedType
<1>6. PICK o0 : o0 = NewObject(q.class, q.name, q.container)
  OBVIOUS
<1>7. /\ o0 \in Objects
      /\ o0.class = class /\ o0.name = q.name /\ o0.container = q.container /\ o0.member = {} /\ ~o0.deleted /\ o0.dacl = <<>>
  BY <1>2, <1>6, NewObjectFacts
<1>8. PICK splat : splat = [q.splat EXCEPT !.sam = sam]
  OBVIOUS
<1>9. /\ DOMAIN splat = DOMAIN q.splat /\ splat["sam"] = sam
      /\ \A f \in DOMAIN splat \ {"sam"} : splat[f] = q.splat[f]
  BY <1>2, <1>8
<1>10. PICK o1 : o1 = ApplySplat(o0, splat)
  OBVIOUS
<1>11. /\ o1 \in Objects
       /\ \A f \in {"class", "name", "container", "member", "dacl", "passwords", "deleted"} : o1[f] = o0[f]
       /\ o1.sam = sam
  <2>1. /\ DOMAIN splat \subseteq {"sam", "description", "enabled", "spns", "protected"}
        /\ "sam" \in DOMAIN splat /\ splat["sam"] \in Seq(Texts)
        /\ "description" \in DOMAIN splat => splat["description"] \in Texts
        /\ "enabled" \in DOMAIN splat => splat["enabled"] \in BOOLEAN
        /\ "spns" \in DOMAIN splat => splat["spns"] \in SUBSET Texts
        /\ "protected" \in DOMAIN splat => splat["protected"] \in BOOLEAN
    BY <1>2, <1>5, <1>9
  <2>2. /\ o1 \in Objects
        /\ \A f \in {"class", "name", "container", "member", "dacl", "passwords", "deleted"} : o1[f] = o0[f]
        /\ o1.sam = IF "sam" \in DOMAIN splat THEN Suffixed(o0.class, splat["sam"]) ELSE o0.sam
    BY <1>7, <1>10, <2>1, SplatFacts
  <2> QED
    BY <1>5, <1>7, <1>9, <2>1, <2>2
<1>12. PICK o : o = [o1 EXCEPT !.passwords = IF q.password = None THEN <<>> ELSE <<q.password>>]
  OBVIOUS
<1>13. /\ o \in Objects
       /\ o.class = class /\ o.name = q.name /\ o.container = q.container /\ o.member = {} /\ ~o.deleted /\ o.dacl = <<>>
       /\ o.sam = sam
  <2>1. (IF q.password = None THEN <<>> ELSE <<q.password>>) \in Seq(Texts)
    BY <1>2
  <2>2. o \in Objects
    BY <1>11, <1>12, <2>1 DEF Objects
  <2> QED
    BY <1>7, <1>11, <1>12, <2>2 DEF Objects
<1>14. WellFormed(o)
  <2>1. /\ o.class \in Classes /\ o.protected \in BOOLEAN /\ o.enabled \in BOOLEAN /\ o.deleted \in BOOLEAN
    BY <1>13 DEF Objects
  <2> QED
    BY <1>5, <1>13, <2>1 DEF WellFormed
<1>15. PICK new : new = Cardinality(Used(d)) + 1
  OBVIOUS
<1>16. new \in GUIDs \ Used(d) /\ Used(d) \cup {new} = 1..(Cardinality(Used(d)) + 1)
  <2>1. Cardinality(Used(d)) \in Nat
    <3>1. IsFiniteSet(GUIDs) /\ Used(d) \subseteq GUIDs
      <4>1. IsFiniteSet(1..MaxObjects)
        BY FS_Interval, MaxObjectsAssumption
      <4> QED
        BY <4>1 DEF GUIDs, Used
    <3> QED
      BY <3>1, FS_Subset, FS_CardinalityType
  <2>2. PICK n \in Nat : n = Cardinality(Used(d))
    BY <2>1
  <2>3. Used(d) = 1..n /\ new = n + 1 /\ n < MaxObjects
    BY <1>15, <2>2
  <2>4. new \in 1..MaxObjects /\ new \notin 1..n /\ (1..n) \cup {new} = 1..(n + 1)
    BY <2>3, MaxObjectsAssumption
  <2> QED
    BY <2>2, <2>3, <2>4 DEF GUIDs
<1>17. PICK blocking : blocking = {g \in Used(d) : BlocksCreate(d[g], q.class, BuildDN(q.class, q.name, q.container), sam)}
  OBVIOUS
<1>18. r \in IF blocking # {} THEN {Response(d, "alreadyExists", g) : g \in blocking}
             ELSE {Response([d EXCEPT ![new] = o], "ok", new)}
  BY <1>1, <1>4, <1>6, <1>8, <1>10, <1>12, <1>15, <1>17 DEF HandleCreate
<1>19. CASE blocking # {}
  BY <1>18, <1>19 DEF Response, CreateWritten
<1>20. CASE blocking = {}
  <2>1. r.err = "ok" /\ r.data = new /\ r.dir = [d EXCEPT ![new] = o]
    BY <1>18, <1>20 DEF Response
  <2>2. DN(o) = BuildDN(q.class, q.name, q.container)
    BY <1>2, <1>13 DEF DN
  <2>3. ASSUME NEW h \in Used(d) PROVE DN(d[h]) # DN(o) /\ ~SameSam(d[h], o.sam)
    <3>1. ~BlocksCreate(d[h], q.class, BuildDN(q.class, q.name, q.container), sam)
      BY <1>17, <1>20
    <3>2. DN(d[h]) # DN(o) /\ ~(SameSam(d[h], sam) /\ (d[h].deleted \/ class # "ou"))
      BY <1>2, <2>2, <3>1 DEF BlocksCreate
    <3>3. class = "ou" => ~SameSam(d[h], sam)
      BY <1>5 DEF SameSam
    <3> QED
      BY <1>13, <3>2, <3>3
  <2> QED
    BY <1>13, <1>14, <1>16, <2>1, <2>3 DEF CreateWritten
<1> QED
  BY <1>19, <1>20

(* Two objects that differ at most in some fields. *)
Attributes == {"class", "name", "container", "sam", "description", "enabled", "spns", "protected",
               "member", "dacl", "passwords", "deleted"}
(* As many as are not named stay the same. *)
SameBut(p, o, fields) == Same(p, o, Attributes \ fields)

(* A deletion marks the object it finds, and an OU's deletion lifts its protection too. *)
DeleteWritten(d, id, r) ==
  \/ r.dir = d /\ r.err # "ok"
  \/ r.err = "ok" /\ \E g \in Find(d, id), p \in Objects :
       r.dir = [d EXCEPT ![g] = p] /\ SameBut(p, d[g], {"deleted", "protected"}) /\ p.deleted

(* Every answer of handleDelete and of handleOUDelete is such a write. *)
LEMMA DeleteResponse ==
  ASSUME NEW d \in Directories, NEW q, NEW r \in HandleDelete(d, q) \cup HandleOUDelete(d, q)
  PROVE  DeleteWritten(d, q.id, r)
<1>1. CASE Find(d, q.id) = {}
  BY <1>1 DEF HandleDelete, HandleOUDelete, OnFound, Response, DeleteWritten
<1>2. CASE Find(d, q.id) # {} /\ r \in HandleDelete(d, q)
  <2>1. PICK g \in Find(d, q.id) : r = Response([d EXCEPT ![g].deleted = TRUE], "ok", g)
    BY <1>2 DEF HandleDelete, OnFound
  <2>2. d[g] \in Objects
    BY FindFacts, ObjectFields
  <2>3. PICK p : p = [d[g] EXCEPT !.deleted = TRUE]
    OBVIOUS
  <2>4. r.dir = [d EXCEPT ![g] = p] /\ r.err = "ok"
    BY <2>1, <2>3 DEF Response
  <2>5. p \in Objects /\ p.deleted
    BY <2>2, <2>3 DEF Objects
  <2>6. SameBut(p, d[g], {"deleted", "protected"})
    BY <2>2, <2>3 DEF Objects, SameBut, Same, Attributes
  <2> QED
    BY <2>4, <2>5, <2>6 DEF DeleteWritten
<1>3. CASE Find(d, q.id) # {} /\ r \in HandleOUDelete(d, q)
  <2>1. PICK g \in Find(d, q.id) : \/ r \in {Response(d, "children", None), Response(d, "denied", None)}
                                   \/ r = Response([d EXCEPT ![g].protected = FALSE, ![g].deleted = TRUE], "ok", g)
    BY <1>3 DEF HandleOUDelete, OnFound
  <2>2. d[g] \in Objects
    BY FindFacts, ObjectFields
  <2>3. CASE r \in {Response(d, "children", None), Response(d, "denied", None)}
    BY <2>3 DEF Response, DeleteWritten
  <2>4. CASE r = Response([d EXCEPT ![g].protected = FALSE, ![g].deleted = TRUE], "ok", g)
    <3>1. PICK o : o = [d[g] EXCEPT !.protected = FALSE]
      OBVIOUS
    <3>2. PICK p : p = [o EXCEPT !.deleted = TRUE]
      OBVIOUS
    <3>3. d \in [GUIDs -> Objects \cup {None}] /\ g \in GUIDs
      BY FindFacts DEF Directories
    <3>4. r.dir = [d EXCEPT ![g] = p] /\ r.err = "ok"
      BY <2>4, <3>1, <3>2, <3>3 DEF Response
    <3>5. p \in Objects /\ p.deleted
      BY <2>2, <3>1, <3>2 DEF Objects
    <3>6. SameBut(p, d[g], {"deleted", "protected"})
      BY <2>2, <3>1, <3>2 DEF Objects, SameBut, Same, Attributes
    <3> QED
      BY <3>4, <3>5, <3>6 DEF DeleteWritten
  <2> QED
    BY <2>1, <2>3, <2>4
<1> QED
  BY <1>1, <1>2, <1>3

(* A password is added to the account it is set on. *)
LEMMA PasswordResponse ==
  ASSUME NEW d \in Directories, NEW q, q.password \in Texts, NEW r \in HandleSetPassword(d, q)
  PROVE  \/ r.dir = d
         \/ \E g \in Find(d, q.id), p \in Objects :
              r.dir = [d EXCEPT ![g] = p] /\ SameBut(p, d[g], {"passwords"})
<1>1. CASE Find(d, q.id) = {}
  BY <1>1 DEF HandleSetPassword, OnFound, Response
<1>2. CASE Find(d, q.id) # {}
  <2>1. PICK g \in Find(d, q.id) : r = Response([d EXCEPT ![g].passwords = Append(@, q.password)], "ok", g)
    BY <1>2 DEF HandleSetPassword, OnFound
  <2>2. d[g] \in Objects
    BY FindFacts, ObjectFields
  <2>3. PICK ps : ps = Append(d[g].passwords, q.password)
    OBVIOUS
  <2>4. ps \in Seq(Texts)
    BY <2>2, <2>3 DEF Objects
  <2>5. PICK p : p = [d[g] EXCEPT !.passwords = ps]
    OBVIOUS
  <2>6. r.dir = [d EXCEPT ![g] = p]
    BY <2>1, <2>3, <2>5 DEF Response
  <2>7. p \in Objects
    BY <2>2, <2>4, <2>5 DEF Objects
  <2>8. SameBut(p, d[g], {"passwords"})
    BY <2>2, <2>5 DEF Objects, SameBut, Same, Attributes
  <2> QED
    BY <2>6, <2>7, <2>8
<1> QED
  BY <1>1, <1>2

(* Live objects that hold one for each name, and nothing else. *)
Naming(d, names, named) ==
  /\ named \subseteq UNION {Find(d, m) : m \in names}
  /\ \A m \in names : Find(d, m) \cap named # {}
(* An addition puts the named objects into the set of one group, a removal *)
(* takes them out, and neither does anything when a name is unknown.       *)
MembersWritten(d, q, r, op) ==
  \/ /\ r.dir = d /\ r.err = "notFound"
     /\ Find(d, q.id) = {} \/ \E m \in q.members : Find(d, m) = {}
  \/ /\ r.err = "ok"
     /\ \E g \in Find(d, q.id), p \in Objects, named \in SUBSET Live(d) :
          /\ r.dir = [d EXCEPT ![g] = p] /\ SameBut(p, d[g], {"member"}) /\ Naming(d, q.members, named)
          /\ op = "addMembers" => p.member = d[g].member \cup named
          /\ op = "removeMembers" => p.member = d[g].member \ named

(* handleMembersAdd only adds and handleMembersRemove only takes out, over *)
(* one object, all of what is named.                                       *)
LEMMA MembersResponse ==
  ASSUME NEW d \in Directories, NEW q, NEW op \in {"addMembers", "removeMembers"},
         NEW r, (op = "addMembers" /\ r \in HandleMembersAdd(d, q))
                \/ (op = "removeMembers" /\ r \in HandleMembersRemove(d, q))
  PROVE  MembersWritten(d, q, r, op)
<1>1. CASE Find(d, q.id) = {}
  BY <1>1 DEF HandleMembersAdd, HandleMembersRemove, HandleMembers, OnFound, Response, MembersWritten
<1>2. CASE \E m \in q.members : Find(d, m) = {}
  BY <1>2 DEF HandleMembersAdd, HandleMembersRemove, HandleMembers, OnFound, Response, MembersWritten
<1>3. CASE Find(d, q.id) # {} /\ ~\E m \in q.members : Find(d, m) = {}
  <2>1. PICK f, g, new :
          /\ f \in [q.members -> GUIDs] /\ g \in Find(d, q.id)
          /\ \A m \in q.members : f[m] \in Find(d, m)
          /\ r = Response([d EXCEPT ![g].member = new], "ok", g)
          /\ op = "addMembers" => new = d[g].member \cup {f[m] : m \in q.members}
          /\ op = "removeMembers" => new = d[g].member \ {f[m] : m \in q.members}
    <3>1. CASE op = "addMembers"
      <4>1. PICK f \in [q.members -> GUIDs], g \in Find(d, q.id) :
              /\ \A m \in q.members : f[m] \in Find(d, m)
              /\ r = Response([d EXCEPT ![g].member = @ \cup {f[m] : m \in q.members}], "ok", g)
        BY <1>3, <3>1 DEF HandleMembersAdd, HandleMembers, OnFound
      <4>2. PICK new : new = d[g].member \cup {f[m] : m \in q.members}
        OBVIOUS
      <4>3. r = Response([d EXCEPT ![g].member = new], "ok", g)
        BY <4>1, <4>2
      <4> QED
        BY <3>1, <4>1, <4>2, <4>3
    <3>2. CASE op = "removeMembers"
      <4>1. PICK f \in [q.members -> GUIDs], g \in Find(d, q.id) :
              /\ \A m \in q.members : f[m] \in Find(d, m)
              /\ r = Response([d EXCEPT ![g].member = @ \ {f[m] : m \in q.members}], "ok", g)
        <5>1. r \in HandleMembersRemove(d, q)
          BY <3>2
        <5> QED
          BY <1>3, <5>1 DEF HandleMembersRemove, HandleMembers, OnFound
      <4>2. PICK new : new = d[g].member \ {f[m] : m \in q.members}
        OBVIOUS
      <4>3. r = Response([d EXCEPT ![g].member = new], "ok", g)
        BY <4>1, <4>2
      <4> QED
        BY <3>2, <4>1, <4>2, <4>3
    <3> QED
      BY <3>1, <3>2
  <2>2. PICK named : named = {f[m] : m \in q.members}
    OBVIOUS
  <2>3. named \subseteq Live(d)
    BY <2>1, <2>2 DEF Find
  <2>4. d[g] \in Objects /\ Live(d) \subseteq GUIDs
    BY <2>1, FindFacts, ObjectFields
  <2>5. new \in SUBSET GUIDs
    BY <2>1, <2>2, <2>3, <2>4 DEF Objects
  <2>6. PICK p : p = [d[g] EXCEPT !.member = new]
    OBVIOUS
  <2>7. r.dir = [d EXCEPT ![g] = p] /\ r.err = "ok"
    BY <2>1, <2>6 DEF Response
  <2>8. p \in Objects /\ p.member = new
    BY <2>4, <2>5, <2>6 DEF Objects
  <2>9. SameBut(p, d[g], {"member"})
    BY <2>4, <2>6 DEF Objects, SameBut, Same, Attributes
  <2>10. Naming(d, q.members, named)
    BY <2>1, <2>2 DEF Naming
  <2> QED
    BY <2>1, <2>2, <2>3, <2>7, <2>8, <2>9, <2>10 DEF MembersWritten
<1> QED
  BY <1>1, <1>2, <1>3

(* Entries have one key exactly when they say the same of the same trustee. *)
LEMMA KeyFacts ==
  ASSUME NEW a, NEW b
  PROVE  FakeACEKey(a) = FakeACEKey(b) <=> (a.trustee = b.trustee /\ Permuted(a.rights, b.rights))
<1>1. PICK ca, cb : ca = [r \in ToSet(a.rights) |-> Times(a.rights, r)] /\ cb = [r \in ToSet(b.rights) |-> Times(b.rights, r)]
  OBVIOUS
<1>2. FakeACEKey(a) = <<a.trustee, ca>> /\ FakeACEKey(b) = <<b.trustee, cb>>
  BY <1>1 DEF FakeACEKey, Times
<1>3. FakeACEKey(a) = FakeACEKey(b) <=> (a.trustee = b.trustee /\ ca = cb)
  BY <1>2
<1>4. ca = cb <=> Permuted(a.rights, b.rights)
  BY <1>1 DEF Permuted
<1> QED
  BY <1>3, <1>4

(* A list without twins, by the keys the handlers compare. *)
TwinFree(dacl) == \A i, j \in DOMAIN dacl : i # j => FakeACEKey(dacl[i]) # FakeACEKey(dacl[j])

(* Having no two entries of one key is what TypeOK says of an access       *)
(* control list.                                                           *)
LEMMA TwinFreeIsSameAce ==
  ASSUME NEW dacl \in Seq(Aces)
  PROVE  SameAce(dacl) = {} <=> TwinFree(dacl)
<1>1. \A i \in DOMAIN dacl : dacl[i] \in Aces /\ i \in Nat
  OBVIOUS
<1>2. \A i, j \in DOMAIN dacl :
        FakeACEKey(dacl[i]) = FakeACEKey(dacl[j]) <=>
          (dacl[i].trustee = dacl[j].trustee /\ Permuted(dacl[i].rights, dacl[j].rights))
  BY <1>1, KeyFacts
<1>3. SameAce(dacl) = {} <=> \A i, j \in DOMAIN dacl : i < j => FakeACEKey(dacl[i]) # FakeACEKey(dacl[j])
  <2>1. \A ij : ij \in SameAce(dacl) <=>
          /\ ij \in (DOMAIN dacl) \X (DOMAIN dacl)
          /\ ij[1] < ij[2] /\ FakeACEKey(dacl[ij[1]]) = FakeACEKey(dacl[ij[2]])
    BY <1>2 DEF SameAce
  <2>2. ASSUME SameAce(dacl) = {}, NEW i \in DOMAIN dacl, NEW j \in DOMAIN dacl, i < j,
               FakeACEKey(dacl[i]) = FakeACEKey(dacl[j])
        PROVE  FALSE
    <3>1. <<i, j>> \in (DOMAIN dacl) \X (DOMAIN dacl) /\ <<i, j>>[1] = i /\ <<i, j>>[2] = j
      OBVIOUS
    <3>2. <<i, j>> \in SameAce(dacl)
      BY <2>1, <2>2, <3>1
    <3> QED
      BY <2>2, <3>2
  <2>3. ASSUME NEW ij \in SameAce(dacl)
        PROVE  \E i, j \in DOMAIN dacl : i < j /\ FakeACEKey(dacl[i]) = FakeACEKey(dacl[j])
    BY <2>1
  <2> QED
    BY <2>2, <2>3
<1>4. TwinFree(dacl) <=> \A i, j \in DOMAIN dacl : i < j => FakeACEKey(dacl[i]) # FakeACEKey(dacl[j])
  BY <1>1 DEF TwinFree
<1> QED
  BY <1>3, <1>4

(* Granting adds no entry the list has already, nor one of the call's own twice. *)
LEMMA GrantedFacts ==
  ASSUME NEW dacl \in Seq(Aces), NEW aces \in Seq(Aces), NEW new, new = Granted(dacl, aces)
  PROVE  new \in Seq(Aces) /\ (TwinFree(dacl) => TwinFree(new))
<1>1. PICK keep : keep = {i \in DOMAIN aces : /\ FakeACEKey(aces[i]) \notin Keys(dacl)
                                              /\ \A j \in 1..i-1 : FakeACEKey(aces[j]) # FakeACEKey(aces[i])}
  OBVIOUS
<1>2. PICK t : t = Subsequence(aces, keep)
  OBVIOUS
<1>3. keep \subseteq DOMAIN aces
  BY <1>1
<1>4. /\ t \in Seq(Aces)
      /\ \A m, n \in DOMAIN t : \E i, j \in keep : t[m] = aces[i] /\ t[n] = aces[j] /\ (m # n => i # j)
  BY <1>2, <1>3, SubsequenceFacts
<1>5. new = dacl \o t
  BY <1>1, <1>2 DEF Granted
<1>6. new \in Seq(Aces)
  BY <1>4, <1>5
<1>7. ASSUME NEW m \in DOMAIN t, NEW n \in DOMAIN t, m # n PROVE FakeACEKey(t[m]) # FakeACEKey(t[n])
  <2>1. PICK i \in keep, j \in keep : t[m] = aces[i] /\ t[n] = aces[j] /\ i # j
    BY <1>4, <1>7
  <2>2. i \in Nat \ {0} /\ j \in Nat \ {0}
    BY <1>3
  <2>3. CASE i < j
    <3>1. i \in 1..j-1
      BY <2>2, <2>3
    <3> QED
      BY <1>1, <2>1, <3>1
  <2>4. CASE j < i
    <3>1. j \in 1..i-1
      BY <2>2, <2>4
    <3> QED
      BY <1>1, <2>1, <3>1
  <2> QED
    BY <2>1, <2>2, <2>3, <2>4
<1>8. ASSUME NEW m \in DOMAIN t, NEW i \in DOMAIN dacl PROVE FakeACEKey(t[m]) # FakeACEKey(dacl[i])
  <2>1. FakeACEKey(t[m]) \notin Keys(dacl)
    BY <1>1, <1>4
  <2>2. FakeACEKey(dacl[i]) \in Keys(dacl)
    BY DEF Keys, ToSet
  <2> QED
    BY <2>1, <2>2
<1>9. ASSUME TwinFree(dacl), NEW m \in DOMAIN new, NEW n \in DOMAIN new, m # n
      PROVE  FakeACEKey(new[m]) # FakeACEKey(new[n])
  <2>1. /\ DOMAIN dacl = 1..Len(dacl) /\ DOMAIN t = 1..Len(t) /\ Len(dacl) \in Nat /\ Len(t) \in Nat
        /\ DOMAIN new = 1..(Len(dacl) + Len(t))
        /\ \A i \in DOMAIN new : new[i] = IF i <= Len(dacl) THEN dacl[i] ELSE t[i - Len(dacl)]
    BY <1>4, <1>5
  <2>2. PICK k \in Nat : k = Len(dacl)
    BY <2>1
  <2>3. ASSUME NEW i \in DOMAIN new
        PROVE  \/ i <= k /\ i \in DOMAIN dacl /\ new[i] = dacl[i]
               \/ i > k /\ i - k \in DOMAIN t /\ new[i] = t[i - k]
    BY <2>1, <2>2
  <2>4. m \in Nat /\ n \in Nat
    BY <2>1, <2>2
  <2>5. CASE m <= k /\ n <= k
    BY <1>9, <2>3, <2>4, <2>5 DEF TwinFree
  <2>6. CASE m <= k /\ n > k
    BY <1>8, <2>2, <2>3, <2>4, <2>6
  <2>7. CASE m > k /\ n <= k
    BY <1>8, <2>2, <2>3, <2>4, <2>7
  <2>8. CASE m > k /\ n > k
    <3>1. m - k # n - k
      BY <1>9, <2>2, <2>4
    <3> QED
      BY <1>7, <2>2, <2>3, <2>4, <2>8, <3>1
  <2> QED
    BY <2>2, <2>4, <2>5, <2>6, <2>7, <2>8
<1> QED
  BY <1>6, <1>9 DEF TwinFree

(* Revoking keeps some entries, each in one place. *)
LEMMA RevokedFacts ==
  ASSUME NEW dacl \in Seq(Aces), NEW aces, NEW new, new = Revoked(dacl, aces)
  PROVE  new \in Seq(Aces) /\ (TwinFree(dacl) => TwinFree(new))
<1>1. PICK keep : keep = {i \in DOMAIN dacl : FakeACEKey(dacl[i]) \notin Keys(aces)}
  OBVIOUS
<1>2. keep \subseteq DOMAIN dacl
  BY <1>1
<1>3. new = Subsequence(dacl, keep)
  BY <1>1 DEF Revoked
<1>4. /\ new \in Seq(Aces)
      /\ \A m, n \in DOMAIN new : \E i, j \in keep : new[m] = dacl[i] /\ new[n] = dacl[j] /\ (m # n => i # j)
  BY <1>2, <1>3, SubsequenceFacts
<1> QED
  BY <1>2, <1>4 DEF TwinFree

(* A grant or a revocation writes one list, and leaves it without twins. *)
ACLWritten(d, id, r) ==
  \/ r.dir = d
  \/ \E g \in Find(d, id), p \in Objects :
       /\ r.dir = [d EXCEPT ![g] = p] /\ SameBut(p, d[g], {"dacl"})
       /\ SameAce(d[g].dacl) = {} => SameAce(p.dacl) = {}

(* A grant and a revoke write one object's list, and bring no twin into    *)
(* it.                                                                     *)
LEMMA ACLResponse ==
  ASSUME NEW d \in Directories, NEW q, q.aces \in Seq(Aces),
         NEW r, r \in HandleACLGrant(d, q) \/ r \in HandleACLRevoke(d, q)
  PROVE  ACLWritten(d, q.id, r)
<1>1. CASE Find(d, q.id) = {}
  BY <1>1 DEF HandleACLGrant, HandleACLRevoke, OnFound, Response, ACLWritten
<1>2. CASE Find(d, q.id) # {}
  <2>1. PICK g, new :
          /\ g \in Find(d, q.id)
          /\ r = Response([d EXCEPT ![g].dacl = new], "ok", g)
          /\ \/ new = Granted(d[g].dacl, q.aces)
             \/ new = Revoked(d[g].dacl, q.aces)
    <3>1. CASE r \in HandleACLGrant(d, q)
      <4>1. PICK g \in Find(d, q.id) : r = Response([d EXCEPT ![g].dacl = Granted(@, q.aces)], "ok", g)
        BY <1>2, <3>1 DEF HandleACLGrant, OnFound
      <4>2. PICK new : new = Granted(d[g].dacl, q.aces)
        OBVIOUS
      <4>3. r = Response([d EXCEPT ![g].dacl = new], "ok", g)
        BY <4>1, <4>2
      <4> QED
        BY <4>2, <4>3
    <3>2. CASE r \in HandleACLRevoke(d, q)
      <4>1. PICK g \in Find(d, q.id) : r = Response([d EXCEPT ![g].dacl = Revoked(@, q.aces)], "ok", g)
        BY <1>2, <3>2 DEF HandleACLRevoke, OnFound
      <4>2. PICK new : new = Revoked(d[g].dacl, q.aces)
        OBVIOUS
      <4>3. r = Response([d EXCEPT ![g].dacl = new], "ok", g)
        BY <4>1, <4>2
      <4> QED
        BY <4>2, <4>3
    <3> QED
      BY <3>1, <3>2
  <2>2. d[g] \in Objects
    BY <2>1, FindFacts, ObjectFields
  <2>3. PICK old : old = d[g].dacl
    OBVIOUS
  <2>4. old \in Seq(Aces)
    BY <2>2, <2>3 DEF Objects
  <2>5. new \in Seq(Aces) /\ (TwinFree(old) => TwinFree(new))
    BY <2>1, <2>3, <2>4, GrantedFacts, RevokedFacts
  <2>6. PICK p : p = [d[g] EXCEPT !.dacl = new]
    OBVIOUS
  <2>7. r.dir = [d EXCEPT ![g] = p]
    BY <2>1, <2>6 DEF Response
  <2>8. p \in Objects /\ p.dacl = new
    BY <2>2, <2>5, <2>6 DEF Objects
  <2>9. SameBut(p, d[g], {"dacl"})
    BY <2>2, <2>6 DEF Objects, SameBut, Same, Attributes
  <2>10. SameAce(d[g].dacl) = {} => SameAce(p.dacl) = {}
    BY <2>3, <2>4, <2>5, <2>8, TwinFreeIsSameAce
  <2> QED
    BY <2>1, <2>7, <2>8, <2>9, <2>10 DEF ACLWritten
<1> QED
  BY <1>1, <1>2
-----------------------------------------------------------------------------
(* Where a call may be. *)
Steps == {"start", "lock", "get", "exec", "probe", "done"}

(* The shape of the state: a directory of objects numbered as they were   *)
(* created, calls at the steps their jobs take them through.              *)
Shape ==
  /\ dir \in Directories
  /\ Used(dir) = 1..Cardinality(Used(dir))
  /\ \A g \in Used(dir) : dir[g].member \subseteq Used(dir)
(* The calls: what each step implies of the job and of what was read. *)
Control ==
  /\ pc \in [Calls -> Steps]
  /\ DOMAIN job = Calls /\ DOMAIN current = Calls /\ DOMAIN answer = Calls /\ DOMAIN holder = LockTexts
  /\ \A c \in Calls :
       /\ pc[c] # "start" => job[c] \in Jobs[c]
       /\ pc[c] = "lock" => job[c].op \in Writing
       /\ pc[c] = "get" => job[c].op \in {"get", "update", "delete"}
       /\ pc[c] = "probe" => job[c].op = "create" /\ \E g : answer[c] = Answer("alreadyExists", g)
       /\ pc[c] = "exec" /\ job[c].op = "update" /\ job[c].class = "ou" => current[c].protected \in BOOLEAN
(* Both: what every other argument starts from. *)
Typed == Shape /\ Control

(* What is known of a job whose call has started. *)
LEMMA JobFacts ==
  ASSUME Typed, NEW c \in Calls, pc[c] # "start"
  PROVE  /\ job[c].op \in {"create", "update", "delete", "get", "search", "setPassword", "members",
                      "membersRecursive", "aclGet", "isMember", "addMembers", "removeMembers", "grant", "revoke"}
         /\ job[c].op \in {"create", "update"} => job[c].spec \in Specs(job[c].class)
         /\ job[c].op \in {"create", "update", "delete", "get", "search"} => job[c].class \in Classes
         /\ job[c].op \notin {"create", "search"} => job[c].id \in Ids
         /\ job[c].op = "search" => job[c].limit \in Nat
         /\ job[c].op \in {"grant", "revoke"} => job[c].aces \in Seq(Aces)
         /\ job[c].op = "setPassword" => job[c].password \in Texts
<1>1. PICK j : j = job[c]
  OBVIOUS
<1>2. PICK class \in Classes : j \in Requests(class)
  BY <1>1, JobsAssumption DEF Typed, Control
<1> QED
  BY <1>1, <1>2, RequestFacts

(* What the request of a call does to the directory. *)
Named(c) == IF job[c].op = "delete" THEN Deleted(c) ELSE job[c].id
(* Over object g the call writes p, which differs from it only as its      *)
(* operation says.                                                         *)
Written(c, g, p) ==
  \/ /\ job[c].op = "update" /\ Same(p, dir[g], {"class", "member", "deleted", "dacl", "passwords"})
     /\ p.sam = dir[g].sam \/ (job[c].class # "ou" /\ p.sam = Suffixed(dir[g].class, job[c].spec.sam))
     /\ answer'[c].kind = "ok" =>
          /\ answer'[c].data = Model(job[c].class, dir', g)
          /\ LET q == Updates(job[c].class, job[c].id, job[c].spec, current[c]) IN
             /\ Updated(dir[g], p, q)
             /\ p.sam = IF "sam" \in DOMAIN q.set THEN Suffixed(dir[g].class, q.set["sam"]) ELSE dir[g].sam
  \/ /\ job[c].op = "delete" /\ SameBut(p, dir[g], {"deleted", "protected"}) /\ p.deleted
     /\ answer'[c].kind = "ok"
  \/ job[c].op = "setPassword" /\ SameBut(p, dir[g], {"passwords"})
  \/ /\ job[c].op = "addMembers" /\ SameBut(p, dir[g], {"member"})
     /\ \E named \in SUBSET Live(dir) :
          Naming(dir, job[c].members, named) /\ p.member = dir[g].member \cup named
     /\ answer'[c].kind = "ok"
  \/ /\ job[c].op = "removeMembers" /\ SameBut(p, dir[g], {"member"})
     /\ \E named \in SUBSET Live(dir) :
          Naming(dir, job[c].members, named) /\ p.member = dir[g].member \ named
     /\ answer'[c].kind = "ok"
  \/ /\ job[c].op \in {"grant", "revoke"} /\ SameBut(p, dir[g], {"dacl"})
     /\ SameAce(dir[g].dacl) = {} => SameAce(p.dacl) = {}
(* A request that ends its call: nothing is written, which is a failure of *)
(* most writes, or one object it found is.                                 *)
Requested(c) ==
  /\ pc[c] = "exec" /\ job[c].op # "create"
  /\ \E a : Return(c, a)
  /\ UNCHANGED <<job, current>>
  /\ \/ /\ dir' = dir
        /\ job[c].op \in {"update", "delete", "addMembers"} => answer'[c].kind # "ok"
        /\ job[c].op = "removeMembers" => Find(dir, job[c].id) = {} \/ \E m \in job[c].members : Find(dir, m) = {}
     \/ \E g \in Find(dir, Named(c)), p \in Objects : dir' = [dir EXCEPT ![g] = p] /\ Written(c, g, p)

(* The answer a call was given is the one it has. *)
LEMMA AnswerOf ==
  ASSUME Typed, NEW c \in Calls, NEW a, answer' = [answer EXCEPT ![c] = a]
  PROVE  answer'[c] = a
BY DEF Typed, Control

(* The write of an Update is such a request. *)
LEMMA UpdateIsRequested ==
  ASSUME Typed, NEW c \in Calls, Update(c)
  PROVE  Requested(c)
<1>1. PICK q : q = Updates(job[c].class, job[c].id, job[c].spec, current[c])
  OBVIOUS
<1>2. PICK r \in HandleUpdate(dir, q) :
        /\ pc[c] = "exec" /\ job[c].op = "update" /\ dir' = r.dir /\ UNCHANGED <<job, current>>
        /\ Return(c, IF r.err = "ok" THEN Answer("ok", Model(job[c].class, r.dir, r.data)) ELSE Verbatim(r))
  BY <1>1 DEF Update, Ask, At
<1>3. PICK a : a = IF r.err = "ok" THEN Answer("ok", Model(job[c].class, r.dir, r.data)) ELSE Verbatim(r)
  OBVIOUS
<1>4. Return(c, a) /\ answer'[c] = a
  BY <1>2, <1>3, AnswerOf DEF Return
<1>5. job[c].class \in Classes /\ job[c].spec \in Specs(job[c].class)
  BY <1>2, JobFacts
<1>6. job[c].class = "ou" => current[c].protected \in BOOLEAN
  BY <1>2 DEF Typed, Control
<1>7. PayloadTyped(q, job[c].class, job[c].id, job[c].spec)
  BY <1>1, <1>5, <1>6, PayloadFacts
<1>8. job[c].spec.sam \in Seq(Texts)
  BY <1>5, SpecFacts
<1>9. dir \in Directories
  BY DEF Typed, Shape
<1>10. UpdateWritten(dir, q, r)
  BY <1>2, <1>7, <1>8, <1>9, UpdateResponse
<1>11. /\ q.id = job[c].id
       /\ "sam" \in DOMAIN q.set => q.set["sam"] = job[c].spec.sam /\ job[c].class # "ou"
  BY <1>7 DEF PayloadTyped
<1>12. a.kind = r.err
  BY <1>3 DEF Answer, Verbatim
<1>13. CASE r.dir = dir /\ r.err = "notFound"
  <2>1. dir' = dir /\ answer'[c].kind # "ok"
    BY <1>2, <1>4, <1>12, <1>13
  <2> QED
    BY <1>2, <1>4, <2>1 DEF Requested
<1>14. CASE ~(r.dir = dir /\ r.err = "notFound")
  <2>1. PICK g \in Find(dir, q.id), p \in Objects :
              /\ r.dir = [dir EXCEPT ![g] = p] /\ r.err \in {"ok", "denied"}
              /\ Same(p, dir[g], {"class", "member", "deleted", "dacl", "passwords"})
              /\ p.sam = IF "sam" \in DOMAIN q.set THEN Suffixed(dir[g].class, q.set["sam"]) ELSE dir[g].sam
              /\ r.err = "ok" => r.data = g /\ Updated(dir[g], p, q)
    BY <1>10, <1>14 DEF UpdateWritten
  <2>2. q.id = Named(c)
    BY <1>2, <1>11 DEF Named
  <2>3. p.sam = dir[g].sam \/ (job[c].class # "ou" /\ p.sam = Suffixed(dir[g].class, job[c].spec.sam))
    BY <1>11, <2>1
  <2>4. answer'[c].kind = "ok" => answer'[c].data = Model(job[c].class, dir', g)
    BY <1>2, <1>3, <1>4, <1>12, <2>1 DEF Answer
  <2>5. answer'[c].kind = "ok" => Updated(dir[g], p, q)
    BY <1>4, <1>12, <2>1
  <2>6. Written(c, g, p)
    BY <1>1, <1>2, <2>1, <2>3, <2>4, <2>5 DEF Written
  <2>7. dir' = [dir EXCEPT ![g] = p] /\ g \in Find(dir, Named(c))
    BY <1>2, <2>1, <2>2
  <2> QED
    BY <1>2, <1>4, <2>6, <2>7 DEF Requested
<1> QED
  BY <1>13, <1>14

(* The requests that only read leave the directory as it is. *)
LEMMA Reads ==
  ASSUME NEW d, NEW q, NEW max,
         NEW r \in HandleSearch(d, q, max) \cup HandleMembersRead(d, q) \cup HandleMembersReadRecursive(d, q)
                     \cup HandleMemberCheck(d, q) \cup HandleACLRead(d, q)
  PROVE  r.dir = d
<1>1. CASE r \in HandleSearch(d, q, max)
  <2>1. \E err, data : r = Response(d, err, data)
    BY <1>1 DEF HandleSearch
  <2> QED
    BY <2>1 DEF Response
<1>2. CASE r \in HandleMembersRead(d, q)
  BY <1>2 DEF HandleMembersRead, OnFound, Response
<1>3. CASE r \in HandleMembersReadRecursive(d, q)
  BY <1>3 DEF HandleMembersReadRecursive, OnFound, Response
<1>4. CASE r \in HandleMemberCheck(d, q)
  BY <1>4 DEF HandleMemberCheck, OnFound, Response
<1>5. CASE r \in HandleACLRead(d, q)
  BY <1>5 DEF HandleACLRead, OnFound, Response
<1> QED
  BY <1>1, <1>2, <1>3, <1>4, <1>5

(* So are the requests that only read. *)
LEMMA ReadIsRequested ==
  ASSUME Typed, NEW c \in Calls,
         Search(c) \/ Members(c) \/ MembersRecursive(c) \/ IsMember(c) \/ ACLGet(c)
  PROVE  Requested(c)
<1>1. ASSUME Search(c) PROVE Requested(c)
  <2>1. PICK r \in HandleSearch(dir, job[c], QueryPayload(job[c])) :
          /\ pc[c] = "exec" /\ job[c].op = "search" /\ dir' = r.dir /\ (\E a : Return(c, a)) /\ UNCHANGED <<job, current>>
    BY <1>1 DEF Search, Ask, At
  <2> QED
    BY <2>1, Reads DEF Requested
<1>2. ASSUME Members(c) PROVE Requested(c)
  <2>1. PICK r \in HandleMembersRead(dir, job[c]) :
          /\ pc[c] = "exec" /\ job[c].op = "members" /\ dir' = r.dir /\ (\E a : Return(c, a)) /\ UNCHANGED <<job, current>>
    BY <1>2 DEF Members, Ask, At
  <2> QED
    BY <2>1, Reads DEF Requested
<1>3. ASSUME MembersRecursive(c) PROVE Requested(c)
  <2>1. PICK r \in HandleMembersReadRecursive(dir, job[c]) :
          /\ pc[c] = "exec" /\ job[c].op = "membersRecursive" /\ dir' = r.dir /\ (\E a : Return(c, a)) /\ UNCHANGED <<job, current>>
    BY <1>3 DEF MembersRecursive, Ask, At
  <2> QED
    BY <2>1, Reads DEF Requested
<1>4. ASSUME IsMember(c) PROVE Requested(c)
  <2>1. PICK r \in HandleMemberCheck(dir, job[c]) :
          /\ pc[c] = "exec" /\ job[c].op = "isMember" /\ dir' = r.dir /\ (\E a : Return(c, a)) /\ UNCHANGED <<job, current>>
    BY <1>4 DEF IsMember, Ask, At
  <2> QED
    BY <2>1, Reads DEF Requested
<1>5. ASSUME ACLGet(c) PROVE Requested(c)
  <2>1. PICK r \in HandleACLRead(dir, job[c]) :
          /\ pc[c] = "exec" /\ job[c].op = "aclGet" /\ dir' = r.dir /\ (\E a : Return(c, a)) /\ UNCHANGED <<job, current>>
    BY <1>5 DEF ACLGet, Ask, At
  <2> QED
    BY <2>1, Reads DEF Requested
<1> QED
  BY <1>1, <1>2, <1>3, <1>4, <1>5

(* So are the deletions, of the GUID the call read. *)
LEMMA DeleteIsRequested ==
  ASSUME Typed, NEW c \in Calls, DeletePrincipal(c) \/ DeleteOU(c)
  PROVE  Requested(c)
<1>1. PICK q, r, a :
        /\ q.id = Deleted(c) /\ r \in HandleDelete(dir, q) \cup HandleOUDelete(dir, q)
        /\ pc[c] = "exec" /\ job[c].op = "delete" /\ dir' = r.dir /\ Return(c, a) /\ UNCHANGED <<job, current>>
        /\ a = Verbatim(r)
  <2>1. CASE DeletePrincipal(c)
    <3>1. PICK q : q = [id |-> Deleted(c)]
      OBVIOUS
    <3>2. PICK r \in HandleDelete(dir, q) :
            /\ pc[c] = "exec" /\ job[c].op = "delete" /\ dir' = r.dir /\ Return(c, Verbatim(r)) /\ UNCHANGED <<job, current>>
      BY <2>1, <3>1 DEF DeletePrincipal, Ask, At
    <3> QED
      BY <3>1, <3>2
  <2>2. CASE DeleteOU(c)
    <3>1. PICK q : q = [id |-> Deleted(c), unprotect |-> job[c].unprotect]
      OBVIOUS
    <3>2. PICK r \in HandleOUDelete(dir, q) :
            /\ pc[c] = "exec" /\ job[c].op = "delete" /\ dir' = r.dir /\ Return(c, Verbatim(r)) /\ UNCHANGED <<job, current>>
      BY <2>2, <3>1 DEF DeleteOU, Ask, At
    <3> QED
      BY <3>1, <3>2
  <2> QED
    BY <2>1, <2>2
<1>2. Named(c) = q.id
  BY <1>1 DEF Named
<1>3. dir \in Directories
  BY DEF Typed, Shape
<1>4. DeleteWritten(dir, Named(c), r)
  BY <1>1, <1>2, <1>3, DeleteResponse
<1>5. answer'[c] = a /\ a.kind = r.err
  BY <1>1, AnswerOf DEF Return, Verbatim, Answer
<1> QED
  BY <1>1, <1>4, <1>5 DEF Requested, Written, DeleteWritten

(* So are the changes of passwords, members and access control lists. *)
LEMMA WriteIsRequested ==
  ASSUME Typed, NEW c \in Calls,
         SetPassword(c) \/ AddMembers(c) \/ RemoveMembers(c) \/ Grant(c) \/ Revoke(c)
  PROVE  Requested(c)
<1>1. dir \in Directories
  BY DEF Typed, Shape
<1>2. ASSUME SetPassword(c) PROVE Requested(c)
  <2>1. PICK r \in HandleSetPassword(dir, job[c]) :
          /\ pc[c] = "exec" /\ job[c].op = "setPassword" /\ dir' = r.dir /\ (\E a : Return(c, a)) /\ UNCHANGED <<job, current>>
    BY <1>2 DEF SetPassword, Ask, At
  <2>2. job[c].password \in Texts
    BY <2>1, JobFacts
  <2>3. \/ dir' = dir
        \/ \E g \in Find(dir, job[c].id), p \in Objects :
             dir' = [dir EXCEPT ![g] = p] /\ SameBut(p, dir[g], {"passwords"})
    BY <1>1, <2>1, <2>2, PasswordResponse
  <2> QED
    BY <2>1, <2>3 DEF Requested, Written, Named
<1>3. ASSUME AddMembers(c) \/ RemoveMembers(c) PROVE Requested(c)
  <2>1. PICK r, a :
          /\ \/ job[c].op = "addMembers" /\ r \in HandleMembersAdd(dir, job[c])
             \/ job[c].op = "removeMembers" /\ r \in HandleMembersRemove(dir, job[c])
          /\ pc[c] = "exec" /\ dir' = r.dir /\ Return(c, a) /\ UNCHANGED <<job, current>>
          /\ a.kind = r.err \/ (job[c].op = "removeMembers" /\ r.err = "notFound")
    <3>1. CASE AddMembers(c)
      BY <3>1 DEF AddMembers, Ask, At, Verbatim, Answer
    <3>2. CASE RemoveMembers(c)
      BY <3>2 DEF RemoveMembers, Ask, At, Verbatim, Answer
    <3> QED
      BY <1>3, <3>1, <3>2
  <2>2. MembersWritten(dir, job[c], r, job[c].op)
    BY <1>1, <2>1, MembersResponse
  <2>3. answer'[c] = a
    BY <2>1, AnswerOf DEF Return
  <2>4. CASE /\ r.dir = dir /\ r.err = "notFound"
             /\ Find(dir, job[c].id) = {} \/ \E m \in job[c].members : Find(dir, m) = {}
    BY <2>1, <2>3, <2>4 DEF Requested
  <2>5. CASE r.err = "ok" /\ r.dir = dir' /\ \E g \in Find(dir, job[c].id), p \in Objects, named \in SUBSET Live(dir) :
          /\ r.dir = [dir EXCEPT ![g] = p] /\ SameBut(p, dir[g], {"member"}) /\ Naming(dir, job[c].members, named)
          /\ job[c].op = "addMembers" => p.member = dir[g].member \cup named
          /\ job[c].op = "removeMembers" => p.member = dir[g].member \ named
    <3>1. PICK g \in Find(dir, job[c].id), p \in Objects, named \in SUBSET Live(dir) :
            /\ r.dir = [dir EXCEPT ![g] = p] /\ SameBut(p, dir[g], {"member"}) /\ Naming(dir, job[c].members, named)
            /\ job[c].op = "addMembers" => p.member = dir[g].member \cup named
            /\ job[c].op = "removeMembers" => p.member = dir[g].member \ named
      BY <2>5
    <3>2. answer'[c].kind = "ok" /\ Named(c) = job[c].id
      BY <2>1, <2>3, <2>5 DEF Named
    <3>3. Written(c, g, p)
      BY <2>1, <3>1, <3>2 DEF Written
    <3> QED
      BY <2>1, <3>1, <3>2, <3>3 DEF Requested
  <2> QED
    BY <2>1, <2>2, <2>4, <2>5 DEF MembersWritten
<1>4. ASSUME Grant(c) \/ Revoke(c) PROVE Requested(c)
  <2>1. PICK r, a :
          /\ r \in HandleACLGrant(dir, job[c]) \/ r \in HandleACLRevoke(dir, job[c])
          /\ pc[c] = "exec" /\ job[c].op \in {"grant", "revoke"}
          /\ dir' = r.dir /\ Return(c, a) /\ UNCHANGED <<job, current>>
    <3>1. CASE Grant(c)
      BY <3>1 DEF Grant, Ask, At
    <3>2. CASE Revoke(c)
      BY <3>2 DEF Revoke, Ask, At
    <3> QED
      BY <1>4, <3>1, <3>2
  <2>2. job[c].aces \in Seq(Aces)
    BY <2>1, JobFacts
  <2>3. ACLWritten(dir, job[c].id, r)
    BY <1>1, <2>1, <2>2, ACLResponse
  <2>4. job[c].op \notin {"delete", "update", "create"}
    BY <2>1
  <2> QED
    BY <2>1, <2>3, <2>4 DEF Requested, Written, Named, ACLWritten
<1> QED
  BY <1>2, <1>3, <1>4

(* A step of a call is one of these. *)
LEMMA StepCases ==
  ASSUME Typed, NEW c \in Calls, Step(c)
  PROVE  Call(c) \/ Lock(c) \/ Get(c) \/ Create(c) \/ AnnotateAlreadyExists(c) \/ Requested(c)
BY UpdateIsRequested, ReadIsRequested, DeleteIsRequested, WriteIsRequested DEF Step

(* The directory after an object is put at a number. *)
Placed(d, e, g, p) ==
  /\ e \in Directories /\ Used(e) = Used(d) \cup {g} /\ e[g] = p /\ \A h \in GUIDs \ {g} : e[h] = d[h]
  /\ Live(e) = IF p.deleted THEN Live(d) \ {g} ELSE Live(d) \cup {g}

(* Putting an object at a number does that. *)
LEMMA Placing ==
  ASSUME NEW d \in Directories, NEW g \in GUIDs, NEW p \in Objects, NEW e, e = [d EXCEPT ![g] = p]
  PROVE  Placed(d, e, g, p)
<1>1. e \in Directories /\ e[g] = p /\ \A h \in GUIDs \ {g} : e[h] = d[h]
  BY DEF Directories
<1>2. p # None
  BY NoneAssumption
<1>3. Used(e) = Used(d) \cup {g}
  BY <1>1, <1>2 DEF Used
<1>4. Live(e) = IF p.deleted THEN Live(d) \ {g} ELSE Live(d) \cup {g}
  <2>1. \A h \in GUIDs \ {g} : h \in Live(e) <=> h \in Live(d)
    BY <1>1, <1>3 DEF Live, Used
  <2>2. g \in Live(e) <=> ~p.deleted
    BY <1>1, <1>3 DEF Live
  <2>3. Live(e) \subseteq GUIDs /\ Live(d) \subseteq GUIDs
    BY DEF Live, Used
  <2> QED
    BY <2>1, <2>2, <2>3
<1> QED
  BY <1>1, <1>3, <1>4 DEF Placed

(* What a create makes of the state, and what a call's request does. *)
Made(c) ==
  \E new \in GUIDs \ Used(dir), o \in Objects :
    /\ Placed(dir, dir', new, o)
    /\ Used(dir) \cup {new} = 1..(Cardinality(Used(dir)) + 1)
    /\ o.class = job[c].class /\ o.member = {} /\ ~o.deleted /\ o.dacl = <<>> /\ WellFormed(o)
    /\ \A h \in Used(dir) : DN(dir[h]) # DN(o) /\ ~SameSam(dir[h], o.sam)
(* A live object the request names is replaced. *)
Overwritten(c) ==
  \E g \in Find(dir, Named(c)), p \in Objects : Placed(dir, dir', g, p) /\ Written(c, g, p)

(* A create is refused and goes on to the probe, or makes one object and   *)
(* returns.                                                                *)
LEMMA CreateCases ==
  ASSUME Typed, NEW c \in Calls, Create(c)
  PROVE  /\ pc[c] = "exec" /\ job[c].op = "create" /\ UNCHANGED <<job, current>>
         /\ \/ /\ dir' = dir /\ pc' = [pc EXCEPT ![c] = "probe"] /\ UNCHANGED holder
               /\ \E g : answer' = [answer EXCEPT ![c] = Answer("alreadyExists", g)]
            \/ Made(c) /\ \E a : Return(c, a)
<1>1. PICK r \in HandleCreate(dir, Creates(job[c].class, job[c].spec)) :
        /\ pc[c] = "exec" /\ job[c].op = "create" /\ UNCHANGED <<job, current>>
        /\ Cardinality(Used(dir)) < MaxObjects
        /\ dir' = r.dir
        /\ r.err = "alreadyExists" => /\ pc' = [pc EXCEPT ![c] = "probe"] /\ UNCHANGED holder
                                      /\ answer' = [answer EXCEPT ![c] = Answer(r.err, r.data)]
        /\ r.err # "alreadyExists" => \E a : Return(c, a)
  BY DEF Create, At, Go
<1>2. job[c].class \in Classes /\ job[c].spec \in Specs(job[c].class)
  BY <1>1, JobFacts
<1>3. dir \in Directories /\ Used(dir) = 1..Cardinality(Used(dir))
  BY DEF Typed, Shape
<1>4. CreateWritten(dir, job[c].class, r)
  BY <1>1, <1>2, <1>3, CreateResponse
<1>5. CASE r.dir = dir /\ r.err = "alreadyExists"
  BY <1>1, <1>5
<1>6. CASE ~(r.dir = dir /\ r.err = "alreadyExists")
  <2>1. PICK new \in GUIDs \ Used(dir), o \in Objects :
          /\ r.err = "ok" /\ r.dir = [dir EXCEPT ![new] = o]
          /\ Used(dir) \cup {new} = 1..(Cardinality(Used(dir)) + 1)
          /\ o.class = job[c].class /\ o.member = {} /\ ~o.deleted /\ o.dacl = <<>> /\ WellFormed(o)
          /\ \A h \in Used(dir) : DN(dir[h]) # DN(o) /\ ~SameSam(dir[h], o.sam)
    BY <1>4, <1>6 DEF CreateWritten
  <2>2. Placed(dir, dir', new, o)
    BY <1>1, <1>3, <2>1, Placing
  <2>3. Made(c)
    BY <2>1, <2>2 DEF Made
  <2> QED
    BY <1>1, <2>1, <2>3
<1> QED
  BY <1>5, <1>6

(* A request leaves the directory alone, or replaces one object. *)
LEMMA RequestCases ==
  ASSUME Typed, NEW c \in Calls, Requested(c)
  PROVE  \/ /\ dir' = dir
            /\ job[c].op \in {"update", "delete", "addMembers"} => answer'[c].kind # "ok"
            /\ job[c].op = "removeMembers" => Find(dir, job[c].id) = {} \/ \E m \in job[c].members : Find(dir, m) = {}
         \/ Overwritten(c)
<1>1. ASSUME NEW g \in Find(dir, Named(c)), NEW p \in Objects, dir' = [dir EXCEPT ![g] = p], Written(c, g, p)
      PROVE  Overwritten(c)
  <2>1. dir \in Directories /\ g \in GUIDs
    BY FindFacts DEF Typed, Shape
  <2>2. Placed(dir, dir', g, p)
    BY <1>1, <2>1, Placing
  <2> QED
    BY <1>1, <2>2 DEF Overwritten
<1> QED
  BY <1>1 DEF Requested

(* A step changes the directory in one of two ways, or not at all. *)
LEMMA DirectoryCases ==
  ASSUME Typed, NEW c \in Calls, Step(c)
  PROVE  \/ dir' = dir
         \/ Made(c) /\ pc[c] = "exec" /\ job[c].op = "create"
         \/ Overwritten(c) /\ Requested(c)
<1>1. CASE Call(c)
  BY <1>1 DEF Call
<1>2. CASE Lock(c)
  BY <1>2 DEF Lock
<1>3. CASE Get(c)
  BY <1>3 DEF Get
<1>4. CASE Create(c)
  BY <1>4, CreateCases
<1>5. CASE AnnotateAlreadyExists(c)
  BY <1>5 DEF AnnotateAlreadyExists
<1>6. CASE Requested(c)
  BY <1>6, RequestCases
<1> QED
  BY <1>1, <1>2, <1>3, <1>4, <1>5, <1>6, StepCases

(* An overwritten object keeps its class, and its members are live or were its members before. *)
LEMMA OverwrittenFacts ==
  ASSUME NEW c, NEW g \in Live(dir), NEW p \in Objects, Written(c, g, p)
  PROVE  /\ p.class = dir[g].class
         /\ p.member \subseteq dir[g].member \cup Live(dir)
         /\ p.member = dir[g].member \/ job[c].op \in {"addMembers", "removeMembers"}
         /\ p.deleted => job[c].op = "delete"
         /\ job[c].op = "delete" => p.deleted
<1>1. ~dir[g].deleted
  BY DEF Live
<1> QED
  BY <1>1 DEF Written, Same, SameBut, Attributes

(* The directory keeps its shape in every step. *)
LEMMA ShapeStep ==
  ASSUME Typed, NEW c \in Calls, Step(c)
  PROVE  Shape'
<1>1. dir \in Directories /\ Used(dir) = 1..Cardinality(Used(dir)) /\ \A g \in Used(dir) : dir[g].member \subseteq Used(dir)
  BY DEF Typed, Shape
<1>2. CASE dir' = dir
  BY <1>1, <1>2 DEF Shape
<1>3. CASE Made(c)
  <2>1. PICK new \in GUIDs \ Used(dir), o \in Objects :
          /\ Placed(dir, dir', new, o)
          /\ Used(dir) \cup {new} = 1..(Cardinality(Used(dir)) + 1)
          /\ o.member = {}
    BY <1>3 DEF Made
  <2>2. /\ dir' \in Directories /\ Used(dir') = Used(dir) \cup {new} /\ dir'[new] = o
        /\ \A h \in GUIDs \ {new} : dir'[h] = dir[h]
    BY <2>1 DEF Placed
  <2>3. Used(dir') = 1..Cardinality(Used(dir'))
    <3>1. IsFiniteSet(1..MaxObjects) /\ Used(dir) \subseteq 1..MaxObjects
      BY FS_Interval, MaxObjectsAssumption DEF GUIDs, Used
    <3>2. Cardinality(Used(dir)) \in Nat
      BY <3>1, FS_Subset, FS_CardinalityType
    <3>3. PICK n \in Nat : n = Cardinality(Used(dir)) + 1
      BY <3>2
    <3>4. Used(dir') = 1..n
      BY <2>1, <2>2, <3>3
    <3>5. Cardinality(1..n) = n
      <4>1. Cardinality(1..n) = IF 1 > n THEN 0 ELSE n - 1 + 1
        BY FS_Interval
      <4> QED
        BY <3>2, <3>3, <4>1
    <3> QED
      BY <3>4, <3>5
  <2>4. ASSUME NEW g \in Used(dir') PROVE dir'[g].member \subseteq Used(dir')
    BY <1>1, <2>1, <2>2 DEF Used
  <2> QED
    BY <2>2, <2>3, <2>4 DEF Shape
<1>4. CASE Overwritten(c)
  <2>1. PICK g \in Find(dir, Named(c)), p \in Objects : Placed(dir, dir', g, p) /\ Written(c, g, p)
    BY <1>4 DEF Overwritten
  <2>2. g \in Live(dir) /\ g \in Used(dir) /\ Live(dir) \subseteq Used(dir) /\ Used(dir) \subseteq GUIDs
    BY FindFacts
  <2>3. /\ dir' \in Directories /\ Used(dir') = Used(dir) /\ dir'[g] = p
        /\ \A h \in GUIDs \ {g} : dir'[h] = dir[h]
    BY <2>1, <2>2 DEF Placed
  <2>4. p.member \subseteq dir[g].member \cup Live(dir)
    BY <2>1, <2>2, OverwrittenFacts
  <2>5. ASSUME NEW h \in Used(dir) PROVE dir'[h].member \subseteq Used(dir)
    BY <1>1, <2>2, <2>3, <2>4
  <2> QED
    BY <1>1, <2>3, <2>5 DEF Shape
<1> QED
  BY <1>2, <1>3, <1>4, DirectoryCases
-----------------------------------------------------------------------------
(* The lock of a text is held by the call whose change is between its read and its write. *)
Locked ==
  /\ \A t \in LockTexts : holder[t] # None =>
       /\ holder[t] \in Calls /\ job[holder[t]].op \in Writing /\ job[holder[t]].id = t
       /\ pc[holder[t]] \in {"get", "exec"}
  /\ \A c \in Calls : pc[c] \in {"get", "exec"} /\ job[c].op \in Writing => holder[job[c].id] = c

(* A call goes on, or ends and gives back what it holds. *)
Moved(c, step) == pc' = [pc EXCEPT ![c] = step]
(* What it held is free. *)
Freed(c) == holder' = [t \in LockTexts |-> IF holder[t] = c THEN None ELSE holder[t]]
(* It was given an answer. *)
Answered(c) == \E a : answer' = [answer EXCEPT ![c] = a]

(* A call takes a job: it ends at once, or goes where the job's kind takes *)
(* it.                                                                     *)
Began(c) ==
  /\ pc[c] = "start" /\ UNCHANGED current
  /\ \E j \in Jobs[c] :
       /\ job' = [job EXCEPT ![c] = j]
       /\ \/ Moved(c, "done") /\ Freed(c) /\ Answered(c)
          \/ /\ UNCHANGED <<answer, holder>>
             /\ \/ Moved(c, "lock") /\ j.op \in Writing
                \/ Moved(c, "get") /\ j.op = "get"
                \/ Moved(c, "exec") /\ j.op \notin Writing \cup {"get"}
(* A call gets the lock of its text, which was free. *)
GotLock(c) ==
  /\ pc[c] = "lock" /\ UNCHANGED <<job, current, answer>>
  /\ holder[job[c].id] = None /\ holder' = [holder EXCEPT ![job[c].id] = c]
  /\ \/ Moved(c, "get") /\ job[c].op \in {"update", "delete"}
     \/ Moved(c, "exec") /\ job[c].op \notin {"update", "delete"}
(* A change has read what it will write over. *)
HasRead(c) ==
  /\ pc[c] = "get" /\ UNCHANGED <<job, answer, holder>> /\ Moved(c, "exec")
  /\ job[c].op # "get"
  /\ \E read : /\ current' = [current EXCEPT ![c] = read]
               /\ job[c].class = "ou" => read.protected \in BOOLEAN
(* A create was refused. *)
WasRefused(c) ==
  /\ pc[c] = "exec" /\ job[c].op = "create" /\ UNCHANGED <<job, current, holder>> /\ Moved(c, "probe")
  /\ \E g : answer' = [answer EXCEPT ![c] = Answer("alreadyExists", g)]
(* A call returns. *)
Ended(c) ==
  /\ pc[c] \in {"get", "exec", "probe"} /\ UNCHANGED job /\ Moved(c, "done") /\ Freed(c) /\ Answered(c)
  /\ UNCHANGED current \/ \E read : current' = [current EXCEPT ![c] = read]

(* An OU's model shows whether it is protected. *)
LEMMA OUModelFacts ==
  ASSUME NEW d, NEW g, d[g] \in Objects
  PROVE  Model("ou", d, g).protected = d[g].protected /\ d[g].protected \in BOOLEAN
BY DEF Model, OUModel, Fields, Objects

(* What each step does to the control of its call. *)
LEMMA ControlCases ==
  ASSUME Typed, NEW c \in Calls, Step(c)
  PROVE  Began(c) \/ GotLock(c) \/ HasRead(c) \/ WasRefused(c) \/ Ended(c)
<1>1. CASE Call(c)
  <2>1. PICK j \in Jobs[c] :
          /\ pc[c] = "start" /\ job' = [job EXCEPT ![c] = j] /\ UNCHANGED current
          /\ \/ \E a : Return(c, a)
             \/ /\ Go(c, IF j.op \in Writing THEN "lock" ELSE IF j.op = "get" THEN "get" ELSE "exec")
                /\ UNCHANGED <<answer, holder>>
    BY <1>1 DEF Call
  <2>2. job'[c] = j
    BY <2>1 DEF Typed, Control
  <2>3. CASE \E a : Return(c, a)
    <3>1. Moved(c, "done") /\ Freed(c) /\ Answered(c)
      BY <2>3 DEF Return, Go, Moved, Freed, Answered
    <3> QED
      BY <2>1, <3>1 DEF Began
  <2>4. CASE /\ Go(c, IF j.op \in Writing THEN "lock" ELSE IF j.op = "get" THEN "get" ELSE "exec")
             /\ UNCHANGED <<answer, holder>>
    <3>1. \/ Moved(c, "lock") /\ j.op \in Writing
          \/ Moved(c, "get") /\ j.op = "get"
          \/ Moved(c, "exec") /\ j.op \notin Writing \cup {"get"}
      BY <2>4 DEF Go, Moved
    <3> QED
      BY <2>1, <2>2, <2>4, <3>1 DEF Began
  <2> QED
    BY <2>1, <2>3, <2>4
<1>2. CASE Lock(c)
  <2>1. /\ pc[c] = "lock" /\ UNCHANGED <<job, current, answer>>
        /\ holder[job[c].id] = None /\ holder' = [holder EXCEPT ![job[c].id] = c]
        /\ Moved(c, IF job[c].op \in {"update", "delete"} THEN "get" ELSE "exec")
    BY <1>2 DEF Lock, Go, Moved
  <2>2. \/ Moved(c, "get") /\ job[c].op \in {"update", "delete"}
        \/ Moved(c, "exec") /\ job[c].op \notin {"update", "delete"}
    BY <2>1 DEF Moved
  <2> QED
    BY <2>1, <2>2 DEF GotLock
<1>3. CASE Get(c)
  <2>1. PICK r, read :
          /\ r \in HandleRead(dir, job[c].id)
          /\ pc[c] = "get" /\ UNCHANGED job
          /\ \/ (\E a : Return(c, a)) /\ (UNCHANGED current \/ \E m : current' = [current EXCEPT ![c] = m])
             \/ /\ r.err = "ok" /\ read = Model(job[c].class, dir, r.data)
                /\ current' = [current EXCEPT ![c] = read] /\ job[c].op # "get"
                /\ Go(c, "exec") /\ UNCHANGED <<answer, holder>>
    BY <1>3 DEF Get
  <2>2. CASE (\E a : Return(c, a)) /\ (UNCHANGED current \/ \E m : current' = [current EXCEPT ![c] = m])
    <3>1. Moved(c, "done") /\ Freed(c) /\ Answered(c)
      BY <2>2 DEF Return, Go, Moved, Freed, Answered
    <3> QED
      BY <2>1, <2>2, <3>1 DEF Ended
  <2>3. CASE /\ r.err = "ok" /\ read = Model(job[c].class, dir, r.data)
             /\ current' = [current EXCEPT ![c] = read] /\ job[c].op # "get"
             /\ Go(c, "exec") /\ UNCHANGED <<answer, holder>>
    <3>1. r.data \in Live(dir)
      BY <2>1, <2>3, FindFacts DEF HandleRead, OnFound, Response
    <3>2. dir[r.data] \in Objects
      BY <3>1, FindFacts, ObjectFields DEF Typed, Shape
    <3>3. job[c].class = "ou" => read.protected \in BOOLEAN
      BY <2>3, <3>2, OUModelFacts
    <3>4. Moved(c, "exec")
      BY <2>3 DEF Go, Moved
    <3> QED
      BY <2>1, <2>3, <3>3, <3>4 DEF HasRead
  <2> QED
    BY <2>1, <2>2, <2>3
<1>4. CASE Create(c)
  <2>1. /\ pc[c] = "exec" /\ job[c].op = "create" /\ UNCHANGED <<job, current>>
        /\ \/ /\ pc' = [pc EXCEPT ![c] = "probe"] /\ UNCHANGED holder
              /\ \E g : answer' = [answer EXCEPT ![c] = Answer("alreadyExists", g)]
           \/ \E a : Return(c, a)
    BY <1>4, CreateCases
  <2> QED
    BY <2>1 DEF Return, Go, Moved, Freed, Answered, WasRefused, Ended
<1>5. CASE AnnotateAlreadyExists(c)
  <2>1. pc[c] = "probe" /\ UNCHANGED <<job, current>> /\ \E a : Return(c, a)
    BY <1>5 DEF AnnotateAlreadyExists
  <2> QED
    BY <2>1 DEF Return, Go, Moved, Freed, Answered, WasRefused, Ended
<1>6. CASE Requested(c)
  <2>1. pc[c] = "exec" /\ UNCHANGED <<job, current>> /\ \E a : Return(c, a)
    BY <1>6 DEF Requested
  <2> QED
    BY <2>1 DEF Return, Go, Moved, Freed, Answered, WasRefused, Ended
<1> QED
  BY <1>1, <1>2, <1>3, <1>4, <1>5, <1>6, StepCases

(* Every step keeps the calls on their ways. *)
LEMMA ControlStep ==
  ASSUME Typed, NEW c \in Calls, Step(c)
  PROVE  Control'
<1>1. /\ pc \in [Calls -> Steps]
      /\ DOMAIN job = Calls /\ DOMAIN current = Calls /\ DOMAIN answer = Calls /\ DOMAIN holder = LockTexts
      /\ \A e \in Calls :
           /\ pc[e] # "start" => job[e] \in Jobs[e]
           /\ pc[e] = "lock" => job[e].op \in Writing
           /\ pc[e] = "get" => job[e].op \in {"get", "update", "delete"}
           /\ pc[e] = "probe" => job[e].op = "create" /\ \E g : answer[e] = Answer("alreadyExists", g)
           /\ pc[e] = "exec" /\ job[e].op = "update" /\ job[e].class = "ou" => current[e].protected \in BOOLEAN
  BY DEF Typed, Control
<1>2. CASE Began(c)
  BY <1>1, <1>2 DEF Began, Moved, Freed, Answered, Control, Steps, Writing
<1>3. CASE GotLock(c)
  BY <1>1, <1>3 DEF GotLock, Moved, Control, Steps, Writing
<1>4. CASE HasRead(c)
  BY <1>1, <1>4 DEF HasRead, Moved, Control, Steps
<1>5. CASE WasRefused(c)
  BY <1>1, <1>5 DEF WasRefused, Moved, Control, Steps
<1>6. CASE Ended(c)
  BY <1>1, <1>6 DEF Ended, Moved, Freed, Answered, Control, Steps
<1> QED
  BY <1>2, <1>3, <1>4, <1>5, <1>6, ControlCases

(* The start is typed, and no lock is held. *)
LEMMA TypedInit ==
  ASSUME Init
  PROVE  Typed /\ Locked
<1>1. Shape
  BY SeedsAssumption DEF Init, Shape, Directories
<1>2. Control
  BY DEF Init, Control, Steps
<1>3. Locked
  BY DEF Init, Locked
<1> QED
  BY <1>1, <1>2, <1>3 DEF Typed

(* Typed depends on the variables alone. *)
LEMMA TypedStutter ==
  ASSUME Typed, UNCHANGED vars
  PROVE  Typed'
BY DEF Typed, Shape, Control, vars

(* Every step keeps the types. *)
LEMMA TypedNext ==
  ASSUME Typed, [Next]_vars
  PROVE  Typed'
<1>1. ASSUME NEW c \in Calls, Step(c) PROVE Typed'
  BY <1>1, ShapeStep, ControlStep DEF Typed
<1> QED
  BY <1>1, TypedStutter DEF Next, AllReturned

(* The directory holds objects numbered in the order of their creation,    *)
(* whose members were all created, and every call is where its job can be: *)
(* whatever the jobs, the clients and the directory they find.             *)
THEOREM TypedInvariance == Spec => []Typed
<1>1. Init => Typed
  BY TypedInit
<1>2. Typed /\ [Next]_vars => Typed'
  BY TypedNext
<1> QED
  BY <1>1, <1>2, PTL DEF Spec

(* The text a change is locked by has a lock. *)
LEMMA LockTextFacts ==
  ASSUME Typed, NEW c \in Calls, pc[c] # "start", job[c].op \in Writing
  PROVE  job[c].id \in LockTexts
BY DEF Typed, Control, LockTexts

(* Every step keeps the locks. *)
LEMMA LockedStep ==
  ASSUME Typed, Locked, NEW c \in Calls, Step(c)
  PROVE  Locked'
<1>1. /\ pc \in [Calls -> Steps]
      /\ DOMAIN job = Calls /\ DOMAIN holder = LockTexts
      /\ None \notin Calls
  BY CallsAssumption DEF Typed, Control
<1>2. /\ \A t \in LockTexts : holder[t] # None =>
           /\ holder[t] \in Calls /\ job[holder[t]].op \in Writing /\ job[holder[t]].id = t
           /\ pc[holder[t]] \in {"get", "exec"}
      /\ \A e \in Calls : pc[e] \in {"get", "exec"} /\ job[e].op \in Writing => holder[job[e].id] = e
  BY DEF Locked
<1>3. \A e \in Calls : pc[e] # "start" /\ job[e].op \in Writing => job[e].id \in LockTexts
  BY LockTextFacts
<1>4. CASE Began(c)
  <2>1. PICK j \in Jobs[c] :
       /\ job' = [job EXCEPT ![c] = j]
       /\ \/ Moved(c, "done") /\ Freed(c) /\ Answered(c)
          \/ /\ UNCHANGED <<answer, holder>>
             /\ \/ Moved(c, "lock") /\ j.op \in Writing
                \/ Moved(c, "get") /\ j.op = "get"
                \/ Moved(c, "exec") /\ j.op \notin Writing \cup {"get"}
    BY <1>4 DEF Began
  <2>2. pc[c] = "start" /\ \A t \in LockTexts : holder[t] # c
    BY <1>1, <1>2, <1>4 DEF Began
  <2>3. \A t \in LockTexts : holder'[t] = holder[t]
    BY <2>1, <2>2 DEF Freed
  <2>4. \A e \in Calls \ {c} : pc'[e] = pc[e] /\ job'[e] = job[e]
    BY <1>1, <2>1 DEF Moved
  <2>5. pc'[c] \in {"get", "exec"} => job'[c].op \notin Writing
    BY <1>1, <2>1 DEF Moved, Writing
  <2> QED
    BY <1>2, <1>3, <2>2, <2>3, <2>4, <2>5 DEF Locked
<1>5. CASE GotLock(c)
  <2>1. /\ pc[c] = "lock" /\ job' = job /\ holder[job[c].id] = None /\ holder' = [holder EXCEPT ![job[c].id] = c]
        /\ \A e \in Calls \ {c} : pc'[e] = pc[e]
        /\ pc'[c] \in {"get", "exec"}
    BY <1>1, <1>5 DEF GotLock, Moved
  <2>2. job[c].op \in Writing /\ job[c].id \in LockTexts
    BY <1>3, <2>1 DEF Typed, Control
  <2>3. holder'[job[c].id] = c /\ \A t \in LockTexts \ {job[c].id} : holder'[t] = holder[t]
    BY <1>1, <2>1, <2>2
  <2>4. \A e \in Calls \ {c} : pc[e] \in {"get", "exec"} /\ job[e].op \in Writing => job[e].id # job[c].id
    BY <1>1, <1>2, <2>1
  <2> QED
    BY <1>1, <1>2, <1>3, <2>1, <2>2, <2>3, <2>4 DEF Locked
<1>6. CASE HasRead(c)
  BY <1>1, <1>2, <1>6 DEF HasRead, Moved, Locked
<1>7. CASE WasRefused(c)
  BY <1>1, <1>2, <1>7 DEF WasRefused, Moved, Locked, Writing
<1>8. CASE Ended(c)
  BY <1>1, <1>2, <1>3, <1>8 DEF Ended, Moved, Freed, Locked
<1> QED
  BY <1>4, <1>5, <1>6, <1>7, <1>8, ControlCases

(* Locked depends on the variables alone. *)
LEMMA LockedStutter ==
  ASSUME Locked, UNCHANGED vars
  PROVE  Locked'
BY DEF Locked, vars

(* Two changes that use the same text for their object are never both      *)
(* between their read and their write: locks.Lock(IdentityArg(id)) with    *)
(* its deferred unlock is mutual exclusion per text, for any calls.        *)
THEOREM LockedInvariance == Spec => [](Typed /\ Locked)
<1>1. Init => Typed /\ Locked
  BY TypedInit
<1>2. Typed /\ Locked /\ [Next]_vars => Typed' /\ Locked'
  <2>1. SUFFICES ASSUME Typed, Locked, [Next]_vars PROVE Typed' /\ Locked'
    OBVIOUS
  <2>2. Typed'
    BY <2>1, TypedNext
  <2>3. ASSUME NEW c \in Calls, Step(c) PROVE Locked'
    BY <2>1, <2>3, LockedStep
  <2>4. ASSUME UNCHANGED vars PROVE Locked'
    BY <2>1, <2>4, LockedStutter
  <2> QED
    BY <2>1, <2>2, <2>3, <2>4 DEF Next, AllReturned
<1> QED
  BY <1>1, <1>2, PTL DEF Spec
-----------------------------------------------------------------------------
(* Identities by GUID stand for one object at most. *)
LEMMA FoundByGUID ==
  ASSUME NEW d, NEW x, NEW g \in Find(d, <<"guid", x>>)
  PROVE  g = x
BY DEF Find, Identities

(* A search that answers returns exactly the matching objects of its class *)
(* in its scope, never more than its limit and never fewer: asking for one *)
(* row more than the limit (queryPayload) tells a full answer from a cut   *)
(* one, whatever the limit, filter and directory.                          *)
THEOREM SearchesAreComplete == Spec => SearchIsComplete
<1>1. ASSUME Typed, [Next]_vars, NEW c \in Calls, Answers(c, "search")
      PROVE  /\ Cardinality(answer'[c].data) <= job[c].limit
             /\ answer'[c].data = {g \in Live(dir) : /\ dir[g].class = job[c].class
                                                     /\ InScope(DN(dir[g]), job[c].base, job[c].scope)
                                                     /\ MatchFilter(dir[g], job[c].filter) = "yes"}
  <2>1. pc[c] = "exec" /\ job[c].op = "search" /\ pc'[c] = "done" /\ answer'[c].kind = "ok"
    BY <1>1 DEF Answers, At
  <2>2. Search(c)
    <3>1. ASSUME NEW e \in Calls, Step(e) PROVE e = c /\ Requested(c)
      <4>1. Began(e) \/ GotLock(e) \/ HasRead(e) \/ WasRefused(e) \/ Ended(e)
        BY <1>1, <3>1, ControlCases
      <4>2. e = c
        BY <1>1, <2>1, <4>1 DEF Began, GotLock, HasRead, WasRefused, Ended, Moved, Typed, Control
      <4> QED
        BY <1>1, <2>1, <3>1, <4>2, StepCases DEF Call, Lock, Get, Create, At, AnnotateAlreadyExists
    <3>2. Step(c)
      BY <1>1, <2>1, <3>1 DEF Next, AllReturned, vars
    <3> QED
      BY <2>1, <3>2 DEF Step, Call, Lock, Get, Create, AnnotateAlreadyExists, Update, DeletePrincipal, DeleteOU,
           SetPassword, Members, MembersRecursive, AddMembers, RemoveMembers, IsMember, ACLGet, Grant, Revoke, Ask, At
  <2>3. PICK scanned : scanned = {g \in Live(dir) : dir[g].class = job[c].class /\ InScope(DN(dir[g]), job[c].base, job[c].scope)}
    OBVIOUS
  <2>4. PICK matched : matched = {g \in scanned : MatchFilter(dir[g], job[c].filter) = "yes"}
    OBVIOUS
  <2>5. PICK r \in HandleSearch(dir, job[c], job[c].limit + 1) :
          answer' = [answer EXCEPT ![c] = IF r.err = "ok" /\ Cardinality(r.data) > job[c].limit
                                            THEN Answer("tooMany", None) ELSE Verbatim(r)]
    BY <2>2 DEF Search, Ask, Return, QueryPayload
  <2>6. PICK a : a = IF r.err = "ok" /\ Cardinality(r.data) > job[c].limit THEN Answer("tooMany", None) ELSE Verbatim(r)
    OBVIOUS
  <2>7. answer'[c] = a
    BY <1>1, <2>5, <2>6, AnswerOf
  <2>8. a.kind = "ok" => r.err = "ok" /\ ~(Cardinality(r.data) > job[c].limit) /\ a.data = r.data
    BY <2>6 DEF Answer, Verbatim
  <2>9. r.err = "ok" =>
          r.data \in SUBSET matched /\ Cardinality(r.data) = IF Cardinality(matched) > job[c].limit + 1
                                                               THEN job[c].limit + 1 ELSE Cardinality(matched)
    BY <2>3, <2>4, <2>5 DEF HandleSearch, Response
  <2>10. IsFiniteSet(matched) /\ Cardinality(matched) \in Nat
    <3>1. matched \subseteq 1..MaxObjects
      BY <2>3, <2>4, FindFacts DEF GUIDs
    <3>2. IsFiniteSet(1..MaxObjects)
      BY FS_Interval, MaxObjectsAssumption
    <3> QED
      BY <3>1, <3>2, FS_Subset, FS_CardinalityType
  <2>11. job[c].limit \in Nat
    BY <1>1, <2>1, JobFacts
  <2>12. r.data \subseteq matched /\ Cardinality(r.data) = Cardinality(matched)
    <3>1. PICK n \in Nat, l \in Nat, m \in Nat : m = Cardinality(matched) /\ l = job[c].limit /\ n = Cardinality(r.data)
      BY <2>1, <2>7, <2>8, <2>9, <2>10, <2>11
    <3> QED
      BY <2>1, <2>7, <2>8, <2>9, <3>1
  <2>13. r.data = matched
    BY <2>10, <2>12, FS_Subset
  <2>14. Cardinality(r.data) <= job[c].limit
    BY <2>1, <2>7, <2>8, <2>10, <2>11, <2>12
  <2> QED
    BY <2>1, <2>3, <2>4, <2>7, <2>8, <2>13, <2>14
<1>2. Typed /\ [Next]_vars =>
        [\A c \in Calls : Answers(c, "search") =>
             /\ Cardinality(answer'[c].data) <= job[c].limit
             /\ answer'[c].data = {g \in Live(dir) : /\ dir[g].class = job[c].class
                                                     /\ InScope(DN(dir[g]), job[c].base, job[c].scope)
                                                     /\ MatchFilter(dir[g], job[c].filter) = "yes"}]_vars
  BY <1>1
<1> QED
  BY <1>2, TypedInvariance, PTL DEF Spec, SearchIsComplete

(* Whatever disappears from the directory, a Delete that read that very    *)
(* object took it away: ByGUID(current.GUID) pins it, however the caller   *)
(* named it and whatever was renamed in between.                           *)
THEOREM DeletesOnlyWhatItRead == Spec => DeletesWhatItRead
<1>1. ASSUME Typed, [Next]_vars, NEW g \in Live(dir) \ Live(dir')
      PROVE  \E c \in Calls : At(c, "exec", "delete") /\ current[c].guid = g
  <2>1. PICK c \in Calls : Step(c)
    BY <1>1 DEF Next, AllReturned, vars, Live, Used
  <2>2. g \in GUIDs /\ g \in Used(dir)
    BY <1>1, FindFacts
  <2>3. CASE dir' = dir
    BY <1>1, <2>3 DEF Live, Used
  <2>4. CASE Made(c)
    BY <1>1, <2>4 DEF Made, Placed
  <2>5. CASE Overwritten(c) /\ Requested(c)
    <3>1. PICK h \in Find(dir, Named(c)), p \in Objects : Placed(dir, dir', h, p) /\ Written(c, h, p)
      BY <2>5 DEF Overwritten
    <3>2. h = g /\ p.deleted
      BY <1>1, <3>1 DEF Placed
    <3>3. job[c].op = "delete"
      BY <3>1, <3>2, FindFacts, OverwrittenFacts
    <3>4. g = current[c].guid
      BY <3>1, <3>2, <3>3, FoundByGUID DEF Named, Deleted
    <3> QED
      BY <2>5, <3>3, <3>4 DEF Requested, At
  <2> QED
    BY <1>1, <2>1, <2>3, <2>4, <2>5, DirectoryCases
<1>2. Typed /\ [Next]_vars =>
        [\A g \in Live(dir) \ Live(dir') : \E c \in Calls : At(c, "exec", "delete") /\ current[c].guid = g]_vars
  BY <1>1
<1> QED
  BY <1>2, TypedInvariance, PTL DEF Spec, DeletesWhatItRead

(* handleCreate never lets a new object share its DN or its                *)
(* sAMAccountName, with its "$", with one that was ever created.           *)
THEOREM CreatesAreUnique == Spec => CreateIsUnique
<1>1. ASSUME Typed, [Next]_vars, NEW g \in Used(dir') \ Used(dir), NEW h \in Used(dir') \ {g}
      PROVE  DN(dir'[h]) # DN(dir'[g]) /\ ~SameSam(dir'[h], dir'[g].sam)
  <2>1. PICK c \in Calls : Step(c)
    BY <1>1 DEF Next, AllReturned, vars, Used
  <2>2. CASE dir' = dir
    BY <1>1, <2>2 DEF Used
  <2>3. CASE Made(c)
    <3>1. PICK new \in GUIDs \ Used(dir), o \in Objects :
            /\ Placed(dir, dir', new, o)
            /\ \A k \in Used(dir) : DN(dir[k]) # DN(o) /\ ~SameSam(dir[k], o.sam)
      BY <2>3 DEF Made
    <3>2. g = new /\ dir'[g] = o /\ h \in Used(dir) /\ dir'[h] = dir[h]
      BY <1>1, <3>1, FindFacts DEF Placed
    <3> QED
      BY <3>1, <3>2
  <2>4. CASE Overwritten(c)
    BY <1>1, <2>4, FindFacts DEF Overwritten, Placed
  <2> QED
    BY <1>1, <2>1, <2>2, <2>3, <2>4, DirectoryCases
<1>2. Typed /\ [Next]_vars =>
        [\A g \in Used(dir') \ Used(dir) : \A h \in Used(dir') \ {g} :
           DN(dir'[h]) # DN(dir'[g]) /\ ~SameSam(dir'[h], dir'[g].sam)]_vars
  BY <1>1
<1> QED
  BY <1>2, TypedInvariance, PTL DEF Spec, CreateIsUnique

(* A create a tombstone was in the way of says so, and one that says so    *)
(* names a tombstone, though the probe of annotateAlreadyExists is a       *)
(* request of its own and other calls go on in between.                    *)
THEOREM TombstonesAreNamed == Spec => TombstoneNamed
<1> DEFINE Alike(c, o) == IF job[c].class = "ou" THEN o.name = job[c].spec.name /\ o.container = job[c].spec.container
                                                 ELSE o.sam = job[c].spec.sam
           Explained(c) ==
             /\ job[c].class \in {"ou", "user", "group"} /\ answer[c].data \in Tombstones(dir) /\ Alike(c, dir[answer[c].data])
                  => answer'[c].tombstoned
             /\ answer'[c].tombstoned =>
                  answer'[c].data \in Tombstones(dir) /\ Alike(c, dir[answer'[c].data])
<1>1. ASSUME Typed, [Next]_vars, NEW c \in Calls, pc[c] = "probe", pc'[c] = "done"
      PROVE  Explained(c)
  <2>1. AnnotateAlreadyExists(c)
    <3>1. ASSUME NEW e \in Calls, Step(e) PROVE e = c
      <4>1. Began(e) \/ GotLock(e) \/ HasRead(e) \/ WasRefused(e) \/ Ended(e)
        BY <1>1, <3>1, ControlCases
      <4> QED
        BY <1>1, <4>1 DEF Began, GotLock, HasRead, WasRefused, Ended, Moved, Typed, Control
    <3>2. Step(c)
      BY <1>1, <3>1 DEF Next, AllReturned, vars
    <3> QED
      BY <1>1, <3>2, StepCases DEF Call, Lock, Get, Create, Requested, At
  <2>2. PICK filter : filter = IF job[c].class = "ou" THEN DeletedOUFilter(job[c].spec.name, job[c].spec.container)
                                                      ELSE DeletedPrincipalFilter(job[c].spec)
    OBVIOUS
  <2>3. PICK matches : matches = HandleDeletedProbe(dir, filter)
    OBVIOUS
  <2>4. \/ matches = {} /\ answer' = [answer EXCEPT ![c] = answer[c]]
        \/ \E g \in matches : answer' = [answer EXCEPT ![c] = [answer[c] EXCEPT !.data = g, !.tombstoned = TRUE]]
    BY <2>1, <2>2, <2>3 DEF AnnotateAlreadyExists, Return
  <2>5. job[c].op = "create" /\ \E g : answer[c] = Answer("alreadyExists", g)
    BY <1>1 DEF Typed, Control
  <2>6. job[c].class \in Classes /\ job[c].spec \in Specs(job[c].class)
    BY <1>1, <2>5, JobFacts
  <2>7. /\ job[c].class # "ou" => job[c].spec.name \in Texts \/ job[c].class = "user"
        /\ job[c].class = "ou" => job[c].spec.name \in Texts
        /\ job[c].class # "ou" => job[c].spec.sam # <<>>
    BY <2>6, SpecFacts
  <2>8. ASSUME NEW g \in Tombstones(dir) PROVE g \in matches <=> Alike(c, dir[g])
    <3>1. dir[g] \in Objects
      BY <1>1, ObjectFields DEF Typed, Shape, Tombstones
    <3>2. dir[g].name # None /\ dir[g].sam # None
      BY <3>1, NoneAssumption DEF Objects
    <3>3. g \in matches <=> SameSam(dir[g], filter.sam) \/ (filter.name = dir[g].name /\ filter.container = dir[g].container)
      BY <2>3 DEF HandleDeletedProbe
    <3>4. CASE job[c].class = "ou"
      <4>1. filter.sam = None /\ filter.name = job[c].spec.name /\ filter.container = job[c].spec.container
        BY <2>2, <3>4 DEF DeletedOUFilter
      <4> QED
        BY <3>2, <3>3, <3>4, <4>1 DEF SameSam
    <3>5. CASE job[c].class # "ou"
      <4>1. filter.sam = job[c].spec.sam /\ filter.name = None
        BY <2>2, <3>5 DEF DeletedPrincipalFilter
      <4> QED
        BY <2>7, <3>2, <3>3, <3>5, <4>1 DEF SameSam
    <3> QED
      BY <3>4, <3>5
  <2>9. matches \subseteq Tombstones(dir)
    BY <2>3 DEF HandleDeletedProbe
  <2>10. CASE matches = {} /\ answer' = [answer EXCEPT ![c] = answer[c]]
    <3>1. answer'[c] = answer[c] /\ ~answer[c].tombstoned
      BY <1>1, <2>5, <2>10, AnswerOf DEF Answer
    <3> QED
      BY <2>8, <2>10, <3>1
  <2>11. CASE \E g \in matches : answer' = [answer EXCEPT ![c] = [answer[c] EXCEPT !.data = g, !.tombstoned = TRUE]]
    <3>1. PICK g \in matches : answer' = [answer EXCEPT ![c] = [answer[c] EXCEPT !.data = g, !.tombstoned = TRUE]]
      BY <2>11
    <3>2. answer'[c] = [answer[c] EXCEPT !.data = g, !.tombstoned = TRUE]
      BY <1>1, <3>1, AnswerOf
    <3>3. answer'[c].data = g /\ answer'[c].tombstoned
      BY <2>5, <3>2 DEF Answer
    <3> QED
      BY <2>8, <2>9, <3>3
  <2> QED
    BY <2>4, <2>10, <2>11
<1>2. Typed /\ [Next]_vars =>
        [\A c \in Calls : pc[c] = "probe" /\ pc'[c] = "done" => Explained(c)]_vars
  BY <1>1
<1>3. TombstoneNamed <=> [][\A c \in Calls : pc[c] = "probe" /\ pc'[c] = "done" => Explained(c)]_vars
  BY DEF TombstoneNamed
<1> HIDE DEF Explained
<1> QED
  BY <1>2, <1>3, TypedInvariance, PTL DEF Spec

(* The edges after a write: those of another directory, with one object put at g. *)
LEMMA EdgesKept ==
  ASSUME Typed, NEW g \in GUIDs, NEW p \in Objects, Placed(dir, dir', g, p),
         g \in Live(dir) => dir[g].member = p.member,
         g \notin Live(dir) => g \notin Used(dir) /\ p.member = {},
         ~p.deleted
  PROVE  Edges' = Edges
<1>1. /\ Live(dir') = Live(dir) \cup {g} /\ dir'[g] = p /\ \A h \in GUIDs \ {g} : dir'[h] = dir[h]
  BY DEF Placed
<1>2. Live(dir) \subseteq GUIDs /\ Live(dir) \subseteq Used(dir)
  BY FindFacts
<1>3. \A h \in Live(dir) : dir[h].member \subseteq Used(dir) /\ dir'[h].member = dir[h].member
  BY <1>1, <1>2 DEF Typed, Shape
<1>4. ASSUME NEW x, NEW y
      PROVE  (x \in Live(dir') /\ y \in Live(dir') /\ y \in dir'[x].member)
               <=> (x \in Live(dir) /\ y \in Live(dir) /\ y \in dir[x].member)
  BY <1>1, <1>2, <1>3
<1>5. Edges' = {e \in Live(dir') \X Live(dir') : e[2] \in dir'[e[1]].member}
  BY DEF Edges
<1>6. \A e : e \in Edges' <=> e \in Edges
  <2>1. \A e : e \in Edges' <=> \E x, y : e = <<x, y>> /\ x \in Live(dir') /\ y \in Live(dir') /\ y \in dir'[x].member
    BY <1>5
  <2>2. \A e : e \in Edges <=> \E x, y : e = <<x, y>> /\ x \in Live(dir) /\ y \in Live(dir) /\ y \in dir[x].member
    BY DEF Edges
  <2> QED
    BY <1>4, <2>1, <2>2
<1> QED
  BY <1>6

(* A deletion takes away the edges of one object and no other. *)
LEMMA EdgesVanish ==
  ASSUME Typed, NEW g \in Live(dir), NEW p \in Objects, Placed(dir, dir', g, p), p.deleted
  PROVE  Edges' = {e \in Edges : g \notin {e[1], e[2]}}
<1>1. /\ Live(dir') = Live(dir) \ {g} /\ \A h \in GUIDs \ {g} : dir'[h] = dir[h]
  BY DEF Placed
<1>2. Live(dir) \subseteq GUIDs
  BY FindFacts
<1>3. Edges' = {e \in Live(dir') \X Live(dir') : e[2] \in dir'[e[1]].member}
  BY DEF Edges
<1>4. \A e \in Live(dir) \X Live(dir) : e \in Edges' <=> (e \in Edges /\ g \notin {e[1], e[2]})
  BY <1>1, <1>2, <1>3 DEF Edges
<1>5. Edges' \subseteq Live(dir) \X Live(dir) /\ Edges \subseteq Live(dir) \X Live(dir)
  BY <1>1, <1>3 DEF Edges
<1> QED
  BY <1>4, <1>5

(* With members put into one group's set or taken out, its edges to them come or go, and no other. *)
LEMMA EdgesChanged ==
  ASSUME Typed, NEW g \in Live(dir), NEW p \in Objects, Placed(dir, dir', g, p), ~p.deleted, NEW named \in SUBSET Live(dir)
  PROVE  /\ p.member = dir[g].member \cup named => Edges' = Edges \cup ({g} \X named)
         /\ p.member = dir[g].member \ named => Edges' = Edges \ ({g} \X named)
<1>1. /\ Live(dir') = Live(dir) /\ dir'[g] = p /\ \A h \in GUIDs \ {g} : dir'[h] = dir[h]
  BY DEF Placed
<1>2. Live(dir) \subseteq GUIDs
  BY FindFacts
<1>3. Edges' = {e \in Live(dir) \X Live(dir) : e[2] \in dir'[e[1]].member}
  BY <1>1 DEF Edges
<1>4. \A e \in Live(dir) \X Live(dir) : e[1] # g => (e \in Edges' <=> e \in Edges) /\ e \notin {g} \X named
  BY <1>1, <1>2, <1>3 DEF Edges
<1>5. \A e \in Live(dir) \X Live(dir) : e[1] = g =>
        /\ (e \in Edges' <=> e[2] \in p.member) /\ (e \in Edges <=> e[2] \in dir[g].member)
        /\ e \in {g} \X named <=> e[2] \in named
  BY <1>1, <1>3 DEF Edges
<1>6. Edges' \subseteq Live(dir) \X Live(dir) /\ Edges \subseteq Live(dir) \X Live(dir) /\ {g} \X named \subseteq Live(dir) \X Live(dir)
  BY <1>3 DEF Edges
<1>7. ASSUME p.member = dir[g].member \cup named PROVE Edges' = Edges \cup ({g} \X named)
  <2>1. \A e \in Live(dir) \X Live(dir) : e \in Edges' <=> e \in Edges \cup ({g} \X named)
    BY <1>4, <1>5, <1>7
  <2> QED
    BY <1>6, <2>1
<1>8. ASSUME p.member = dir[g].member \ named PROVE Edges' = Edges \ ({g} \X named)
  <2>1. \A e \in Live(dir) \X Live(dir) : e \in Edges' <=> e \in Edges \ ({g} \X named)
    BY <1>4, <1>5, <1>8
  <2> QED
    BY <1>6, <2>1
<1> QED
  BY <1>7, <1>8

(* A step of a call changes only what that call is doing. *)
LEMMA DoingStep ==
  ASSUME Typed, NEW c \in Calls, Step(c)
  PROVE  Doing' = [Doing EXCEPT ![c] = Doing'[c]]
<1>1. /\ pc \in [Calls -> Steps]
      /\ DOMAIN job = Calls /\ DOMAIN current = Calls /\ DOMAIN answer = Calls
  BY DEF Typed, Control
<1>2. \A e \in Calls \ {c} : pc'[e] = pc[e] /\ job'[e] = job[e] /\ answer'[e] = answer[e]
  <2>1. CASE Began(c)
    BY <1>1, <2>1 DEF Began, Moved, Answered
  <2>2. CASE GotLock(c) \/ HasRead(c)
    BY <1>1, <2>2 DEF GotLock, HasRead, Moved
  <2>3. CASE WasRefused(c)
    BY <1>1, <2>3 DEF WasRefused, Moved
  <2>4. CASE Ended(c)
    BY <1>1, <2>4 DEF Ended, Moved, Answered
  <2> QED
    BY <2>1, <2>2, <2>3, <2>4, ControlCases
<1>3. \A e \in Calls \ {c} : Doing'[e] = Doing[e]
  BY <1>2 DEF Doing
<1>4. DOMAIN Doing = Calls /\ DOMAIN Doing' = Calls /\ Doing = [e \in Calls |-> Doing[e]] /\ Doing' = [e \in Calls |-> Doing'[e]]
  BY DEF Doing
<1> QED
  BY <1>3, <1>4

(* What a call is doing, by where it is; and what it does next. *)
DoingNow(c) ==
  /\ pc[c] = "start" => Doing[c] = "none"
  /\ pc[c] = "done" => Doing[c] = IF answer[c].kind = "ok" THEN "ok" ELSE "failed"
  /\ pc[c] \notin {"start", "done"} =>
       Doing[c] = IF job[c].op \in {"addMembers", "removeMembers", "delete"} THEN job[c].op ELSE "other"

(* By definition. *)
LEMMA DoingFacts == ASSUME NEW c \in Calls PROVE DoingNow(c) /\ DoingNow(c)'
BY DEF Doing, DoingNow, MemberOps

(* A call sets out: it ends at once only when it names no member. *)
LEMMA CallPromised ==
  ASSUME Typed, NEW c \in Calls, Step(c), Call(c)
  PROVE  Promised!Quiet(c)
<1>1. dir' = dir /\ pc[c] = "start" /\ Doing[c] = "none"
  BY DoingFacts DEF Call, DoingNow
<1>2. Edges' = Edges
  BY <1>1 DEF Edges, Live, Used
<1>3. PICK j \in Jobs[c] :
        /\ job' = [job EXCEPT ![c] = j]
        /\ \/ Idle(j) /\ (\E a : Return(c, a))
           \/ j.op = "setPassword" /\ (\E a : Return(c, a))
           \/ Go(c, IF j.op \in Writing THEN "lock" ELSE IF j.op = "get" THEN "get" ELSE "exec")
  BY DEF Call
<1>4. job'[c] = j /\ c \in DOMAIN pc
  BY <1>3 DEF Typed, Control
<1>5. CASE (Idle(j) \/ j.op = "setPassword") /\ (\E a : Return(c, a))
  <2>1. pc'[c] = "done"
    BY <1>4, <1>5 DEF Return, Go
  <2>2. Doing'[c] \in {"ok", "failed"}
    BY <2>1, DoingFacts DEF DoingNow
  <2>3. Candidates'[c] = {}
    BY <1>4, <1>5 DEF Candidates, MemberOps, Idle
  <2> QED
    BY <1>1, <1>2, <2>2, <2>3, DoingStep DEF Promised!Quiet, Promised!Goes
<1>6. CASE Go(c, IF j.op \in Writing THEN "lock" ELSE IF j.op = "get" THEN "get" ELSE "exec")
  <2>1. pc'[c] \in {"lock", "get", "exec"}
    BY <1>4, <1>6 DEF Go
  <2>2. Doing'[c] \in Promised!Asked
    BY <2>1, DoingFacts DEF DoingNow, Promised!Asked
  <2> QED
    BY <1>1, <1>2, <2>2, DoingStep DEF Promised!Quiet, Promised!Goes
<1> QED
  BY <1>3, <1>5, <1>6

(* On its way, and at the end of any other call, a call leaves the edges alone. *)
LEMMA OtherPromised ==
  ASSUME Typed, NEW c \in Calls, Step(c), Edges' = Edges, job' = job,
         pc[c] \notin {"start", "done"}, pc'[c] # "start",
         pc'[c] = "done" /\ answer'[c].kind = "ok" => job[c].op \notin {"addMembers", "removeMembers", "delete"}
  PROVE  Promised!Quiet(c) \/ UNCHANGED <<Edges, Doing>>
<1>1. Doing[c] = IF job[c].op \in {"addMembers", "removeMembers", "delete"} THEN job[c].op ELSE "other"
  BY DoingFacts DEF DoingNow
<1>2. CASE pc'[c] # "done"
  <2>1. Doing'[c] = Doing[c]
    BY <1>1, <1>2, DoingFacts DEF DoingNow
  <2>2. Doing = [e \in Calls |-> Doing[e]]
    BY DEF Doing
  <2>3. Doing' = Doing
    BY <2>1, <2>2, DoingStep
  <2> QED
    BY <2>3
<1>3. CASE pc'[c] = "done"
  <2>1. Doing'[c] = IF answer'[c].kind = "ok" THEN "ok" ELSE "failed"
    BY <1>3, DoingFacts DEF DoingNow
  <2>2. Doing[c] \in Promised!Asked
    BY <1>1 DEF Promised!Asked
  <2>3. CASE answer'[c].kind = "ok"
    BY <1>1, <1>3, <2>1, <2>3, DoingStep DEF Promised!Quiet, Promised!Goes
  <2>4. CASE answer'[c].kind # "ok"
    BY <2>1, <2>2, <2>4, DoingStep DEF Promised!Quiet, Promised!Goes
  <2> QED
    BY <2>3, <2>4
<1> QED
  BY <1>2, <1>3

(* Before its request a call ends as any other: a Delete has then failed. *)
LEMMA GetEnds ==
  ASSUME Typed, NEW c \in Calls, Get(c), pc'[c] = "done", answer'[c].kind = "ok"
  PROVE  job[c].op \in {"get", "update"}
<1>1. PICK r \in HandleRead(dir, job[c].id) :
        \/ r.err # "ok" /\ Return(c, Verbatim(r))
        \/ job[c].op \in {"get", "update"}
        \/ Go(c, "exec")
  BY DEF Get
<1>2. CASE r.err # "ok" /\ Return(c, Verbatim(r))
  <2>1. answer'[c] = Verbatim(r)
    BY <1>2, AnswerOf DEF Return
  <2> QED
    BY <1>2, <2>1 DEF Verbatim, Answer
<1>3. CASE Go(c, "exec")
  BY <1>3 DEF Go, Typed, Control
<1> QED
  BY <1>1, <1>2, <1>3

(* What a request that may change edges may be for, as Membership has it. *)
LEMMA RequestTargets ==
  ASSUME NEW c \in Calls, pc[c] = "exec", job[c].op \in {"addMembers", "removeMembers", "delete"}
  PROVE  /\ Targets[c] = Find(dir, Named(c))
         /\ job[c].op # "delete" => Candidates[c] = {Find(dir, m) : m \in job[c].members}
BY DEF Targets, Candidates, Named, At, MemberOps

(* The naming of members is Membership's. *)
LEMMA NamingIsMembers ==
  ASSUME NEW c \in Calls, pc[c] = "exec", job[c].op \in {"addMembers", "removeMembers"},
         NEW named, Naming(dir, job[c].members, named)
  PROVE  named \in Promised!Members(c)
<1>1. Candidates[c] = {Find(dir, m) : m \in job[c].members}
  BY RequestTargets
<1> QED
  BY <1>1 DEF Naming, Promised!Members

(* A request that ends its call keeps the promise. *)
LEMMA RequestPromised ==
  ASSUME Typed, NEW c \in Calls, Step(c), Requested(c)
  PROVE  Promised!Next \/ UNCHANGED <<Edges, Doing>>
<1>1. pc[c] = "exec" /\ pc'[c] = "done" /\ job' = job
  BY DEF Requested, Return, Go, Typed, Control
<1>2. Doing[c] = IF job[c].op \in {"addMembers", "removeMembers", "delete"} THEN job[c].op ELSE "other"
  BY <1>1, DoingFacts DEF DoingNow
<1>3. Doing'[c] = IF answer'[c].kind = "ok" THEN "ok" ELSE "failed"
  BY <1>1, DoingFacts DEF DoingNow
<1>4. CASE /\ dir' = dir
           /\ job[c].op \in {"update", "delete", "addMembers"} => answer'[c].kind # "ok"
           /\ job[c].op = "removeMembers" => Find(dir, job[c].id) = {} \/ \E m \in job[c].members : Find(dir, m) = {}
  <2>1. Edges' = Edges
    BY <1>4 DEF Edges, Live, Used
  <2>2. CASE job[c].op = "removeMembers" /\ answer'[c].kind = "ok"
    <3>1. Targets[c] = Find(dir, job[c].id) /\ Candidates[c] = {Find(dir, m) : m \in job[c].members}
      BY <1>1, <2>2, RequestTargets DEF Named
    <3>2. Promised!Missed(c)
      BY <1>4, <2>2, <3>1 DEF Promised!Missed
    <3> QED
      BY <1>2, <1>3, <2>1, <2>2, <3>2, DoingStep DEF Promised!Next, Promised!Quiet, Promised!Goes
  <2>3. CASE ~(job[c].op = "removeMembers" /\ answer'[c].kind = "ok")
    BY <1>1, <1>4, <2>1, <2>3, OtherPromised DEF Promised!Next
  <2> QED
    BY <2>2, <2>3
<1>5. CASE Overwritten(c)
  <2>1. PICK g \in Find(dir, Named(c)), p \in Objects : Placed(dir, dir', g, p) /\ Written(c, g, p)
    BY <1>5 DEF Overwritten
  <2>2. g \in Live(dir) /\ g \in GUIDs
    BY <2>1, FindFacts
  <2>3. CASE job[c].op = "delete"
    <3>1. p.deleted /\ answer'[c].kind = "ok"
      BY <2>1, <2>3 DEF Written
    <3>2. Edges' = {e \in Edges : g \notin {e[1], e[2]}}
      BY <2>1, <2>2, <3>1, EdgesVanish
    <3>3. g \in Targets[c]
      BY <1>1, <2>1, <2>3, RequestTargets
    <3>4. Promised!Goes(c, {"delete"}, {"ok"})
      BY <1>2, <1>3, <2>3, <3>1, DoingStep DEF Promised!Goes
    <3>5. Promised!Vanish(c)
      BY <3>2, <3>3, <3>4 DEF Promised!Vanish
    <3> QED
      BY <3>5 DEF Promised!Next
  <2>4. CASE job[c].op \in {"addMembers", "removeMembers"}
    <3>1. PICK named \in SUBSET Live(dir) :
            /\ Naming(dir, job[c].members, named) /\ answer'[c].kind = "ok"
            /\ \/ job[c].op = "addMembers" /\ p.member = dir[g].member \cup named
               \/ job[c].op = "removeMembers" /\ p.member = dir[g].member \ named
      BY <2>1, <2>4 DEF Written
    <3>2. ~p.deleted
      BY <2>1, <2>2, <2>4, OverwrittenFacts
    <3>3. named \in Promised!Members(c)
      BY <1>1, <2>4, <3>1, NamingIsMembers
    <3>4. g \in Targets[c]
      BY <1>1, <2>1, <2>4, RequestTargets
    <3>5. Promised!Goes(c, {job[c].op}, {"ok"})
      BY <1>2, <1>3, <2>4, <3>1, DoingStep DEF Promised!Goes
    <3>6. CASE job[c].op = "addMembers"
      <4>1. Edges' = Edges \cup ({g} \X named)
        BY <2>1, <2>2, <3>1, <3>2, <3>6, EdgesChanged
      <4>2. Promised!Add(c)
        BY <3>3, <3>4, <3>5, <3>6, <4>1 DEF Promised!Add
      <4> QED
        BY <4>2 DEF Promised!Next
    <3>7. CASE job[c].op = "removeMembers"
      <4>1. Edges' = Edges \ ({g} \X named)
        BY <2>1, <2>2, <3>1, <3>2, <3>7, EdgesChanged
      <4>2. Promised!Remove(c)
        BY <3>3, <3>4, <3>5, <3>7, <4>1 DEF Promised!Remove
      <4> QED
        BY <4>2 DEF Promised!Next
    <3> QED
      BY <2>4, <3>6, <3>7
  <2>5. CASE job[c].op \notin {"addMembers", "removeMembers", "delete"}
    <3>1. ~p.deleted /\ p.member = dir[g].member
      BY <2>1, <2>2, <2>5, OverwrittenFacts
    <3>2. Edges' = Edges
      BY <2>1, <2>2, <3>1, EdgesKept
    <3> QED
      BY <1>1, <2>5, <3>2, OtherPromised DEF Promised!Next
  <2> QED
    BY <2>3, <2>4, <2>5
<1> QED
  BY <1>4, <1>5, RequestCases

(* The clients on the directory implement Membership: edges are made by    *)
(* the AddMembers that asks for them, broken by the RemoveMembers that     *)
(* asks for it or with the deletion of an end, by calls that then answer   *)
(* without an error, and left alone by every other step of any call.       *)
THEOREM MembershipIsKept == Spec => MembershipSpec
<1>1. Init => Promised!Init
  <2>1. Edges \in SUBSET (GUIDs \X GUIDs)
    BY FindFacts DEF Edges
  <2>2. ASSUME Init PROVE Doing = [c \in Calls |-> "none"]
    BY <2>2 DEF Init, Doing
  <2> QED
    BY <2>1, <2>2 DEF Promised!Init
<1>2. ASSUME Typed, NEW c \in Calls, Step(c)
      PROVE  Promised!Next \/ UNCHANGED <<Edges, Doing>>
  <2>1. pc \in [Calls -> Steps] /\ (dir' = dir => Edges' = Edges)
    BY <1>2 DEF Typed, Control, Edges, Live, Used
  <2>2. CASE Call(c)
    BY <1>2, <2>2, CallPromised DEF Promised!Next
  <2>3. CASE Lock(c)
    <3>1. dir' = dir /\ job' = job /\ pc[c] = "lock" /\ pc'[c] \in {"get", "exec"}
      BY <2>1, <2>3 DEF Lock, Go
    <3> QED
      BY <1>2, <2>1, <3>1, OtherPromised DEF Promised!Next
  <2>4. CASE Get(c)
    <3>1. dir' = dir /\ job' = job /\ pc[c] = "get" /\ pc'[c] \in {"exec", "done"}
      BY <2>1, <2>4 DEF Get, Go, Return
    <3>2. pc'[c] = "done" /\ answer'[c].kind = "ok" => job[c].op \in {"get", "update"}
      BY <1>2, <2>4, GetEnds
    <3> QED
      BY <1>2, <2>1, <3>1, <3>2, OtherPromised DEF Promised!Next
  <2>5. CASE Create(c)
    <3>1. /\ pc[c] = "exec" /\ job[c].op = "create" /\ job' = job /\ pc'[c] # "start"
          /\ dir' = dir \/ Made(c)
      BY <1>2, <2>1, <2>5, CreateCases DEF Return, Go
    <3>2. ASSUME Made(c) PROVE Edges' = Edges
      <4>1. PICK new \in GUIDs \ Used(dir), o \in Objects : Placed(dir, dir', new, o) /\ o.member = {} /\ ~o.deleted
        BY <3>2 DEF Made
      <4>2. new \notin Live(dir)
        BY <4>1, FindFacts
      <4> QED
        BY <1>2, <4>1, <4>2, EdgesKept
    <3> QED
      BY <1>2, <2>1, <3>1, <3>2, OtherPromised DEF Promised!Next
  <2>6. CASE AnnotateAlreadyExists(c)
    <3>1. dir' = dir /\ job' = job /\ pc[c] = "probe" /\ pc'[c] = "done"
      BY <2>1, <2>6 DEF AnnotateAlreadyExists, Go, Return
    <3>2. job[c].op = "create"
      BY <1>2, <3>1 DEF Typed, Control
    <3> QED
      BY <1>2, <2>1, <3>1, <3>2, OtherPromised DEF Promised!Next
  <2>7. CASE Requested(c)
    BY <1>2, <2>7, RequestPromised
  <2> QED
    BY <1>2, <2>2, <2>3, <2>4, <2>5, <2>6, <2>7, StepCases
<1>3. Typed /\ [Next]_vars => [Promised!Next]_<<Edges, Doing>>
  <2>1. UNCHANGED vars => UNCHANGED <<Edges, Doing>>
    BY DEF vars, Edges, Live, Used, Doing, MemberOps
  <2> QED
    BY <1>2, <2>1 DEF Next, AllReturned
<1> QED
  BY <1>1, <1>3, TypedInvariance, PTL DEF Spec, MembershipSpec, Promised!Spec
-----------------------------------------------------------------------------
(* Once created, and once deleted, an object is so for good, and its class is the one it was created with. *)
LEMMA DirectoryKeeps ==
  ASSUME Typed, NEW c \in Calls, Step(c)
  PROVE  /\ Used(dir) \subseteq Used(dir')
         /\ \A g \in Used(dir) : dir'[g].class = dir[g].class /\ (dir[g].deleted => dir'[g].deleted)
<1>1. Used(dir) \subseteq GUIDs
  BY FindFacts
<1>2. CASE dir' = dir
  BY <1>2 DEF Used
<1>3. CASE Made(c)
  <2>1. PICK new \in GUIDs \ Used(dir), o \in Objects : Placed(dir, dir', new, o)
    BY <1>3 DEF Made
  <2> QED
    BY <1>1, <2>1 DEF Placed
<1>4. CASE Overwritten(c)
  <2>1. PICK g \in Find(dir, Named(c)), p \in Objects : Placed(dir, dir', g, p) /\ Written(c, g, p)
    BY <1>4 DEF Overwritten
  <2>2. g \in Live(dir) /\ ~dir[g].deleted
    BY <2>1, FindFacts
  <2>3. p.class = dir[g].class
    BY <2>1, <2>2, OverwrittenFacts
  <2> QED
    BY <1>1, <2>1, <2>2, <2>3 DEF Placed
<1> QED
  BY <1>2, <1>3, <1>4, DirectoryCases

(* An intended job stays one: objects keep their class and stay deleted. *)
LEMMA IntendedStep ==
  ASSUME Typed, Intended(dir), NEW c \in Calls, Step(c)
  PROVE  Intended(dir')
<1>1. ASSUME NEW e \in Calls, NEW j \in Jobs[e], j.op \in {"update", "addMembers"}
      PROVE  \E g \in Used(dir') : /\ j.id = <<"guid", g>>
                                   /\ dir'[g].deleted \/ dir'[g].class = IF j.op = "update" THEN j.class ELSE "group"
  <2>1. PICK g \in Used(dir) : /\ j.id = <<"guid", g>>
                               /\ dir[g].deleted \/ dir[g].class = IF j.op = "update" THEN j.class ELSE "group"
    BY <1>1 DEF Intended
  <2>2. /\ g \in Used(dir') /\ dir'[g].class = dir[g].class
        /\ dir[g].deleted => dir'[g].deleted
    BY DirectoryKeeps
  <2> QED
    BY <2>1, <2>2
<1> QED
  BY <1>1 DEF Intended

(* A change that is asked for as intended finds an object of its class. *)
LEMMA FoundAsIntended ==
  ASSUME Typed, Intended(dir), NEW c \in Calls, pc[c] # "start", job[c].op \in {"update", "addMembers"},
         NEW g \in Find(dir, job[c].id)
  PROVE  /\ job[c].id = <<"guid", g>>
         /\ dir[g].class = IF job[c].op = "update" THEN job[c].class ELSE "group"
<1>1. job[c] \in Jobs[c]
  BY DEF Typed, Control
<1>2. PICK h \in Used(dir) : /\ job[c].id = <<"guid", h>>
                             /\ dir[h].deleted \/ dir[h].class = IF job[c].op = "update" THEN job[c].class ELSE "group"
  BY <1>1 DEF Intended
<1>3. g = h
  BY <1>2, FoundByGUID
<1>4. ~dir[g].deleted
  BY FindFacts
<1> QED
  BY <1>2, <1>3, <1>4

(* A step of intended calls keeps the directory sound. *)
LEMMA SoundStep ==
  ASSUME Typed, Intended(dir), Sound(dir), NEW c \in Calls, Step(c)
  PROVE  Sound(dir')
<1>1. /\ Used(dir) \subseteq GUIDs /\ Live(dir) \subseteq Used(dir) /\ dir \in Directories
      /\ \A g \in Used(dir) : /\ WellFormed(dir[g])
                              /\ dir[g].member \subseteq Used(dir)
                              /\ dir[g].member # {} => dir[g].class = "group"
                              /\ SameAce(dir[g].dacl) = {}
  BY FindFacts DEF Sound, Typed, Shape
<1>2. CASE dir' = dir
  BY <1>2 DEF Sound, Used
<1>3. CASE Made(c)
  <2>1. PICK new \in GUIDs \ Used(dir), o \in Objects :
          /\ Placed(dir, dir', new, o) /\ o.member = {} /\ o.dacl = <<>> /\ WellFormed(o)
    BY <1>3 DEF Made
  <2>2. /\ Used(dir') = Used(dir) \cup {new} /\ dir'[new] = o
        /\ \A h \in GUIDs \ {new} : dir'[h] = dir[h]
    BY <2>1 DEF Placed
  <2>3. SameAce(o.dacl) = {}
    <3>1. <<>> \in Seq(Aces) /\ TwinFree(<<>>)
      BY DEF TwinFree
    <3> QED
      BY <2>1, <3>1, TwinFreeIsSameAce
  <2> QED
    BY <1>1, <2>1, <2>2, <2>3 DEF Sound
<1>4. CASE Overwritten(c) /\ Requested(c)
  <2>1. PICK g \in Find(dir, Named(c)), p \in Objects : Placed(dir, dir', g, p) /\ Written(c, g, p)
    BY <1>4 DEF Overwritten
  <2>2. g \in Live(dir) /\ g \in Used(dir)
    BY <1>1, <2>1, FindFacts
  <2>3. /\ Used(dir') = Used(dir) /\ dir'[g] = p
        /\ \A h \in GUIDs \ {g} : dir'[h] = dir[h]
    BY <2>1, <2>2 DEF Placed
  <2>4. dir[g] \in Objects
    BY <1>1, <2>2, ObjectFields
  <2>5. p.member \subseteq Used(dir)
    BY <1>1, <2>1, <2>2, OverwrittenFacts
  <2>6. p.class = dir[g].class
    BY <2>1, <2>2, OverwrittenFacts
  <2>7. SameAce(p.dacl) = {}
    BY <1>1, <2>1, <2>2 DEF Written, Same, SameBut, Attributes
  <2>8. pc[c] # "start"
    BY <1>4 DEF Requested
  <2>9. p.member # {} => p.class = "group"
    <3>1. CASE job[c].op = "addMembers"
      <4>1. Named(c) = job[c].id
        BY <3>1 DEF Named
      <4> QED
        BY <2>1, <2>6, <2>8, <3>1, <4>1, FoundAsIntended
    <3>2. CASE job[c].op # "addMembers"
      <4>1. p.member \subseteq dir[g].member
        BY <2>1, <2>2, <3>2 DEF Written, Same, SameBut, Attributes
      <4> QED
        BY <1>1, <2>2, <2>6, <4>1
    <3> QED
      BY <3>1, <3>2
  <2>10. /\ p.class = "ou" <=> p.sam = <<>>
         /\ p.class \in Suffixing => Last(p.sam) = "$"
    <3>1. /\ dir[g].class = "ou" <=> dir[g].sam = <<>>
          /\ dir[g].class \in Suffixing => Last(dir[g].sam) = "$"
      BY <1>1, <2>2 DEF WellFormed
    <3>2. CASE p.sam = dir[g].sam
      BY <2>6, <3>1, <3>2
    <3>3. CASE p.sam # dir[g].sam
      <4>1. job[c].op = "update" /\ job[c].class # "ou" /\ p.sam = Suffixed(dir[g].class, job[c].spec.sam)
        BY <2>1, <3>3 DEF Written, Same, SameBut, Attributes
      <4>2. dir[g].class = job[c].class
        <5>1. Named(c) = job[c].id
          BY <4>1 DEF Named
        <5> QED
          BY <2>1, <2>8, <4>1, <5>1, FoundAsIntended
      <4>3. job[c].spec \in Specs(job[c].class)
        BY <2>8, <4>1, JobFacts
      <4>4. job[c].spec.sam \in Seq(Texts) /\ job[c].spec.sam # <<>>
        BY <4>1, <4>3, SpecFacts
      <4>5. p.sam # <<>> /\ (dir[g].class \in Suffixing => Last(p.sam) = "$")
        BY <4>1, <4>4, SuffixedType
      <4> QED
        BY <2>6, <4>1, <4>2, <4>5
    <3> QED
      BY <3>2, <3>3
  <2>11. WellFormed(p)
    <3>1. p.class \in Classes /\ p.protected \in BOOLEAN /\ p.enabled \in BOOLEAN /\ p.deleted \in BOOLEAN
      BY DEF Objects
    <3> QED
      BY <2>10, <3>1 DEF WellFormed
  <2> QED
    BY <1>1, <2>3, <2>5, <2>7, <2>9, <2>11 DEF Sound
<1> QED
  BY <1>2, <1>3, <1>4, DirectoryCases

(* The directory and the locks of intended calls. *)
Kept == Typed /\ Locked /\ Intended(dir) /\ Sound(dir)

(* Every step keeps all of it. *)
LEMMA KeptNext ==
  ASSUME Kept, [Next]_vars
  PROVE  Kept'
<1>1. Typed'
  BY TypedNext DEF Kept
<1>2. ASSUME NEW c \in Calls, Step(c) PROVE Kept'
  <2>1. Typed /\ Locked /\ Intended(dir) /\ Sound(dir)
    BY DEF Kept
  <2>2. Locked'
    BY <1>2, <2>1, LockedStep
  <2>3. Intended(dir') /\ Sound(dir')
    BY <1>2, <2>1, IntendedStep, SoundStep
  <2> QED
    BY <1>1, <2>2, <2>3 DEF Kept, Intended, Sound
<1>3. CASE UNCHANGED vars
  <2>1. Locked'
    BY <1>3, LockedStutter DEF Kept
  <2> QED
    BY <1>1, <1>3, <2>1 DEF Kept, vars, Intended, Sound
<1> QED
  BY <1>2, <1>3 DEF Next, AllReturned

(* All of it holds at the start. *)
LEMMA KeptInit ==
  ASSUME AsIntended, Init
  PROVE  Kept
<1>1. Typed /\ Locked
  BY TypedInit
<1>2. Intended(dir) /\ Sound(dir)
  BY DEF AsIntended, Init
<1> QED
  BY <1>1, <1>2 DEF Kept

(* For intended calls it holds for ever. *)
THEOREM KeptInvariance ==
  ASSUME AsIntended
  PROVE  Spec => []Kept
<1>1. Init => Kept
  BY KeptInit
<1>2. Kept /\ [Next]_vars => Kept'
  BY KeptNext
<1> QED
  BY <1>1, <1>2, PTL DEF Spec

(* TypeOK: of calls that go through the client of the object's class, the  *)
(* directory stays sound (accounts named, "$" where it belongs, members    *)
(* only in groups, no access control entry twice) and locks are held by    *)
(* calls at work.                                                          *)
THEOREM TypeInvariance ==
  ASSUME AsIntended
  PROVE  Spec => []TypeOK
<1>1. Kept => TypeOK
  BY DEF Kept, Typed, Control, Steps, Locked, TypeOK
<1> QED
  BY <1>1, KeptInvariance, PTL
-----------------------------------------------------------------------------
(* The fields a model shows, and where they come from. *)
Shown(class) ==
  {"name", "container", "description"}
    \cup (IF class = "ou" THEN {"protected"} ELSE {"sam"})
    \cup (IF class \in {"user", "computer", "gmsa"} THEN {"enabled"} ELSE {})
    \cup (IF class \in Suffixing THEN {"spns"} ELSE {})

(* The model of object g shows its attributes, the sAMAccountName without  *)
(* the "$".                                                                *)
ModelShows(class, d, g) ==
  LET m == Model(class, d, g) IN
  /\ DOMAIN m = Shown(class) \cup {"guid"} /\ m["guid"] = g
  /\ \A f \in Shown(class) \ {"sam"} : m[f] = d[g][f]
  /\ "sam" \in Shown(class) => m["sam"] = IF class \in Suffixing THEN SamWithoutDollar(d[g].sam) ELSE d[g].sam

(* Every class's model does. *)
LEMMA ModelFacts ==
  ASSUME NEW class \in Classes, NEW d, NEW g
  PROVE  ModelShows(class, d, g)
<1>1. \A names : LET m == Fields(d, g, names) IN
        /\ DOMAIN m = names \cup {"guid", "name", "container"} /\ m["guid"] = g
        /\ \A f \in DOMAIN m \ {"guid"} : m[f] = d[g][f]
  BY DEF Fields
<1>2. CASE class = "ou"
  <2>1. PICK m : m = Fields(d, g, {"description", "protected"})
    OBVIOUS
  <2>2. /\ DOMAIN m = {"description", "protected", "guid", "name", "container"} /\ m["guid"] = g
        /\ \A f \in DOMAIN m \ {"guid"} : m[f] = d[g][f]
    BY <1>1, <2>1
  <2>3. Model(class, d, g) = m
    BY <1>2, <2>1 DEF Model, OUModel
  <2>4. Shown(class) = {"description", "protected", "name", "container"}
    BY <1>2 DEF Shown, Suffixing
  <2> QED
    BY <2>2, <2>3, <2>4 DEF ModelShows
<1>3. CASE class = "group"
  <2>1. PICK m : m = Fields(d, g, {"sam", "description"})
    OBVIOUS
  <2>2. /\ DOMAIN m = {"sam", "description", "guid", "name", "container"} /\ m["guid"] = g
        /\ \A f \in DOMAIN m \ {"guid"} : m[f] = d[g][f]
    BY <1>1, <2>1
  <2>3. Model(class, d, g) = m
    BY <1>3, <2>1 DEF Model, GroupModel
  <2>4. Shown(class) = {"description", "sam", "name", "container"} /\ class \notin Suffixing
    BY <1>3 DEF Shown, Suffixing
  <2> QED
    BY <2>2, <2>3, <2>4 DEF ModelShows
<1>4. CASE class = "user"
  <2>1. PICK m : m = Fields(d, g, {"sam", "description", "enabled"})
    OBVIOUS
  <2>2. /\ DOMAIN m = {"sam", "description", "enabled", "guid", "name", "container"} /\ m["guid"] = g
        /\ \A f \in DOMAIN m \ {"guid"} : m[f] = d[g][f]
    BY <1>1, <2>1
  <2>3. Model(class, d, g) = m
    BY <1>4, <2>1 DEF Model, UserModel
  <2>4. Shown(class) = {"description", "sam", "enabled", "name", "container"} /\ class \notin Suffixing
    BY <1>4 DEF Shown, Suffixing
  <2> QED
    BY <2>2, <2>3, <2>4 DEF ModelShows
<1>5. CASE class \in Suffixing
  <2>1. PICK m : m = Fields(d, g, {"sam", "description", "enabled", "spns"})
    OBVIOUS
  <2>2. /\ DOMAIN m = {"sam", "description", "enabled", "spns", "guid", "name", "container"} /\ m["guid"] = g
        /\ \A f \in DOMAIN m \ {"guid"} : m[f] = d[g][f]
    BY <1>1, <2>1
  <2>3. Model(class, d, g) = [m EXCEPT !.sam = SamWithoutDollar(@)]
    BY <1>5, <2>1 DEF Model, ComputerModel, GMSAModel, Suffixing
  <2>4. Shown(class) = {"description", "sam", "enabled", "spns", "name", "container"}
    BY <1>5 DEF Shown, Suffixing
  <2> QED
    BY <1>5, <2>2, <2>3, <2>4 DEF ModelShows
<1>6. class \in {"ou", "group", "user"} \cup Suffixing
  BY DEF Classes, Suffixing
<1> QED
  BY <1>2, <1>3, <1>4, <1>5, <1>6

(* The "$" the server adds is the one the model takes off. *)
LEMMA DollarRoundTrip ==
  ASSUME NEW class \in Suffixing, NEW sam \in Seq(Texts), sam # <<>>, Last(sam) # "$"
  PROVE  SamWithoutDollar(Suffixed(class, sam)) = sam
<1>1. PICK t : t = Append(sam, "$")
  OBVIOUS
<1>2. Suffixed(class, sam) = t
  BY <1>1 DEF Suffixed
<1>3. "$" \in Texts
  BY TextsAssumption
<1>4. /\ t \in Seq(Texts) /\ t # <<>> /\ Len(t) = Len(sam) + 1 /\ t[Len(sam) + 1] = "$"
      /\ \A i \in 1..Len(sam) : t[i] = sam[i]
  BY <1>1, <1>3, AppendProperties
<1>5. Last(t) = "$"
  BY <1>4 DEF Last
<1>6. Front(t) = SubSeq(t, 1, Len(sam))
  BY <1>4 DEF Front
<1>7. SubSeq(t, 1, Len(sam)) = sam
  BY <1>1, <1>4
<1> QED
  BY <1>2, <1>4, <1>5, <1>6, <1>7 DEF SamWithoutDollar

(* A payload carries what the spec has and the model read does not, and nothing else is left out. *)
PayloadCarries(q, class, spec, read) ==
  /\ \A f \in DOMAIN q.set : f \in Shown(class) /\ q.set[f] = spec[f] /\ spec[f] # None
                             /\ (f \in {"description", "spns"} \/ spec[f] # read[f])
  /\ \A f \in Shown(class) \cap {"sam", "description", "enabled", "spns"} :
       f \notin DOMAIN q.set => spec[f] \in {None, read[f]}
  /\ q.rename = None => spec["name"] \in {None, read["name"]}
  /\ q.rename # None => q.rename = spec["name"] /\ spec["name"] # read["name"]
  /\ q.move = None => spec["container"] = read["container"]
  /\ q.move # None => q.move = spec["container"] /\ spec["container"] # read["container"]
(* The flag of an OU is lifted for a move and set to what is wanted in the *)
(* end.                                                                    *)
ProtectionCarried(q, spec, read) ==
  \E lifted, final \in BOOLEAN :
    /\ lifted <=> (q.move # None /\ read["protected"])
    /\ final = IF spec["protected"] = None THEN read["protected"] ELSE spec["protected"]
    /\ q.unprotect = lifted
    /\ q.protect = IF final # (read["protected"] /\ ~lifted) THEN final ELSE None

(* Every client's Update payload does so. *)
LEMMA PayloadContent ==
  ASSUME NEW class \in Classes, NEW id, NEW spec \in Specs(class), NEW read,
         class = "ou" => read.protected \in BOOLEAN
  PROVE  /\ PayloadCarries(Updates(class, id, spec, read), class, spec, read)
         /\ class = "ou" => ProtectionCarried(Updates(class, id, spec, read), spec, read)
         /\ class # "ou" => Updates(class, id, spec, read).protect = None
<1>1. PICK q : q = Updates(class, id, spec, read)
  OBVIOUS
<1>2. /\ spec.container \in DNs
      /\ spec.name # None => spec.name \in Texts
      /\ class # "user" => spec.name \in Texts
      /\ spec.protected # None => spec.protected \in BOOLEAN
  BY SpecFacts
<1>3. \A fields, renamed : LET p == Payload(id, spec, read, fields, renamed) IN
        /\ DOMAIN p.set = fields /\ \A f \in fields : p.set[f] = spec[f]
        /\ p.rename = (IF renamed THEN spec.name ELSE None)
        /\ p.move = (IF spec.container # read.container THEN spec.container ELSE None)
        /\ p.protect = None
  BY DEF Payload
<1>4. \A fields : /\ NonNil(spec, fields) = {f \in fields : spec[f] # None}
                  /\ Diffed(spec, read, fields) = {f \in fields : spec[f] # None /\ spec[f] # read[f]}
  BY DEF NonNil, Diffed, Differs
<1>5. spec.container # None /\ (class # "user" => spec.name # None)
  BY <1>2, NoneAssumption
<1>6. ASSUME NEW fields, NEW renamed, NEW p, p = Payload(id, spec, read, fields, renamed),
             \A f \in fields : f \in Shown(class) /\ spec[f] # None /\ (f \in {"description", "spns"} \/ spec[f] # read[f]),
             \A f \in Shown(class) \cap {"sam", "description", "enabled", "spns"} : f \notin fields => spec[f] \in {None, read[f]},
             renamed <=> (spec.name # None /\ spec.name # read.name)
      PROVE  PayloadCarries(p, class, spec, read)
  <2>1. /\ DOMAIN p.set = fields /\ \A f \in fields : p.set[f] = spec[f]
        /\ p.rename = (IF renamed THEN spec.name ELSE None)
        /\ p.move = (IF spec.container # read.container THEN spec.container ELSE None)
    BY <1>3, <1>6
  <2>2. /\ p.rename = None => spec.name \in {None, read.name}
        /\ p.rename # None => p.rename = spec.name /\ spec.name # read.name
    BY <1>6, <2>1
  <2>3. /\ p.move = None => spec.container = read.container
        /\ p.move # None => p.move = spec.container /\ spec.container # read.container
    BY <1>5, <2>1
  <2> QED
    BY <1>6, <2>1, <2>2, <2>3 DEF PayloadCarries
<1>7. CASE class = "ou"
  <2>1. PICK p, fields : fields = NonNil(spec, {"description"}) /\ p = Payload(id, spec, read, fields, spec.name # read.name)
    OBVIOUS
  <2>2. \A f \in fields : f \in Shown(class) /\ spec[f] # None /\ f \in {"description", "spns"}
    BY <1>4, <2>1 DEF Shown
  <2>3. \A f \in Shown(class) \cap {"sam", "description", "enabled", "spns"} : f \notin fields => spec[f] \in {None, read[f]}
    BY <1>4, <1>7, <2>1 DEF Shown, Suffixing
  <2>4. PayloadCarries(p, class, spec, read)
    BY <1>5, <1>6, <1>7, <2>1, <2>2, <2>3
  <2>5. PICK lifted, final : /\ lifted = (p.move # None /\ read.protected)
                             /\ final = IF spec.protected = None THEN read.protected ELSE spec.protected
    OBVIOUS
  <2>6. lifted \in BOOLEAN /\ final \in BOOLEAN
    BY <1>2, <1>7, <2>5
  <2>7. q = [p EXCEPT !.unprotect = lifted, !.protect = IF final # (read.protected /\ ~lifted) THEN final ELSE None]
    BY <1>1, <1>7, <2>1, <2>5 DEF Updates, OUUpdate
  <2>8. PICK protect : protect = IF final # (read.protected /\ ~lifted) THEN final ELSE None
    OBVIOUS
  <2>9. /\ q.set = p.set /\ q.rename = p.rename /\ q.move = p.move
        /\ q.unprotect = lifted /\ q.protect = protect
    BY <2>1, <2>7, <2>8 DEF Payload
  <2>10. PayloadCarries(q, class, spec, read)
    BY <2>4, <2>9 DEF PayloadCarries
  <2>11. ProtectionCarried(q, spec, read)
    BY <2>5, <2>6, <2>8, <2>9 DEF ProtectionCarried
  <2> QED
    BY <1>1, <1>7, <2>10, <2>11
<1>8. CASE class = "group"
  <2>1. PICK fields : fields = NonNil(spec, {"description"}) \cup Diffed(spec, read, {"sam"})
    OBVIOUS
  <2>2. q = Payload(id, spec, read, fields, spec.name # read.name)
    BY <1>1, <1>8, <2>1 DEF Updates, GroupUpdate
  <2>3. \A f \in fields : f \in Shown(class) /\ spec[f] # None /\ (f \in {"description", "spns"} \/ spec[f] # read[f])
    BY <1>4, <1>8, <2>1 DEF Shown
  <2>4. \A f \in Shown(class) \cap {"sam", "description", "enabled", "spns"} : f \notin fields => spec[f] \in {None, read[f]}
    BY <1>4, <1>8, <2>1 DEF Shown, Suffixing
  <2>5. PayloadCarries(q, class, spec, read)
    BY <1>5, <1>6, <1>8, <2>2, <2>3, <2>4
  <2> QED
    BY <1>1, <1>3, <1>8, <2>2, <2>5
<1>9. CASE class = "user"
  <2>1. PICK fields : fields = NonNil(spec, {"description"}) \cup Diffed(spec, read, {"sam", "enabled"})
    OBVIOUS
  <2>2. q = Payload(id, spec, read, fields, Differs(spec, read, "name"))
    BY <1>1, <1>9, <2>1 DEF Updates, UserUpdate
  <2>3. \A f \in fields : f \in Shown(class) /\ spec[f] # None /\ (f \in {"description", "spns"} \/ spec[f] # read[f])
    BY <1>4, <1>9, <2>1 DEF Shown
  <2>4. \A f \in Shown(class) \cap {"sam", "description", "enabled", "spns"} : f \notin fields => spec[f] \in {None, read[f]}
    BY <1>4, <1>9, <2>1 DEF Shown, Suffixing
  <2>5. Differs(spec, read, "name") <=> (spec.name # None /\ spec.name # read.name)
    BY DEF Differs
  <2>6. PayloadCarries(q, class, spec, read)
    BY <1>6, <1>9, <2>2, <2>3, <2>4, <2>5
  <2> QED
    BY <1>1, <1>3, <1>9, <2>2, <2>6
<1>10. CASE class \in Suffixing
  <2>1. PICK fields : fields = NonNil(spec, {"description", "spns"}) \cup Diffed(spec, read, {"sam", "enabled"})
    OBVIOUS
  <2>2. q = Payload(id, spec, read, fields, spec.name # read.name)
    BY <1>1, <1>10, <2>1 DEF Updates, ComputerUpdate, GMSAUpdate, Suffixing
  <2>3. \A f \in fields : f \in Shown(class) /\ spec[f] # None /\ (f \in {"description", "spns"} \/ spec[f] # read[f])
    BY <1>4, <1>10, <2>1 DEF Shown, Suffixing
  <2>4. \A f \in Shown(class) \cap {"sam", "description", "enabled", "spns"} : f \notin fields => spec[f] \in {None, read[f]}
    BY <1>4, <1>10, <2>1 DEF Shown, Suffixing
  <2>5. class # "user" /\ class # "ou"
    BY <1>10 DEF Suffixing
  <2>6. PayloadCarries(q, class, spec, read)
    BY <1>5, <1>6, <2>2, <2>3, <2>4, <2>5
  <2> QED
    BY <1>1, <1>3, <2>2, <2>5, <2>6
<1> QED
  BY <1>7, <1>8, <1>9, <1>10 DEF Classes, Suffixing

(* An empty payload means that the model has what the spec asks for. *)
LEMMA EmptyIsMet ==
  ASSUME NEW class \in Classes, NEW id, NEW spec \in Specs(class), NEW read,
         class = "ou" => read.protected \in BOOLEAN, Empty(Updates(class, id, spec, read))
  PROVE  \A f \in Shown(class) : spec[f] \in {None, read[f]}
<1>1. PICK q : q = Updates(class, id, spec, read)
  OBVIOUS
<1>2. PayloadCarries(q, class, spec, read) /\ (class = "ou" => ProtectionCarried(q, spec, read))
  BY <1>1, PayloadContent
<1>3. DOMAIN q.set = {} /\ q.rename = None /\ q.move = None /\ q.protect = None
  BY <1>1 DEF Empty
<1>4. \A f \in Shown(class) \cap {"sam", "description", "enabled", "spns", "name", "container"} : spec[f] \in {None, read[f]}
  BY <1>2, <1>3 DEF PayloadCarries
<1>5. class = "ou" => spec["protected"] \in {None, read["protected"]}
  BY <1>2, <1>3, NoneAssumption DEF ProtectionCarried
<1> QED
  BY <1>4, <1>5 DEF Shown

(* A payload that is not empty has a reason. *)
LEMMA SomethingToDo ==
  ASSUME NEW class \in Classes, NEW id, NEW spec \in Specs(class), NEW read,
         class = "ou" => read.protected \in BOOLEAN, ~Empty(Updates(class, id, spec, read))
  PROVE  \E f \in Shown(class) : spec[f] # None /\ (f \in {"description", "spns"} \/ spec[f] # read[f])
<1>1. PICK q : q = Updates(class, id, spec, read)
  OBVIOUS
<1>2. /\ PayloadCarries(q, class, spec, read) /\ (class = "ou" => ProtectionCarried(q, spec, read))
      /\ class # "ou" => q.protect = None
  BY <1>1, PayloadContent
<1>3. DOMAIN q.set # {} \/ q.rename # None \/ q.move # None \/ q.protect # None
  BY <1>1 DEF Empty
<1>4. {"name", "container"} \subseteq Shown(class) /\ (class = "ou" => "protected" \in Shown(class))
  BY DEF Shown
<1>5. CASE DOMAIN q.set # {}
  BY <1>2, <1>5 DEF PayloadCarries
<1>6. CASE q.rename # None
  BY <1>2, <1>4, <1>6 DEF PayloadCarries
<1>7. CASE q.move # None
  BY <1>2, <1>4, <1>7 DEF PayloadCarries
<1>8. CASE q.move = None /\ q.protect # None
  <2>1. class = "ou"
    BY <1>2, <1>8
  <2>2. PICK final \in BOOLEAN :
          /\ final = IF spec["protected"] = None THEN read["protected"] ELSE spec["protected"]
          /\ q.protect = IF final # read["protected"] THEN final ELSE None
    BY <1>2, <1>8, <2>1 DEF ProtectionCarried
  <2>3. spec["protected"] # None /\ spec["protected"] # read["protected"]
    BY <1>8, <2>2
  <2> QED
    BY <1>4, <2>1, <2>3
<1> QED
  BY <1>3, <1>5, <1>6, <1>7, <1>8

(* An update of the object that was read leaves it with what the spec asks for. *)
LEMMA WrittenIsMet ==
  ASSUME NEW class \in Classes, NEW id, NEW spec \in Specs(class), NEW d, NEW e, NEW g,
         d[g] \in Objects, d[g].class = class,
         Updated(d[g], e[g], Updates(class, id, spec, Model(class, d, g))),
         e[g].sam = IF "sam" \in DOMAIN Updates(class, id, spec, Model(class, d, g)).set
                      THEN Suffixed(class, Updates(class, id, spec, Model(class, d, g)).set["sam"]) ELSE d[g].sam
  PROVE  \A f \in Shown(class) : spec[f] \in {None, Model(class, e, g)[f]}
<1>1. PICK read, o, p : read = Model(class, d, g) /\ o = d[g] /\ p = e[g]
  OBVIOUS
<1>2. PICK q : q = Updates(class, id, spec, read)
  OBVIOUS
<1>3. Updated(o, p, q) /\ p.sam = IF "sam" \in DOMAIN q.set THEN Suffixed(class, q.set["sam"]) ELSE o.sam
  BY <1>1, <1>2
<1>4. class = "ou" => read.protected \in BOOLEAN
  BY <1>1, OUModelFacts
<1>5. PayloadCarries(q, class, spec, read) /\ (class = "ou" => ProtectionCarried(q, spec, read))
  BY <1>2, <1>4, PayloadContent
<1>6. /\ \A f \in Shown(class) \ {"sam"} : read[f] = o[f]
      /\ "sam" \in Shown(class) => read["sam"] = IF class \in Suffixing THEN SamWithoutDollar(o.sam) ELSE o.sam
  <2>1. ModelShows(class, d, g)
    BY ModelFacts
  <2> QED
    BY <1>1, <2>1 DEF ModelShows
<1>7. PICK m : m = Model(class, e, g)
  OBVIOUS
<1>8. /\ \A f \in Shown(class) \ {"sam"} : m[f] = p[f]
      /\ "sam" \in Shown(class) => m["sam"] = IF class \in Suffixing THEN SamWithoutDollar(p.sam) ELSE p.sam
  <2>1. ModelShows(class, e, g)
    BY ModelFacts
  <2> QED
    BY <1>1, <1>7, <2>1 DEF ModelShows
<1>9. {"name", "container"} \subseteq Shown(class)
  BY DEF Shown
<1>10. spec["name"] \in {None, m["name"]}
  BY <1>3, <1>5, <1>6, <1>8, <1>9 DEF Updated, PayloadCarries
<1>11. spec["container"] \in {None, m["container"]}
  BY <1>3, <1>5, <1>6, <1>8, <1>9 DEF Updated, PayloadCarries
<1>12. \A f \in Shown(class) \cap {"description", "enabled", "spns"} : spec[f] \in {None, m[f]}
  BY <1>3, <1>5, <1>6, <1>8 DEF Updated, PayloadCarries
<1>13. "sam" \in Shown(class) => spec["sam"] \in {None, m["sam"]}
  <2>1. SUFFICES ASSUME "sam" \in Shown(class) PROVE spec["sam"] \in {None, m["sam"]}
    OBVIOUS
  <2>2. class # "ou"
    BY <2>1 DEF Shown, Suffixing
  <2>3. spec.sam \in Seq(Texts) /\ spec.sam # <<>> /\ Last(spec.sam) # "$"
    BY <2>2, SpecFacts
  <2>4. CASE "sam" \in DOMAIN q.set
    <3>1. p.sam = Suffixed(class, spec.sam)
      BY <1>3, <1>5, <2>4 DEF PayloadCarries
    <3>2. class \notin Suffixing => Suffixed(class, spec.sam) = spec.sam
      BY DEF Suffixed
    <3>3. class \in Suffixing => SamWithoutDollar(p.sam) = spec.sam
      BY <2>3, <3>1, DollarRoundTrip
    <3> QED
      BY <1>8, <2>1, <3>1, <3>2, <3>3
  <2>5. CASE "sam" \notin DOMAIN q.set
    BY <1>3, <1>5, <1>6, <1>8, <2>1, <2>5 DEF PayloadCarries
  <2> QED
    BY <2>4, <2>5
<1>14. class = "ou" => spec["protected"] \in {None, m["protected"]}
  <2>1. SUFFICES ASSUME class = "ou" PROVE spec["protected"] \in {None, m["protected"]}
    OBVIOUS
  <2>2. "protected" \in Shown(class) /\ read["protected"] \in BOOLEAN
    BY <1>4, <2>1 DEF Shown
  <2>3. PICK lifted, final \in BOOLEAN :
          /\ lifted <=> (q.move # None /\ read["protected"])
          /\ final = IF spec["protected"] = None THEN read["protected"] ELSE spec["protected"]
          /\ q.unprotect = lifted
          /\ q.protect = IF final # (read["protected"] /\ ~lifted) THEN final ELSE None
    BY <1>5, <2>1 DEF ProtectionCarried
  <2>4. m["protected"] = IF q.protect # None THEN q.protect
                         ELSE IF q.move # None /\ q.unprotect THEN FALSE ELSE read["protected"]
    <3>1. p.protected = IF q.protect # None THEN q.protect
                        ELSE IF q.move # None /\ q.unprotect THEN FALSE ELSE o.protected
      BY <1>3 DEF Updated
    <3>2. m["protected"] = p.protected /\ read["protected"] = o.protected
      BY <1>6, <1>8, <2>2
    <3> QED
      BY <3>1, <3>2, Zenon
  <2>5. final # None
    BY <2>3, NoneAssumption
  <2>6. m["protected"] = final
    BY <2>2, <2>3, <2>4, <2>5
  <2> QED
    BY <2>3, <2>6
<1> QED
  BY <1>7, <1>10, <1>11, <1>12, <1>13, <1>14 DEF Shown
-----------------------------------------------------------------------------
(* An update that returned has what it asked for; one that is about to    *)
(* write was asked of an object by its GUID, read it as it still is unless*)
(* it was deleted since, and has something to write.                      *)
Settled(c) ==
  pc[c] = "done" /\ job[c].op = "update" /\ answer[c].kind = "ok" =>
    \A f \in DOMAIN answer[c].data \ {"guid"} : job[c].spec[f] \in {None, answer[c].data[f]}
(* There is something to write. *)
Reason(c) ==
  /\ DOMAIN current[c] = Shown(job[c].class) \cup {"guid"}
  /\ ~Empty(Updates(job[c].class, job[c].id, job[c].spec, current[c]))
(* What was read still stands, or its object is gone. *)
StillRead(c) ==
  \E g \in Used(dir) : /\ job[c].id = <<"guid", g>>
                       /\ g \in Live(dir) => current[c] = Model(job[c].class, dir, g)
(* Both hold of an update about to write. *)
Fresh(c) == pc[c] = "exec" /\ job[c].op = "update" => Reason(c) /\ StillRead(c)
(* The inductive invariant of UpdateConverges. *)
Converging == Kept /\ \A c \in Calls : Settled(c) /\ Fresh(c)

(* A model is made of the attributes its class shows. *)
LEMMA ModelSame ==
  ASSUME NEW class \in Classes, NEW d, NEW e, NEW g,
         \A f \in {"name", "container", "sam", "description", "enabled", "spns", "protected"} : e[g][f] = d[g][f]
  PROVE  Model(class, e, g) = Model(class, d, g)
<1>1. ASSUME NEW names, names \subseteq {"sam", "description", "enabled", "spns", "protected"}
      PROVE  Fields(e, g, names) = Fields(d, g, names)
  BY <1>1 DEF Fields
<1>2. /\ OUModel(e, g) = OUModel(d, g) /\ GroupModel(e, g) = GroupModel(d, g) /\ UserModel(e, g) = UserModel(d, g)
      /\ ComputerModel(e, g) = ComputerModel(d, g) /\ GMSAModel(e, g) = GMSAModel(d, g)
  <2>1. Fields(e, g, {"description", "protected"}) = Fields(d, g, {"description", "protected"})
    BY <1>1
  <2>2. Fields(e, g, {"sam", "description"}) = Fields(d, g, {"sam", "description"})
    BY <1>1
  <2>3. Fields(e, g, {"sam", "description", "enabled"}) = Fields(d, g, {"sam", "description", "enabled"})
    BY <1>1
  <2>4. Fields(e, g, {"sam", "description", "enabled", "spns"}) = Fields(d, g, {"sam", "description", "enabled", "spns"})
    BY <1>1
  <2> QED
    BY <2>1, <2>2, <2>3, <2>4 DEF OUModel, GroupModel, UserModel, ComputerModel, GMSAModel
<1> QED
  BY <1>2 DEF Model

(* While a call is between its read and its write, no other call changes what it read, short of deleting it. *)
LEMMA ReadStands ==
  ASSUME Kept, NEW c \in Calls, NEW e \in Calls \ {c}, Step(c), pc[e] = "exec", job[e].op = "update",
         NEW g \in Used(dir), job[e].id = <<"guid", g>>, g \in Live(dir'), NEW class \in Classes
  PROVE  g \in Live(dir) /\ Model(class, dir', g) = Model(class, dir, g)
<1>1. Typed /\ Locked /\ Intended(dir) /\ Used(dir) \subseteq GUIDs
  BY FindFacts DEF Kept
<1>2. g \in Live(dir)
  <2>1. ~dir'[g].deleted
    BY FindFacts
  <2>2. ~dir[g].deleted
    BY <1>1, <2>1, DirectoryKeeps
  <2> QED
    BY <2>2 DEF Live
<1>3. CASE dir' = dir
  BY <1>2, <1>3
<1>4. CASE Made(c)
  <2>1. dir'[g] = dir[g]
    BY <1>1, <1>4 DEF Made, Placed
  <2> QED
    BY <1>2, <2>1, ModelSame
<1>5. CASE Overwritten(c) /\ Requested(c)
  <2>1. PICK h \in Find(dir, Named(c)), p \in Objects : Placed(dir, dir', h, p) /\ Written(c, h, p)
    BY <1>5 DEF Overwritten
  <2>2. CASE h # g
    <3>1. dir'[g] = dir[g]
      BY <1>1, <2>1, <2>2 DEF Placed
    <3> QED
      BY <1>2, <3>1, ModelSame
  <2>3. CASE h = g
    <3>1. pc[c] = "exec"
      BY <1>5 DEF Requested
    <3>2. job[c].op # "update"
      <4>1. SUFFICES ASSUME job[c].op = "update" PROVE FALSE
        OBVIOUS
      <4>2. Named(c) = job[c].id
        BY <4>1 DEF Named
      <4>3. job[c].id = <<"guid", g>>
        BY <1>1, <2>1, <2>3, <3>1, <4>1, <4>2, FoundAsIntended
      <4> QED
        BY <1>1, <3>1, <4>1, <4>3 DEF Locked, Writing
    <3>3. ~p.deleted /\ dir'[g] = p
      BY <2>1, <2>3, FindFacts DEF Placed
    <3>4. \A f \in {"name", "container", "sam", "description", "enabled", "spns", "protected"} : p[f] = dir[g][f]
      BY <1>2, <2>1, <2>3, <3>2, <3>3, OverwrittenFacts DEF Written, SameBut, Same, Attributes
    <3> QED
      BY <1>2, <3>3, <3>4, ModelSame
  <2> QED
    BY <2>2, <2>3
<1> QED
  BY <1>1, <1>3, <1>4, <1>5, DirectoryCases

(* What an update's own step makes of it. *)
LEMMA OwnGet ==
  ASSUME Kept, NEW c \in Calls, Get(c), job[c].op = "update"
  PROVE  /\ pc'[c] = "done" /\ answer'[c].kind = "ok" =>
              \A f \in DOMAIN answer'[c].data \ {"guid"} : job[c].spec[f] \in {None, answer'[c].data[f]}
         /\ pc'[c] # "done" => Reason(c)' /\ StillRead(c)'
         /\ job' = job /\ dir' = dir
<1>1. Typed /\ Intended(dir) /\ pc[c] = "get" /\ job' = job /\ dir' = dir
  BY DEF Kept, Get
<1>2. PICK class, id, spec : class = job[c].class /\ id = job[c].id /\ spec = job[c].spec
  OBVIOUS
<1>3. class \in Classes /\ spec \in Specs(class)
  BY <1>1, <1>2, JobFacts
<1>4. PICK r \in HandleRead(dir, id) :
        \/ r.err # "ok" /\ Return(c, Verbatim(r))
        \/ /\ r.err = "ok" /\ current' = [current EXCEPT ![c] = Model(class, dir, r.data)]
           /\ \/ Empty(Updates(class, id, spec, Model(class, dir, r.data))) /\ Return(c, Answer("ok", Model(class, dir, r.data)))
              \/ ~Empty(Updates(class, id, spec, Model(class, dir, r.data))) /\ Go(c, "exec")
  BY <1>2 DEF Get
<1>5. CASE r.err # "ok" /\ Return(c, Verbatim(r))
  <2>1. answer'[c] = Verbatim(r)
    BY <1>1, <1>5, AnswerOf DEF Return
  <2>2. answer'[c].kind # "ok" /\ pc'[c] = "done"
    BY <1>1, <1>5, <2>1 DEF Verbatim, Answer, Return, Go, Typed, Control
  <2> QED
    BY <1>1, <2>2
<1>6. CASE /\ r.err = "ok" /\ current' = [current EXCEPT ![c] = Model(class, dir, r.data)]
           /\ \/ Empty(Updates(class, id, spec, Model(class, dir, r.data))) /\ Return(c, Answer("ok", Model(class, dir, r.data)))
              \/ ~Empty(Updates(class, id, spec, Model(class, dir, r.data))) /\ Go(c, "exec")
  <2>1. PICK g, read : g = r.data /\ read = Model(class, dir, g)
    OBVIOUS
  <2>2. g \in Find(dir, id)
    BY <1>4, <1>6, <2>1 DEF HandleRead, OnFound, Response
  <2>3. id = <<"guid", g>> /\ g \in Used(dir)
    BY <1>1, <1>2, <2>2, FoundAsIntended, FindFacts
  <2>4. dir[g] \in Objects
    BY <1>1, <2>3, ObjectFields DEF Typed, Shape
  <2>5. class = "ou" => read.protected \in BOOLEAN
    BY <2>1, <2>4, OUModelFacts
  <2>6. DOMAIN read = Shown(class) \cup {"guid"}
    <3>1. ModelShows(class, dir, g)
      BY <1>3, ModelFacts
    <3> QED
      BY <2>1, <3>1 DEF ModelShows
  <2>7. CASE Empty(Updates(class, id, spec, read)) /\ Return(c, Answer("ok", read))
    <3>1. answer'[c] = Answer("ok", read)
      BY <1>1, <2>7, AnswerOf DEF Return
    <3>2. answer'[c].data = read /\ pc'[c] = "done"
      BY <1>1, <2>7, <3>1 DEF Answer, Return, Go, Typed, Control
    <3>3. \A f \in Shown(class) : spec[f] \in {None, read[f]}
      BY <1>3, <2>5, <2>7, EmptyIsMet
    <3>4. \A f \in DOMAIN read \ {"guid"} : spec[f] \in {None, read[f]}
      BY <2>6, <3>3
    <3> QED
      BY <1>1, <1>2, <3>2, <3>4
  <2>8. CASE ~Empty(Updates(class, id, spec, read)) /\ Go(c, "exec")
    <3>1. current'[c] = read /\ pc'[c] = "exec"
      BY <1>1, <1>6, <2>1, <2>8 DEF Go, Typed, Control
    <3>2. Reason(c)'
      BY <1>1, <1>2, <2>6, <2>8, <3>1 DEF Reason
    <3>3. StillRead(c)'
      BY <1>1, <1>2, <2>1, <2>3, <3>1 DEF StillRead
    <3> QED
      BY <1>1, <3>1, <3>2, <3>3
  <2> QED
    BY <1>6, <2>1, <2>7, <2>8
<1> QED
  BY <1>4, <1>5, <1>6

(* An update that still has what it read, and is accepted, leaves what its *)
(* spec asks for.                                                          *)
LEMMA OwnRequest ==
  ASSUME Kept, NEW c \in Calls, Requested(c), job[c].op = "update", StillRead(c), answer'[c].kind = "ok"
  PROVE  \A f \in DOMAIN answer'[c].data \ {"guid"} : job[c].spec[f] \in {None, answer'[c].data[f]}
<1>1. Typed /\ Intended(dir) /\ pc[c] = "exec"
  BY DEF Kept, Requested
<1>2. PICK class, id, spec : class = job[c].class /\ id = job[c].id /\ spec = job[c].spec
  OBVIOUS
<1>3. class \in Classes /\ spec \in Specs(class)
  BY <1>1, <1>2, JobFacts
<1>4. PICK g \in Find(dir, id), p \in Objects : Placed(dir, dir', g, p) /\ Written(c, g, p)
  BY <1>1, <1>2, RequestCases DEF Overwritten, Named
<1>5. id = <<"guid", g>> /\ dir[g].class = class
  BY <1>1, <1>2, <1>4, FoundAsIntended
<1>6. g \in Live(dir) /\ g \in Used(dir)
  BY <1>4, FindFacts
<1>7. current[c] = Model(class, dir, g)
  BY <1>2, <1>5, <1>6 DEF StillRead
<1>8. dir[g] \in Objects /\ dir'[g] = p
  BY <1>1, <1>4, <1>6, ObjectFields DEF Placed, Typed, Shape
<1>9. PICK q : q = Updates(class, id, spec, Model(class, dir, g))
  OBVIOUS
<1>10. /\ answer'[c].data = Model(class, dir', g)
       /\ Updated(dir[g], p, q)
       /\ p.sam = IF "sam" \in DOMAIN q.set THEN Suffixed(dir[g].class, q.set["sam"]) ELSE dir[g].sam
  BY <1>2, <1>4, <1>7, <1>9 DEF Written
<1>11. \A f \in Shown(class) : spec[f] \in {None, Model(class, dir', g)[f]}
  <2>1. PICK e : e = dir'
    OBVIOUS
  <2>2. Updated(dir[g], e[g], Updates(class, id, spec, Model(class, dir, g)))
    BY <1>8, <1>9, <1>10, <2>1
  <2>3. e[g].sam = IF "sam" \in DOMAIN Updates(class, id, spec, Model(class, dir, g)).set
                     THEN Suffixed(class, Updates(class, id, spec, Model(class, dir, g)).set["sam"]) ELSE dir[g].sam
    BY <1>5, <1>8, <1>9, <1>10, <2>1
  <2>4. \A f \in Shown(class) : spec[f] \in {None, Model(class, e, g)[f]}
    BY <1>3, <1>5, <1>8, <2>2, <2>3, WrittenIsMet
  <2> QED
    BY <2>1, <2>4
<1>12. DOMAIN Model(class, dir', g) = Shown(class) \cup {"guid"}
  <2>1. ModelShows(class, dir', g)
    BY <1>3, ModelFacts
  <2> QED
    BY <2>1 DEF ModelShows
<1> QED
  BY <1>2, <1>10, <1>11, <1>12

(* A step leaves every call, its own and the others, settled and fresh. *)
LEMMA ConvergingStep ==
  ASSUME Converging, NEW c \in Calls, Step(c)
  PROVE  \A e \in Calls : Settled(e)' /\ Fresh(e)'
<1>1. Kept /\ Typed /\ (\A e \in Calls : Settled(e) /\ Fresh(e))
  BY DEF Converging, Kept
<1>2. Began(c) \/ GotLock(c) \/ HasRead(c) \/ WasRefused(c) \/ Ended(c)
  BY <1>1, ControlCases
<1>3. ASSUME NEW e \in Calls \ {c} PROVE Settled(e)' /\ Fresh(e)'
  <2>1. pc'[e] = pc[e] /\ job'[e] = job[e] /\ current'[e] = current[e] /\ answer'[e] = answer[e]
    BY <1>1, <1>2 DEF Began, GotLock, HasRead, WasRefused, Ended, Moved, Answered, Typed, Control
  <2>2. Settled(e)'
    BY <1>1, <2>1 DEF Settled
  <2>3. ASSUME pc[e] = "exec", job[e].op = "update" PROVE Reason(e)' /\ StillRead(e)'
    <3>1. Reason(e) /\ StillRead(e)
      BY <1>1, <2>3 DEF Fresh
    <3>2. Reason(e)'
      BY <2>1, <3>1 DEF Reason
    <3>3. PICK g \in Used(dir) : /\ job[e].id = <<"guid", g>>
                                 /\ g \in Live(dir) => current[e] = Model(job[e].class, dir, g)
      BY <3>1 DEF StillRead
    <3>4. g \in Used(dir')
      BY <1>1, DirectoryKeeps
    <3>5. job[e].class \in Classes
      BY <1>1, <2>3, JobFacts
    <3>6. g \in Live(dir') => current[e] = Model(job[e].class, dir', g)
      BY <1>1, <2>3, <3>3, <3>5, ReadStands
    <3> QED
      BY <2>1, <3>2, <3>3, <3>4, <3>6 DEF StillRead
  <2> QED
    BY <2>1, <2>2, <2>3 DEF Fresh
<1>4. Settled(c)' /\ Fresh(c)'
  <2>1. CASE Call(c)
    <3>1. job'[c].op = "update" => pc'[c] = "lock"
      BY <1>1, <2>1 DEF Call, Idle, Go, Typed, Control, Writing
    <3> QED
      BY <3>1 DEF Settled, Fresh
  <2>2. CASE Lock(c)
    <3>1. job'[c].op = "update" => pc'[c] = "get"
      BY <1>1, <2>2 DEF Lock, Go, Typed, Control
    <3> QED
      BY <3>1 DEF Settled, Fresh
  <2>3. CASE Get(c)
    <3>1. job' = job
      BY <2>3 DEF Get
    <3>2. CASE job[c].op = "update"
      BY <1>1, <2>3, <3>1, <3>2, OwnGet DEF Settled, Fresh
    <3>3. CASE job[c].op # "update"
      BY <3>1, <3>3 DEF Settled, Fresh
    <3> QED
      BY <3>2, <3>3
  <2>4. CASE Create(c)
    BY <2>4 DEF Create, At, Settled, Fresh
  <2>5. CASE AnnotateAlreadyExists(c)
    BY <1>1, <2>5 DEF AnnotateAlreadyExists, Typed, Control, Settled, Fresh
  <2>6. CASE Requested(c)
    <3>1. job' = job /\ pc[c] = "exec" /\ pc'[c] = "done"
      BY <1>1, <2>6 DEF Requested, Return, Go, Typed, Control
    <3>2. CASE job[c].op = "update"
      <4>1. StillRead(c)
        BY <1>1, <3>1, <3>2 DEF Fresh
      <4> QED
        BY <1>1, <2>6, <3>1, <3>2, <4>1, OwnRequest DEF Settled, Fresh
    <3>3. CASE job[c].op # "update"
      BY <3>1, <3>3 DEF Settled, Fresh
    <3> QED
      BY <3>2, <3>3
  <2> QED
    BY <1>1, <2>1, <2>2, <2>3, <2>4, <2>5, <2>6, StepCases
<1> QED
  BY <1>3, <1>4

(* So do all steps of intended calls. *)
THEOREM ConvergingInvariance ==
  ASSUME AsIntended
  PROVE  Spec => []Converging
<1>1. Init => Converging
  <2>1. SUFFICES ASSUME Init PROVE Converging
    OBVIOUS
  <2>2. \A c \in Calls : pc[c] = "start"
    BY <2>1 DEF Init
  <2> QED
    BY <2>1, <2>2, KeptInit DEF Converging, Settled, Fresh
<1>2. Converging /\ [Next]_vars => Converging'
  <2>1. SUFFICES ASSUME Converging, [Next]_vars PROVE Converging'
    OBVIOUS
  <2>2. Kept'
    BY <2>1, KeptNext DEF Converging
  <2>3. ASSUME NEW c \in Calls, Step(c) PROVE Converging'
    BY <2>1, <2>2, <2>3, ConvergingStep DEF Converging
  <2>4. CASE UNCHANGED vars
    <3>1. \A c \in Calls : (Settled(c) <=> Settled(c)') /\ (Fresh(c) <=> Fresh(c)')
      BY <2>4 DEF vars, Settled, Fresh, Reason, StillRead
    <3> QED
      BY <2>1, <2>2, <3>1 DEF Converging
  <2> QED
    BY <2>1, <2>3, <2>4 DEF Next, AllReturned
<1> QED
  BY <1>1, <1>2, PTL DEF Spec

(* UpdateConverges: an Update by GUID that returns leaves its object with  *)
(* all its spec asked for, "$" or not, though other calls write in between *)
(* its read and its write, and one that writes has a difference or an      *)
(* uncompared field to write.                                              *)
THEOREM UpdatesConverge ==
  ASSUME AsIntended
  PROVE  Spec => []UpdateConverges
<1>1. Converging => UpdateConverges
  <2>1. SUFFICES ASSUME Converging, NEW c \in Calls
        PROVE  /\ Done(c, "update") =>
                    \A f \in DOMAIN answer[c].data \ {"guid"} : job[c].spec[f] \in {None, answer[c].data[f]}
               /\ At(c, "exec", "update") => \E f \in DOMAIN current[c] \ {"guid"} :
                    job[c].spec[f] # None /\ (f \in {"description", "spns"} \/ job[c].spec[f] # current[c][f])
    BY DEF UpdateConverges
  <2>2. Settled(c) /\ Fresh(c) /\ Typed
    BY <2>1 DEF Converging, Kept
  <2>3. ASSUME pc[c] = "exec", job[c].op = "update"
        PROVE  \E f \in DOMAIN current[c] \ {"guid"} :
                 job[c].spec[f] # None /\ (f \in {"description", "spns"} \/ job[c].spec[f] # current[c][f])
    <3>1. PICK class, id, spec, read : class = job[c].class /\ id = job[c].id /\ spec = job[c].spec /\ read = current[c]
      OBVIOUS
    <3>2. class \in Classes /\ spec \in Specs(class)
      BY <2>2, <2>3, <3>1, JobFacts
    <3>3. class = "ou" => read.protected \in BOOLEAN
      BY <2>2, <2>3, <3>1 DEF Typed, Control
    <3>4. DOMAIN read = Shown(class) \cup {"guid"} /\ ~Empty(Updates(class, id, spec, read))
      BY <2>2, <2>3, <3>1 DEF Fresh, Reason
    <3>5. \E f \in Shown(class) : spec[f] # None /\ (f \in {"description", "spns"} \/ spec[f] # read[f])
      BY <3>2, <3>3, <3>4, SomethingToDo
    <3>6. "guid" \notin Shown(class)
      BY DEF Shown
    <3> QED
      BY <3>1, <3>4, <3>5, <3>6
  <2> QED
    BY <2>2, <2>3 DEF Settled, Done, At
<1> QED
  BY <1>1, ConvergingInvariance, PTL
=============================================================================
