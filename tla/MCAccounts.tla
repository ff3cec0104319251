----------------------------- MODULE MCAccounts -----------------------------
(* Accounts for TLC: two directories, two calls that may do anything on the list, and a third that deletes. *)
EXTENDS Accounts, TLC

CONSTANT Deleter        \* the third call

MCTexts == STRING
Root == <<>>
Sales == <<<<"OU", "sales">>>>
Lab == <<<<"OU", "lab">>>>
Ace(rights) == [trustee |-> "t", rights |-> rights]
RW == Ace(<<"read", "write">>)
WR == Ace(<<"write", "read">>)
R == Ace(<<"read">>)

Object(class, name, container, sam, members) ==
  [NewObject(class, name, container) EXCEPT !.sam = sam, !.member = members]
Tombstone(o) == [o EXCEPT !.deleted = TRUE]

(* Nested groups in a cycle, a user and a computer below them, and the tombstones of a user and a computer. *)
Nested == <<
  Object("ou", "sales", Root, <<>>, {}),
  Object("group", "staff", Root, <<"staff">>, {3, 4}),
  Object("group", "inner", Sales, <<"inner">>, {2, 5, 4}),
  Object("user", "bob", Sales, <<"bob">>, {}),
  Object("computer", "web", Root, <<"web", "$">>, {}),
  Tombstone(Object("user", "old", Root, <<"old">>, {})),
  Tombstone(Object("computer", "db", Sales, <<"db", "$">>, {}))>>
(* An empty OU and the tombstone of another, a gMSA, two paths to a user, a deleted nested group. *)
Plain == <<
  [Object("ou", "sales", Root, <<>>, {}) EXCEPT !.protected = FALSE],
  Object("group", "staff", Root, <<"staff">>, {3, 6, 7}),
  Object("group", "inner", Root, <<"inner">>, {4}),
  Object("user", "bob", Root, <<"bob">>, {}),
  Tombstone(Object("ou", "lab", Root, <<>>, {})),
  Object("group", "twin", Root, <<"twin">>, {4, 7}),
  Tombstone(Object("group", "gone", Root, <<"gone">>, {4}))>>
MCSeeds == {[g \in GUIDs |-> IF g \in DOMAIN s THEN s[g] ELSE None] : s \in {Nested, Plain}}

Spec0 == [name |-> None, container |-> Root, sam |-> <<>>, description |-> None, enabled |-> None, spns |-> None,
          protected |-> None, password |-> None]
Of(name, sam) == [Spec0 EXCEPT !.name = name, !.sam = <<sam>>]
G(g) == <<"guid", g>>
S(sam) == <<"sam", sam>>

Creating(class, spec) == [op |-> "create", class |-> class, spec |-> spec]
Creatings ==
  {Creating("ou", [Spec0 EXCEPT !.name = "lab", !.protected = FALSE]),
   Creating("group", Of("staff2", "old")), Creating("group", [Of("staff", "s2") EXCEPT !.description = ""]),
   Creating("user", Of("bob2", "bob")), Creating("user", [Of(None, "old") EXCEPT !.container = Sales]),
   Creating("user", [Of("ann", "ann") EXCEPT !.container = Sales, !.password = "p", !.enabled = TRUE]),
   Creating("computer", Of("web2", "web")), Creating("computer", [Of("x", "db") EXCEPT !.spns = {"http"}]),
   Creating("gmsa", [Of("svc", "web") EXCEPT !.description = "d"]), Creating("gmsa", Of("svc", "svc"))}

Updating(class, g, spec) == [op |-> "update", class |-> class, id |-> G(g), spec |-> spec]
Updatings ==
  {Updating("ou", 1, [Spec0 EXCEPT !.name = "sales", !.container = Lab, !.protected = TRUE]),
   Updating("ou", 1, [Spec0 EXCEPT !.name = "people"]),
   Updating("group", 3, [Of("inner", "staff") EXCEPT !.description = ""]),
   Updating("user", 4, [Of(None, "bob") EXCEPT !.enabled = FALSE]),
   Updating("user", 4, [Of("rob", "inner") EXCEPT !.description = "d", !.enabled = TRUE]),
   Updating("computer", 5, Of("web", "web")),
   Updating("computer", 5, [Of("web", "bob") EXCEPT !.container = Sales, !.spns = {"http"}])}

Deletings ==
  {[op |-> "delete", class |-> class, id |-> id, unprotect |-> u] : u \in BOOLEAN, class \in {"ou"}, id \in {G(1)}}
  \cup {[op |-> "delete", class |-> "user", id |-> id] : id \in {S(<<"bob">>), <<"dn", BuildDN("user", "bob", Root)>>, G(6)}}
  \cup {[op |-> "delete", class |-> "group", id |-> S(<<"inner">>)]}

Filter(op, attr, value, parts) == [op |-> op, attr |-> attr, value |-> value, parts |-> parts]
IsBob == Filter("eq", "sam", <<"bob">>, <<>>)
Named == Filter("present", "name", None, <<>>)
Described == Filter("present", "description", None, <<>>)
Larger == Filter(">=", "name", "a", <<>>)
Like == Filter("like", "name", {"staff", "twin"}, <<>>)
AnyOf == Filter("or", None, None, <<IsBob, Like>>)
NotBob == Filter("not", None, None, <<IsBob>>)
AllOf == Filter("and", None, None, <<NotBob, Named, Described>>)
MCFilters == {IsBob, Like, Named, Described, Larger, AnyOf, NotBob, AllOf}
Searching(class, filter, base, scope, limit) ==
  [op |-> "search", class |-> class, filter |-> filter, base |-> base, scope |-> scope, limit |-> limit]
Searchings ==
  {Searching("group", AnyOf, Root, "subtree", 1), Searching("group", AllOf, Sales, "oneLevel", 2),
   Searching("user", NotBob, Root, "subtree", 1), Searching("ou", Larger, Sales, "base", 1)}

Membering ==
  {[op |-> op, id |-> G(2)] : op \in {"members", "membersRecursive"}}
  \cup {[op |-> op, id |-> G(2), members |-> ms] :
          op \in {"addMembers", "removeMembers"}, ms \in {{}, {S(<<"bob">>), G(3)}, {G(1), G(6)}}}
  \cup {[op |-> "isMember", id |-> G(2), member |-> S(<<"bob">>)]}
Acling ==
  {[op |-> op, id |-> G(1), aces |-> aces] : op \in {"grant", "revoke"}, aces \in {<<>>, <<RW, R, WR>>, <<WR>>}}
  \cup {[op |-> "aclGet", id |-> G(1)]}
Passwords == {[op |-> "setPassword", id |-> G(4), password |-> p] : p \in {"", "p"}}
Gets == {[op |-> "get", class |-> "user", id |-> S(<<"bob">>)]}

AllJobs == Creatings \cup Updatings \cup Deletings \cup Searchings \cup Membering \cup Acling \cup Passwords \cup Gets
DeleteBob == {j \in Deletings : j.id = S(<<"bob">>)}
MCJobs == [c \in Calls |-> IF c = Deleter THEN DeleteBob ELSE AllJobs]

ASSUME MCAsIntended == AsIntended
=============================================================================
