----------------------------- MODULE Membership -----------------------------
(***************************************************************************)
(* What group membership promises to those who call (group.go, and the     *)
(* Deletes): an edge is only made by an AddMembers that names its member,  *)
(* for the group it names, and only broken by such a RemoveMembers or with *)
(* the deletion of one of its ends; a call that answers without an error   *)
(* did all it was asked, and one that fails did nothing.  What a name      *)
(* stands for is not membership's to say and may change at any time.       *)
(***************************************************************************)
CONSTANTS Calls, Objects

VARIABLES edges,        \* pairs of a group and a member, both there
          doing,        \* of each call: "none", what it is at, "ok" or "failed"
          group,        \* of each call: the objects its group, or what it deletes, may be
          named         \* of each call: for each member it names, the objects that may be

Init == edges \in SUBSET (Objects \X Objects) /\ doing = [c \in Calls |-> "none"]

Goes(c, from, to) == doing[c] \in from /\ \E d \in to : doing' = [doing EXCEPT ![c] = d]
Asked == {"addMembers", "removeMembers", "delete", "other"}

(* One object for each of the names. *)
Members(c) == {ms \in SUBSET UNION named[c] : \A s \in named[c] : s \cap ms # {}}

Add(c) == /\ Goes(c, {"addMembers"}, {"ok"})
          /\ \E g \in group[c], ms \in Members(c) : edges' = edges \cup ({g} \X ms)
Remove(c) == /\ Goes(c, {"removeMembers"}, {"ok"})
             /\ \E g \in group[c], ms \in Members(c) : edges' = edges \ ({g} \X ms)
Vanish(c) == /\ Goes(c, {"delete"}, {"ok"})
             /\ \E g \in group[c] : edges' = {e \in edges : g \notin {e[1], e[2]}}

(* Nothing to remove: the group, or one of the members, is not there. *)
Missed(c) == group[c] = {} \/ {} \in named[c]

Quiet(c) == /\ \/ Goes(c, {"none"}, Asked)
               \/ Goes(c, {"none"}, {"ok", "failed"}) /\ named'[c] = {}
               \/ Goes(c, Asked, {"failed"})
               \/ Goes(c, {"other"}, {"ok"})
               \/ Goes(c, {"removeMembers"}, {"ok"}) /\ Missed(c)
            /\ edges' = edges

Next == \E c \in Calls : Add(c) \/ Remove(c) \/ Vanish(c) \/ Quiet(c)

Spec == Init /\ [][Next]_<<edges, doing>>
=============================================================================
