--------------------------- MODULE FailoverProofs ---------------------------
(***************************************************************************)
(* Theorems about Failover for every set of conns, every list of endpoints *)
(* and every cooldown.                                                     *)
(***************************************************************************)
EXTENDS Failover, SequenceTheorems, TLAPS

Pcs == {"idle", "filter", "probe", "bound", "failed"}

(* Where the conns are, and what is left of their lists. *)
ListsTyped ==
  /\ pc \in [Conns -> Pcs]
  /\ rr \in 0..Len(Endpoints) - 1 /\ start \in [Conns -> 0..Len(Endpoints) - 1]
  /\ order \in [Conns -> Seq(Hosts)] /\ candidates \in [Conns -> Seq(Hosts)]
  /\ tried \in [Conns -> SUBSET Hosts]

(* A Connect that probes has not reached the end of an empty list; without *)
(* candidates, what it has not tried is still on its list.                 *)
ProbesAll ==
  \A c \in Conns : pc[c] = "probe" =>
    /\ order[c] # <<>> \/ tried[c] # {}
    /\ candidates[c] = <<>> => Range(order[c]) \cup tried[c] = Hosts

IInv == ListsTyped /\ ProbesAll /\ AlwaysTries
-----------------------------------------------------------------------------
(* A rotation of the list holds every endpoint. *)
LEMMA RotatedFacts ==
  ASSUME NEW k \in 0..Len(Endpoints) - 1
  PROVE  Rotated(k) \in Seq(Hosts) /\ Rotated(k) # <<>> /\ Range(Rotated(k)) = Hosts
<1> DEFINE n == Len(Endpoints)
           back == SubSeq(Endpoints, k + 1, n)
           front == SubSeq(Endpoints, 1, k)
<1>1. n \in Nat /\ n > 0 /\ k \in Nat /\ k < n
  BY EndpointsAssumption
<1>2. Hosts = {Endpoints[i] : i \in 1..n}
  BY EndpointsAssumption DEF Hosts, Range
<1>3. \A i \in 1..n : Endpoints[i] \in Hosts
  BY <1>2
<1> HIDE DEF n
<1>4. back \in Seq(Hosts) /\ Len(back) = n - k /\ \A i \in 1..n - k : back[i] = Endpoints[k + i]
  <2>1. /\ back \in Seq(Hosts)
        /\ Len(back) = IF k + 1 <= n THEN n - (k + 1) + 1 ELSE 0
        /\ \A i \in 1 .. n - (k + 1) + 1 : back[i] = Endpoints[(k + 1) + i - 1]
    BY <1>1, <1>3, SubSeqProperties
  <2> QED
    BY <1>1, <2>1
<1>5. front \in Seq(Hosts) /\ Len(front) = k /\ \A i \in 1..k : front[i] = Endpoints[i]
  <2>1. /\ front \in Seq(Hosts)
        /\ Len(front) = IF 1 <= k THEN k - 1 + 1 ELSE 0
        /\ \A i \in 1 .. k - 1 + 1 : front[i] = Endpoints[1 + i - 1]
    BY <1>1, <1>3, SubSeqProperties
  <2> QED
    BY <1>1, <2>1
<1>6. Rotated(k) = back \o front
  BY DEF Rotated, n
<1> HIDE DEF back, front
<1> DEFINE r == back \o front
<1>7. /\ r \in Seq(Hosts)
      /\ Len(r) = Len(back) + Len(front)
      /\ \A i \in 1 .. Len(back) + Len(front) :
           r[i] = IF i <= Len(back) THEN back[i] ELSE front[i - Len(back)]
  BY <1>4, <1>5, ConcatProperties
<1>8. Rotated(k) = r
  BY <1>6
<1> HIDE DEF r
<1>9. r \in Seq(Hosts) /\ Len(r) = n /\ DOMAIN r = 1..n
  <2>1. Len(r) = n
    BY <1>1, <1>4, <1>5, <1>7
  <2> QED
    BY <1>7, <2>1, LenProperties
<1>10. \A i \in 1..n : \E j \in 1..n : r[j] = Endpoints[i]
  <2> SUFFICES ASSUME NEW i \in 1..n PROVE \E j \in 1..n : r[j] = Endpoints[i]
    OBVIOUS
  <2>1. CASE i > k
    <3>1. i - k \in 1..n - k /\ i - k \in 1..n
      BY <1>1, <2>1
    <3>2. r[i - k] = Endpoints[i]
      BY <1>1, <1>4, <1>5, <1>7, <2>1, <3>1
    <3> QED
      BY <3>1, <3>2
  <2>2. CASE i <= k
    <3>1. n - k + i \in 1..n /\ i \in 1..k
      BY <1>1, <2>2
    <3>2. r[n - k + i] = Endpoints[i]
      BY <1>1, <1>4, <1>5, <1>7, <2>2, <3>1
    <3> QED
      BY <3>1, <3>2
  <2>3. i \in Int /\ k \in Int
    BY <1>1
  <2> QED
    BY <2>1, <2>2, <2>3
<1>11. Range(r) \subseteq Hosts /\ r # <<>>
  BY <1>1, <1>9 DEF Range
<1>12. Hosts \subseteq Range(r)
  <2>1. Range(r) = {r[j] : j \in 1..n}
    BY <1>9 DEF Range
  <2>2. Hosts = {Endpoints[i] : i \in 1..n}
    BY <1>2 DEF n
  <2> QED
    BY <1>10, <2>1, <2>2
<1> QED
  BY <1>9, <1>11, <1>12, <1>8

(* Taking the first endpoint off a list leaves the others on it. *)
LEMMA TailRange ==
  ASSUME NEW s \in Seq(Hosts), s # <<>>
  PROVE  Tail(s) \in Seq(Hosts) /\ Head(s) \in Hosts /\ Range(s) = Range(Tail(s)) \cup {Head(s)}
<1>1. Tail(s) \in Seq(Hosts) /\ Head(s) \in Hosts
  OBVIOUS
<1>2. Len(s) \in Nat /\ Len(s) > 0 /\ Len(Tail(s)) = Len(s) - 1 /\ Head(s) = s[1]
  OBVIOUS
<1>3. \A i \in 1..Len(s) - 1 : Tail(s)[i] = s[i + 1]
  OBVIOUS
<1>4. Range(s) = {s[i] : i \in 1..Len(s)} /\ Range(Tail(s)) = {Tail(s)[i] : i \in 1..Len(s) - 1}
  <2>1. DOMAIN s = 1..Len(s) /\ DOMAIN Tail(s) = 1..Len(s) - 1
    BY <1>1, <1>2, LenProperties
  <2> QED
    BY <2>1 DEF Range
<1>5. \A i \in 1..Len(s) : i = 1 \/ (i - 1 \in 1..Len(s) - 1 /\ s[i] = Tail(s)[i - 1])
  BY <1>2, <1>3
<1>6. Range(s) \subseteq Range(Tail(s)) \cup {Head(s)}
  BY <1>2, <1>4, <1>5
<1>7. Range(Tail(s)) \cup {Head(s)} \subseteq Range(s)
  BY <1>2, <1>3, <1>4
<1> QED
  BY <1>1, <1>6, <1>7

(* No conn has connected. *)
LEMMA InitInv == Init => IInv
<1> SUFFICES ASSUME Init PROVE IInv
  OBVIOUS
<1>1. 0 \in 0..Len(Endpoints) - 1
  BY EndpointsAssumption
<1>2. ListsTyped
  BY <1>1 DEF Init, ListsTyped, Pcs
<1> QED
  BY <1>2 DEF Init, IInv, ProbesAll, AlwaysTries
-----------------------------------------------------------------------------
(* The steps of one Connect keep IInv. *)
LEMMA ConnectInv ==
  ASSUME IInv, NEW c \in Conns, Connect(c) \/ Release(c)
  PROVE  IInv'
<1> USE DEF IInv, ListsTyped, ProbesAll, AlwaysTries, Pcs, worldVars, cacheVars, connectVars
<1>1. CASE Begin(c)
  <2>1. start[c] \in 0..Len(Endpoints) - 1 /\ 0 \in 0..Len(Endpoints) - 1
    BY EndpointsAssumption
  <2>2. rr' \in 0..Len(Endpoints) - 1
    BY <1>1, EndpointsAssumption DEF Begin, Advance
  <2>3. start' \in [Conns -> 0..Len(Endpoints) - 1]
    BY <1>1, <2>1 DEF Begin
  <2>4. order' = [order EXCEPT ![c] = Rotated(start'[c])] /\ Rotated(start'[c]) \in Seq(Hosts)
    BY <1>1, <2>3, RotatedFacts DEF Begin
  <2>5. /\ pc' = [pc EXCEPT ![c] = "filter"]
        /\ candidates' = [candidates EXCEPT ![c] = <<>>]
        /\ tried' = [tried EXCEPT ![c] = {}]
    BY <1>1 DEF Begin
  <2> QED
    BY <2>2, <2>3, <2>4, <2>5
<1>2. CASE LookUp(c)
  <2>1. /\ pc[c] = "filter" /\ UNCHANGED <<rr, pc, start, tried>>
        /\ order' = [order EXCEPT ![c] = Tail(order[c])]
        /\ \/ candidates' = [candidates EXCEPT ![c] = candidates[c]]
           \/ candidates' = [candidates EXCEPT ![c] = Append(candidates[c], Head(order[c]))]
        /\ order[c] # <<>>
    BY <1>2 DEF LookUp
  <2>2. Tail(order[c]) \in Seq(Hosts) /\ Append(candidates[c], Head(order[c])) \in Seq(Hosts)
    BY <2>1, TailRange
  <2> QED
    BY <2>1, <2>2
<1>3. CASE Filtered(c)
  <2>1. /\ pc' = [pc EXCEPT ![c] = "probe"] /\ UNCHANGED <<rr, start, candidates, tried>>
        /\ order' = [order EXCEPT ![c] = ProbeList(c)]
    BY <1>3 DEF Filtered
  <2>2. /\ ProbeList(c) \in Seq(Hosts) /\ ProbeList(c) # <<>>
        /\ candidates[c] = <<>> => Range(ProbeList(c)) = Hosts
    BY RotatedFacts DEF ProbeList
  <2>3. order'[c] = ProbeList(c) /\ candidates'[c] = candidates[c] /\ tried'[c] \subseteq Hosts
    BY <2>1
  <2> QED
    BY <2>1, <2>2, <2>3
<1>4. CASE Probe(c)
  <2>1. pc[c] = "probe" /\ order[c] # <<>> /\ UNCHANGED <<rr, start, candidates>>
    BY <1>4 DEF Probe
  <2>2. /\ Tail(order[c]) \in Seq(Hosts) /\ Head(order[c]) \in Hosts
        /\ Range(order[c]) = Range(Tail(order[c])) \cup {Head(order[c])}
    BY <2>1, TailRange
  <2>3. CASE /\ pc' = [pc EXCEPT ![c] = "bound"]
             /\ order' = [order EXCEPT ![c] = <<>>]
             /\ tried' = [tried EXCEPT ![c] = {}]
    BY <2>1, <2>3
  <2>4. CASE /\ pc' = pc
             /\ order' = [order EXCEPT ![c] = Tail(order[c])]
             /\ tried' = [tried EXCEPT ![c] = tried[c] \cup {Head(order[c])}]
    <3>1. ListsTyped'
      BY <2>1, <2>2, <2>4
    <3>2. order'[c] = Tail(order[c]) /\ tried'[c] = tried[c] \cup {Head(order[c])}
      BY <2>4
    <3>3. candidates[c] = <<>> => Range(order'[c]) \cup tried'[c] = Hosts
      BY <2>1, <2>2, <3>2
    <3>4. ProbesAll'
      BY <2>1, <2>4, <3>2, <3>3
    <3>5. AlwaysTries'
      BY <2>1, <2>4
    <3> QED
      BY <3>1, <3>4, <3>5
  <2> QED
    BY <1>4, <2>3, <2>4 DEF Probe
<1>5. CASE GiveUp(c)
  <2>1. /\ pc[c] = "probe" /\ order[c] = <<>> /\ pc' = [pc EXCEPT ![c] = "failed"]
        /\ UNCHANGED <<rr, start, order, candidates, tried>>
    BY <1>5 DEF GiveUp
  <2>2. Range(<<>>) = {}
    BY DEF Range
  <2>3. tried[c] # {} /\ (candidates[c] = <<>> => tried[c] = Hosts)
    BY <2>1, <2>2
  <2> QED
    BY <2>1, <2>3
<1>6. CASE Release(c)
  <2>1. 0 \in 0..Len(Endpoints) - 1
    BY EndpointsAssumption
  <2> QED
    BY <1>6, <2>1 DEF Release
<1> QED
  BY <1>1, <1>2, <1>3, <1>4, <1>5, <1>6 DEF Connect

(* Time, hosts and contexts leave the lists alone. *)
LEMMA WorldInv ==
  ASSUME IInv,
         \/ (\E h \in Hosts : HostChanges(h)) \/ (\E c \in Conns : ContextEnds(c))
         \/ Tick \/ UNCHANGED vars
  PROVE  IInv'
<1>1. UNCHANGED <<rr, pc, start, order, candidates, tried>>
  BY DEF HostChanges, ContextEnds, Tick, vars, cacheVars, connectVars
<1> QED
  BY <1>1 DEF IInv, ListsTyped, ProbesAll, AlwaysTries

(* IInv is inductive, so it holds in every state of the failover. *)
THEOREM Invariance == Spec => []IInv
<1>1. IInv /\ [Next]_vars => IInv'
  BY ConnectInv, WorldInv DEF Next
<1> QED
  BY <1>1, InitInv, PTL DEF Spec
-----------------------------------------------------------------------------
(* A Connect that fails has made a real attempt, and has tried every       *)
(* endpoint if the negative cache had ruled all of them out, however       *)
(* other conns mark and clear endpoints between its look-ups.              *)
THEOREM FailsOnlyAfterTrying == Spec => []AlwaysTries
<1>1. IInv => AlwaysTries
  BY DEF IInv
<1> QED
  BY <1>1, Invariance, PTL
-----------------------------------------------------------------------------
(* What the lists do not tell: the cache, the contexts and the bound hosts. *)
BindingTyped ==
  /\ strategy \in {"failover", "roundrobin"} /\ up \subseteq Hosts
  /\ cooling \in [Hosts -> 0..Cooldown]
  /\ ended \in [Conns -> BOOLEAN]
  /\ active \in [Conns -> Hosts \cup {None}]
  /\ \A c \in Conns : active[c] # None <=> pc[c] = "bound"

(* No conn is bound at first. *)
LEMMA InitBinding == Init => BindingTyped
BY NoneAssumption, CooldownAssumption DEF Init, BindingTyped

(* A step of a conn binds it when a probe succeeds and at no other time. *)
LEMMA ConnBinding ==
  ASSUME ListsTyped, BindingTyped, NEW c \in Conns, Connect(c) \/ Release(c)
  PROVE  BindingTyped'
<1> USE DEF BindingTyped, ListsTyped, Pcs, worldVars, cacheVars, connectVars
<1>1. CASE Begin(c)
  BY <1>1 DEF Begin
<1>2. CASE LookUp(c) \/ Filtered(c) \/ GiveUp(c)
  BY <1>2 DEF LookUp, Filtered, GiveUp
<1>3. CASE Probe(c)
  <2> DEFINE host == Head(order[c])
  <2>1. host \in Hosts /\ pc[c] = "probe" /\ UNCHANGED <<strategy, up, ended>>
    BY <1>3, TailRange DEF Probe
  <2>2. CASE /\ cooling' = [cooling EXCEPT ![host] = 0] /\ active' = [active EXCEPT ![c] = host]
             /\ pc' = [pc EXCEPT ![c] = "bound"]
    BY <2>1, <2>2, NoneAssumption, CooldownAssumption
  <2>3. CASE cooling' = [cooling EXCEPT ![host] = Cooldown] /\ active' = active /\ pc' = pc
    BY <2>1, <2>3, CooldownAssumption
  <2> QED
    BY <1>3, <2>2, <2>3 DEF Probe
<1>4. CASE Release(c)
  BY <1>4 DEF Release
<1> QED
  BY <1>1, <1>2, <1>3, <1>4 DEF Connect

(* Time only shortens the marks. *)
LEMMA WorldBinding ==
  ASSUME BindingTyped,
         \/ (\E h \in Hosts : HostChanges(h)) \/ (\E c \in Conns : ContextEnds(c))
         \/ Tick \/ UNCHANGED vars
  PROVE  BindingTyped'
<1> USE DEF BindingTyped, worldVars, cacheVars, connectVars
<1>1. CASE Tick
  <2>1. \A h \in Hosts : TimeOfMark(cooling[h]) \in 0..Cooldown
    BY CooldownAssumption DEF TimeOfMark
  <2> QED
    BY <1>1, <2>1 DEF Tick
<1>2. ASSUME NEW h \in Hosts, HostChanges(h) PROVE BindingTyped'
  BY <1>2 DEF HostChanges
<1>3. ASSUME NEW c \in Conns, ContextEnds(c) PROVE BindingTyped'
  BY <1>3 DEF ContextEnds
<1>4. CASE UNCHANGED vars
  BY <1>4 DEF vars
<1> QED
  BY <1>1, <1>2, <1>3, <1>4

(* Every variable keeps its type, and a conn has an active host exactly    *)
(* while it is bound, whatever the others do to the cache they share.      *)
THEOREM TypeCorrect == Spec => []TypeOK
<1>1. BindingTyped /\ IInv /\ [Next]_vars => BindingTyped'
  BY ConnBinding, WorldBinding DEF Next, IInv
<1>2. BindingTyped /\ IInv => TypeOK
  BY DEF BindingTyped, IInv, ListsTyped, Pcs, TypeOK
<1> QED
  BY <1>1, <1>2, InitBinding, Invariance, PTL DEF Spec
=============================================================================
