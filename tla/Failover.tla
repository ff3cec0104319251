------------------------------ MODULE Failover ------------------------------
(***************************************************************************)
(* failoverExecutor.Connect and the negative cache it shares with the      *)
(* pool's other executors (transport/winrm/failover.go).  Each conn of the *)
(* warm pool connects when a call needs it, and connects again after a     *)
(* failure or after its shell was released; several connect at once.  The  *)
(* probes, the look-ups and the marks are steps of their own, as the cache *)
(* is locked for one look-up or one mark at a time.                        *)
(***************************************************************************)
EXTENDS Naturals, Sequences, SequencesExt

CONSTANTS Conns,        \* the pooled executors
          Endpoints,    \* Config.Endpoints in their order: a sequence of hosts
          Cooldown,     \* negativeCacheCooldown, in ticks
          None          \* no executor

Hosts == Range(Endpoints)

ASSUME EndpointsAssumption == Endpoints \in Seq(Hosts) /\ Len(Endpoints) > 0
ASSUME CooldownAssumption == Cooldown \in Nat \ {0}
ASSUME NoneAssumption == None \notin Hosts

VARIABLES
  strategy,     \* Config.Strategy: "failover" or "roundrobin"
  up,           \* the hosts that answer
  cooling,      \* negativeCache: ticks until downUntil, 0 when absent or past
  rr,           \* the rotation counter the executors share
  pc, ended,    \* of each conn: what it does; is the context of the call at hand done?
  start,                \* where its Connect starts in Endpoints
  order, candidates,    \* endpoints still to look up or to probe; those found not to cool down
  active,               \* the host it is bound to
  tried         \* the hosts its Connect has probed in vain

worldVars == <<strategy, up, ended>>
cacheVars == <<cooling, rr>>
connectVars == <<start, order, candidates>>
vars == <<worldVars, cacheVars, pc, connectVars, active, tried>>

TypeOK ==
  /\ strategy \in {"failover", "roundrobin"}
  /\ up \subseteq Hosts
  /\ cooling \in [Hosts -> 0..Cooldown]
  /\ rr \in 0..Len(Endpoints) - 1
  /\ pc \in [Conns -> {"idle", "filter", "probe", "bound", "failed"}]
  /\ ended \in [Conns -> BOOLEAN]
  /\ start \in [Conns -> 0..Len(Endpoints) - 1]
  /\ \A c \in Conns : order[c] \in Seq(Hosts) /\ candidates[c] \in Seq(Hosts)
  /\ active \in [Conns -> Hosts \cup {None}]
  /\ \A c \in Conns : active[c] # None <=> pc[c] = "bound"
  /\ tried \in [Conns -> SUBSET Hosts]

Init ==
  /\ strategy \in {"failover", "roundrobin"}
  /\ up \in SUBSET Hosts
  /\ cooling = [h \in Hosts |-> 0] /\ rr = 0
  /\ pc = [c \in Conns |-> "idle"] /\ ended = [c \in Conns |-> FALSE]
  /\ start = [c \in Conns |-> 0]
  /\ order = [c \in Conns |-> <<>>] /\ candidates = [c \in Conns |-> <<>>]
  /\ active = [c \in Conns |-> None]
  /\ tried = [c \in Conns |-> {}]
-----------------------------------------------------------------------------
(* orderedEndpoints: the list, rotated by the shared counter under round-robin. *)
(* The counter is kept modulo the number of endpoints, as it is used.           *)
Rotated(k) == SubSeq(Endpoints, k + 1, Len(Endpoints)) \o SubSeq(Endpoints, 1, k)

(* Plausible bug: the counter is used before it is reduced. *)
AdvanceUnreduced == rr + 1
Advance == (rr + 1) % Len(Endpoints)

(* A call needs the conn: Connect begins, with the context of that call. *)
Begin(c) ==
  /\ pc[c] \in {"idle", "failed"}
  /\ start' = [start EXCEPT ![c] = IF strategy = "roundrobin" THEN rr ELSE 0]
  /\ rr' = IF strategy = "roundrobin" THEN Advance ELSE rr
  /\ order' = [order EXCEPT ![c] = Rotated(start'[c])]
  /\ candidates' = [candidates EXCEPT ![c] = <<>>]
  /\ pc' = [pc EXCEPT ![c] = "filter"]
  /\ ended' = [ended EXCEPT ![c] = FALSE]
  /\ tried' = [tried EXCEPT ![c] = {}]
  /\ UNCHANGED <<strategy, up, cooling, active>>

(* isDown *)
IsDown(h) == cooling[h] > 0

(* One look-up: an endpoint that is not cooling down becomes a candidate. *)
LookUp(c) ==
  /\ pc[c] = "filter" /\ order[c] # <<>>
  /\ order' = [order EXCEPT ![c] = Tail(@)]
  /\ candidates' = [candidates EXCEPT ![c] = IF IsDown(Head(order[c])) THEN @ ELSE Append(@, Head(order[c]))]
  /\ UNCHANGED <<worldVars, cacheVars, pc, start, active, tried>>

(* Plausible bug: Connect gives up when every endpoint is cooling down. *)
ProbeListNoFallback(c) == candidates[c]

(* The candidates in order; every endpoint, if there is none. *)
ProbeList(c) == IF candidates[c] = <<>> THEN Rotated(start[c]) ELSE candidates[c]

Filtered(c) ==
  /\ pc[c] = "filter" /\ order[c] = <<>>
  /\ order' = [order EXCEPT ![c] = ProbeList(c)]
  /\ pc' = [pc EXCEPT ![c] = "probe"]
  /\ UNCHANGED <<worldVars, cacheVars, start, candidates, active, tried>>

(* Plausible bug: an endpoint that fails once is never tried again. *)
TimeOfMarkForever(remaining) == remaining
TimeOfMark(remaining) == IF remaining > 0 THEN remaining - 1 ELSE 0

(* A probe: Connect of the endpoint's own executor, within connectBudget of the context. *)
Probe(c) ==
  /\ pc[c] = "probe" /\ order[c] # <<>>
  /\ LET host == Head(order[c]) IN
     /\ IF host \in up /\ ~ended[c]
          THEN /\ cooling' = [cooling EXCEPT ![host] = 0]           \* clear
               /\ active' = [active EXCEPT ![c] = host]
               /\ pc' = [pc EXCEPT ![c] = "bound"]
               /\ order' = [order EXCEPT ![c] = <<>>]
               /\ tried' = [tried EXCEPT ![c] = {}]
          ELSE /\ cooling' = [cooling EXCEPT ![host] = Cooldown]    \* markDown
               /\ order' = [order EXCEPT ![c] = Tail(@)]
               /\ tried' = [tried EXCEPT ![c] = @ \cup {host}]
               /\ UNCHANGED <<active, pc>>
  /\ UNCHANGED <<worldVars, rr, start, candidates>>

(* The list is at its end: all endpoints failed to connect. *)
GiveUp(c) ==
  /\ pc[c] = "probe" /\ order[c] = <<>>
  /\ pc' = [pc EXCEPT ![c] = "failed"]
  /\ UNCHANGED <<worldVars, cacheVars, connectVars, active, tried>>

(* The pool closes or replaces the executor; a fresh one is unbound. *)
Release(c) ==
  /\ pc[c] = "bound"
  /\ pc' = [pc EXCEPT ![c] = "idle"]
  /\ start' = [start EXCEPT ![c] = 0]
  /\ candidates' = [candidates EXCEPT ![c] = <<>>]
  /\ active' = [active EXCEPT ![c] = None]
  /\ ended' = [ended EXCEPT ![c] = FALSE]
  /\ tried' = [tried EXCEPT ![c] = {}]
  /\ UNCHANGED <<strategy, up, cacheVars, order>>

(* The world outside: time passes, hosts come and go, contexts end. *)
Tick ==
  /\ \E h \in Hosts : IsDown(h)
  /\ cooling' = [h \in Hosts |-> TimeOfMark(cooling[h])]
  /\ UNCHANGED <<worldVars, rr, pc, connectVars, active, tried>>

HostChanges(h) ==
  /\ up' = IF h \in up THEN up \ {h} ELSE up \cup {h}
  /\ UNCHANGED <<strategy, ended, cacheVars, pc, connectVars, active, tried>>

ContextEnds(c) ==
  /\ pc[c] \in {"filter", "probe"} /\ ~ended[c]
  /\ ended' = [ended EXCEPT ![c] = TRUE]
  /\ UNCHANGED <<strategy, up, cacheVars, pc, connectVars, active, tried>>

Connect(c) == Begin(c) \/ LookUp(c) \/ Filtered(c) \/ Probe(c) \/ GiveUp(c)

Next == \/ \E c \in Conns : Connect(c) \/ Release(c) \/ ContextEnds(c)
        \/ \E h \in Hosts : HostChanges(h)
        \/ Tick

Spec == Init /\ [][Next]_vars

(* A pool in use: each conn is connected when a call needs it, every probe ends within its    *)
(* budget, and the clock runs.                                                                *)
Fairness == WF_vars(Tick) /\ \A c \in Conns : WF_vars(Connect(c))

FairSpec == Spec /\ Fairness
-----------------------------------------------------------------------------
(* "The cache must never make Connect give up without a real attempt"      *)
(* (failover.go): each failed Connect has probed an endpoint, and all of   *)
(* them if the cache had ruled out all of them.                            *)
AlwaysTries ==
  \A c \in Conns : pc[c] = "failed" =>
    /\ tried[c] # {}
    /\ candidates[c] = <<>> => tried[c] = Hosts

(* Failover is real: with an endpoint that stays up and calls that wait    *)
(* for it, the conn is bound again and again, however the other endpoints  *)
(* come and go and the other conns mark and clear them.                    *)
HealthyEndpointFound ==
  (\E h \in Hosts : <>[](h \in up)) /\ (\A d \in Conns : <>[](~ended[d]))
    => \A c \in Conns : []<>(pc[c] = "bound")
=============================================================================
