------------------------------ MODULE WarmPool ------------------------------
(***************************************************************************)
(* The checkout pool of warm shells (internal/warm): Pool.Run, Pool.Close, *)
(* the background reaper, conn.ensureConnected and conn.invalidate, over   *)
(* an executor that is either internal/psrun's (local+warm, ssh+warm) or   *)
(* transport/winrm's.  Goroutines are the calls of Run, one reaper and one *)
(* Close; they meet only in the buffered channel idle, whose receiver owns *)
(* the conn until it sends it back, so conn.mu is never contended and the  *)
(* code between two channel operations is cut where the outside world can  *)
(* be observed: at Connect, at each phase of Execute, at invalidate.       *)
(***************************************************************************)
EXTENDS Naturals, Sequences, FiniteSets

CONSTANTS Runs,       \* the calls of Pool.Run, each made once
          Conns,      \* the pooled conns; Params.Concurrency is their number
          Execs,      \* the executors Params.Build may return; bounds the builds
          Backend,    \* "psrun" or "winrm": which Executor and Classifier
          None        \* no conn

ASSUME BackendAssumption == Backend \in {"psrun", "winrm"}
ASSUME ConnsAssumption == IsFiniteSet(Conns) /\ None \notin Conns

VARIABLES
  idle,       \* Pool.idle, a buffered channel: the conns at rest, oldest first
  exec, up,   \* conn.exec and conn.up
  aged,       \* conns whose lastUsed is at least ReapAfter in the past
  shell,      \* what became of each executor: its process or WinRM shell
  pc, holds, cancelled, attempt, err, outcome,    \* of each Run
  sent, applied,      \* of each Run: its scripts on the server, and those that took effect
  reaper, left, due, reaping,     \* the reaper: phase, visits left in the sweep, now - lastUsed >= ReapAfter at the tick, conn in hand
  closer, drained                 \* Close: phase, conns received for good

connVars == <<idle, exec, up, aged, shell>>
runVars == <<pc, holds, cancelled, attempt, err, outcome>>
serverVars == <<sent, applied>>
reaperVars == <<reaper, left, due, reaping>>
closerVars == <<closer, drained>>
vars == <<connVars, runVars, serverVars, reaperVars, closerVars>>

Shells == {"unbuilt", "built", "open", "dead", "closed"}
Labels == {"checkout", "connect", "create", "invoke", "wait", "triage", "invalidate",
           "return", "done"}
Failures == {"busy", "timeout", "presend", "plain"}

TypeOK ==
  /\ idle \in Seq(Conns)
  /\ exec \in [Conns -> Execs]
  /\ up \in [Conns -> BOOLEAN]
  /\ aged \in SUBSET Conns
  /\ shell \in [Execs -> Shells]
  /\ pc \in [Runs -> Labels]
  /\ holds \in [Runs -> Conns \cup {None}]
  /\ cancelled \in [Runs -> BOOLEAN]
  /\ attempt \in [Runs -> {1, 2}]
  /\ err \in [Runs -> Failures \cup {"none"}]
  /\ outcome \in [Runs -> {"pending", "ok", "transient", "transport"}]
  /\ sent \in [Runs -> Nat]
  /\ applied \in [Runs -> Nat]
  /\ reaper \in {"waiting", "sweeping", "gone"}
  /\ left \in Nat
  /\ due \in SUBSET Conns
  /\ reaping \in Conns \cup {None}
  /\ closer \in {"idle", "stopping", "draining", "done"}
  /\ drained \in SUBSET Conns

(* New: every conn gets a fresh executor and is put in idle; nothing is    *)
(* dialled.  lastUsed is the zero time, so every conn counts as aged.      *)
Init ==
  /\ idle \in {s \in [1..Cardinality(Conns) -> Conns] : \A i, j \in DOMAIN s : s[i] = s[j] => i = j}
  /\ exec \in [Conns -> Execs]
  /\ \A c, d \in Conns : exec[c] = exec[d] => c = d
  /\ up = [c \in Conns |-> FALSE]
  /\ aged = Conns
  /\ shell = [e \in Execs |-> IF \E c \in Conns : exec[c] = e THEN "built" ELSE "unbuilt"]
  /\ pc = [r \in Runs |-> "checkout"]
  /\ holds = [r \in Runs |-> None]
  /\ cancelled = [r \in Runs |-> FALSE]
  /\ attempt = [r \in Runs |-> 1]
  /\ err = [r \in Runs |-> "none"]
  /\ outcome = [r \in Runs |-> "pending"]
  /\ sent = [r \in Runs |-> 0]
  /\ applied = [r \in Runs |-> 0]
  /\ reaper = "waiting" /\ left = 0 /\ due = {} /\ reaping = None
  /\ closer = "idle" /\ drained = {}
-----------------------------------------------------------------------------
(***************************************************************************)
(* The errors.  MapError turns a failed Execute into an error kind:        *)
(* KindTransient only for WinRM's busy sentinels (psrun never answers it); *)
(* DeadShell holds only for a failure before the script was sent.          *)
(***************************************************************************)
MapErrorRetriesTimeouts(failure) == IF failure \in {"busy", "timeout"} THEN "transient" ELSE "transport"
MapError(failure) == IF failure = "busy" THEN "transient" ELSE "transport"

IsCallerTimeout(failure) == failure = "timeout"

DeadShellAny(failure) == failure \in {"presend", "plain"}
DeadShell(failure) == failure = "presend"

RebuildWithoutClose(c) ==
  /\ up' = [up EXCEPT ![c] = FALSE]
  /\ \E fresh \in Execs : /\ shell[fresh] = "unbuilt"
                          /\ exec' = [exec EXCEPT ![c] = fresh]
                          /\ shell' = [shell EXCEPT ![fresh] = "built"]

(* conn.invalidate and the reaper replace the executor of c the same way:  *)
(* the old one is closed, a fresh one built; if Build fails the closed one *)
(* stays.  Either way the conn must connect again.                         *)
Rebuild(c) ==
  LET old == exec[c]
      closed == [shell EXCEPT ![old] = IF @ \in {"open", "dead"} THEN "closed" ELSE @]
  IN /\ up' = [up EXCEPT ![c] = FALSE]
     /\ \/ /\ \E fresh \in Execs :
                /\ shell[fresh] = "unbuilt"
                /\ exec' = [exec EXCEPT ![c] = fresh]
                /\ shell' = [closed EXCEPT ![fresh] = "built"]
        \/ /\ shell' = closed
           /\ UNCHANGED exec

(* Call r stops with result o; the conn it holds still has to be returned. *)
Finish(r, o) == /\ outcome' = [outcome EXCEPT ![r] = o]
                /\ pc' = [pc EXCEPT ![r] = "return"]

Step(r, from, to) == /\ pc[r] = from
                     /\ pc' = [pc EXCEPT ![r] = to]
-----------------------------------------------------------------------------
(* Plausible bugs: Run that ignores its context, that forgets to return the conn after a failed dial, *)
(* that stamps lastUsed where a sweep under way does not see it.                                     *)
GiveUpNever(r) == FALSE

ConnectFailsKeepingConn(r) ==
  /\ pc[r] = "connect"
  /\ ~up[holds[r]]
  /\ outcome' = [outcome EXCEPT ![r] = "transport"]
  /\ pc' = [pc EXCEPT ![r] = "done"]
  /\ UNCHANGED <<connVars, holds, cancelled, attempt, err, serverVars, reaperVars, closerVars>>

ReturnConnUnseen(r) ==
  /\ Step(r, "return", "done")
  /\ holds' = [holds EXCEPT ![r] = None]
  /\ attempt' = [attempt EXCEPT ![r] = 1]
  /\ err' = [err EXCEPT ![r] = "none"]
  /\ idle' = Append(idle, holds[r])
  /\ aged' = aged \ {holds[r]}
  /\ UNCHANGED <<exec, up, shell, cancelled, outcome, serverVars, reaperVars, closerVars>>

(* Pool.Run, first select: a conn is received from idle ...                *)
Checkout(r) ==
  /\ Step(r, "checkout", "connect")
  /\ idle # <<>>
  /\ holds' = [holds EXCEPT ![r] = Head(idle)]
  /\ idle' = Tail(idle)
  /\ UNCHANGED <<exec, up, aged, shell, cancelled, attempt, err, outcome, serverVars, reaperVars,
                 closerVars>>

(* ... or the caller's context ends first: KindTransient, nothing was attempted. *)
GiveUp(r) ==
  /\ Step(r, "checkout", "done")
  /\ cancelled[r]
  /\ outcome' = [outcome EXCEPT ![r] = "transient"]
  /\ UNCHANGED <<connVars, holds, cancelled, attempt, err, serverVars, reaperVars, closerVars>>

(* The encoded command does not decode: checked once, before the first Connect. *)
DecodeFails(r) ==
  /\ pc[r] = "connect" /\ attempt[r] = 1
  /\ Finish(r, "transport")
  /\ UNCHANGED <<connVars, holds, cancelled, attempt, err, serverVars, reaperVars, closerVars>>

(* ensureConnected on a conn that is up: nothing to do. *)
AlreadyUp(r) ==
  /\ Step(r, "connect", "create")
  /\ up[holds[r]]
  /\ UNCHANGED <<connVars, holds, cancelled, attempt, err, outcome, serverVars, reaperVars, closerVars>>

(* ensureConnected dials.  A closed executor, kept because Build failed,   *)
(* can open a new channel in psrun; a closed WinRM client cannot.          *)
ConnectSucceeds(r) ==
  LET c == holds[r] IN
  /\ Step(r, "connect", "create")
  /\ ~up[c]
  /\ Backend = "winrm" => shell[exec[c]] # "closed"
  /\ shell' = [shell EXCEPT ![exec[c]] = "open"]
  /\ up' = [up EXCEPT ![c] = TRUE]
  /\ UNCHANGED <<idle, exec, aged, holds, cancelled, attempt, err, outcome, serverVars, reaperVars,
                 closerVars>>

(* The dial fails: KindTransport on either attempt, and no invalidation.   *)
ConnectFails(r) ==
  /\ pc[r] = "connect"
  /\ ~up[holds[r]]
  /\ Finish(r, "transport")
  /\ UNCHANGED <<connVars, holds, cancelled, attempt, err, serverVars, reaperVars, closerVars>>

(* Execute fails with the given failure: the first attempt is triaged, the *)
(* second (runOnce) returns whatever MapError makes of it.                 *)
Fail(r, failure) ==
  /\ err' = [err EXCEPT ![r] = failure]
  /\ IF attempt[r] = 1
       THEN /\ pc' = [pc EXCEPT ![r] = "triage"]
            /\ UNCHANGED outcome
       ELSE Finish(r, MapError(failure))
  /\ UNCHANGED <<connVars, holds, cancelled, attempt, reaperVars, closerVars>>

(* CreatePipeline: the command packet, which carries no script, goes out.  *)
(* Writing to a process that has just died may still appear to succeed.    *)
CreatePipeline(r) ==
  /\ Step(r, "create", "invoke")
  /\ UNCHANGED <<connVars, holds, cancelled, attempt, err, outcome, serverVars, reaperVars, closerVars>>

(* It fails: a pre-send failure or, in go-psrp, a busy sentinel, both raised before sending. *)
CreateFails(r) ==
  /\ pc[r] = "create"
  /\ \E failure \in IF Backend = "winrm" THEN {"presend", "busy"} ELSE {"presend"} : Fail(r, failure)
  /\ UNCHANGED serverVars

Deliver(r) == sent' = [sent EXCEPT ![r] = IF shell[exec[holds[r]]] = "open" THEN @ + 1 ELSE @]

(* Invoke sends the script; a dead shell swallows it. *)
Invoke(r) ==
  /\ Step(r, "invoke", "wait")
  /\ Deliver(r)
  /\ UNCHANGED <<connVars, holds, cancelled, attempt, err, outcome, applied, reaperVars, closerVars>>

(* Invoke fails, the script sent or not; with a context error if the caller gave up. *)
InvokeFails(r) ==
  /\ pc[r] = "invoke"
  /\ \E failure \in IF cancelled[r] THEN {"plain", "timeout"} ELSE {"plain"} : Fail(r, failure)
  /\ Deliver(r) \/ UNCHANGED sent
  /\ UNCHANGED applied

(* The pipeline completes normally: its output is the result. *)
WaitSucceeds(r) ==
  /\ pc[r] = "wait"
  /\ applied[r] > 0
  /\ Finish(r, "ok")
  /\ UNCHANGED <<connVars, holds, cancelled, attempt, err, serverVars, reaperVars, closerVars>>

(* The pipeline or the channel under it fails.  Only go-psrp's Execute     *)
(* also stops when the context ends: psrun's Wait takes no context.        *)
WaitFails(r) ==
  /\ pc[r] = "wait"
  /\ \E failure \in IF Backend = "winrm" /\ cancelled[r] THEN {"plain", "timeout"} ELSE {"plain"} :
       Fail(r, failure)
  /\ UNCHANGED serverVars

(* Run after a failed first attempt: a transient failure or the caller's   *)
(* own timeout leaves the conn alone, anything else invalidates it.        *)
Triage(r) ==
  /\ pc[r] = "triage"
  /\ IF MapError(err[r]) = "transient" \/ IsCallerTimeout(err[r])
       THEN Finish(r, MapError(err[r]))
       ELSE /\ pc' = [pc EXCEPT ![r] = "invalidate"]
            /\ UNCHANGED outcome
  /\ UNCHANGED <<connVars, holds, cancelled, attempt, err, serverVars, reaperVars, closerVars>>

(* invalidate, then exactly one retry, and only of a pre-send failure. *)
Invalidate(r) ==
  /\ pc[r] = "invalidate"
  /\ Rebuild(holds[r])
  /\ IF DeadShell(err[r])
       THEN /\ attempt' = [attempt EXCEPT ![r] = 2]
            /\ pc' = [pc EXCEPT ![r] = "connect"]
            /\ UNCHANGED outcome
       ELSE /\ Finish(r, MapError(err[r]))
            /\ UNCHANGED attempt
  /\ UNCHANGED <<idle, aged, holds, cancelled, err, serverVars, reaperVars, closerVars>>

(* The deferred return: lastUsed is stamped and the conn goes to the back  *)
(* of idle.  The locals of the call are gone with it.                      *)
ReturnConn(r) ==
  LET c == holds[r] IN
  /\ Step(r, "return", "done")
  /\ holds' = [holds EXCEPT ![r] = None]
  /\ attempt' = [attempt EXCEPT ![r] = 1]
  /\ err' = [err EXCEPT ![r] = "none"]
  /\ idle' = Append(idle, c)
  /\ aged' = aged \ {c}
  /\ due' = due \ {c}
  /\ UNCHANGED <<exec, up, shell, cancelled, outcome, serverVars, reaper, left, reaping, closerVars>>
-----------------------------------------------------------------------------
(* Plausible bugs: a sweep without its bound, a reaper that looks at a conn without receiving it, *)
(* a drain loop that stops one receive early.                                                     *)
ReapTakeUnbounded ==
  /\ reaper = "sweeping" /\ reaping = None
  /\ idle # <<>>
  /\ reaping' = Head(idle)
  /\ idle' = Tail(idle)
  /\ left' = left - 1
  /\ UNCHANGED <<exec, up, aged, shell, runVars, serverVars, reaper, due, closerVars>>

ReapTakePeeking ==
  /\ reaper = "sweeping" /\ reaping = None
  /\ left > 0 /\ idle # <<>>
  /\ reaping' = Head(idle)
  /\ left' = left - 1
  /\ UNCHANGED <<connVars, runVars, serverVars, reaper, due, closerVars>>

CloseReturnsEarly ==
  /\ closer = "draining" /\ Cardinality(drained) >= Cardinality(Conns) - 1
  /\ closer' = "done"
  /\ UNCHANGED <<connVars, runVars, serverVars, reaperVars, drained>>

(* reapLoop: the ticker fires; now and the number of conns at rest are fixed for the sweep. *)
Tick ==
  /\ reaper = "waiting"
  /\ reaper' = "sweeping"
  /\ left' = Len(idle)
  /\ due' = aged
  /\ UNCHANGED <<connVars, runVars, serverVars, reaping, closerVars>>

(* reapIdle, one visit: a conn is received if one is there. *)
ReapTake ==
  /\ reaper = "sweeping" /\ reaping = None
  /\ left > 0 /\ idle # <<>>
  /\ reaping' = Head(idle)
  /\ idle' = Tail(idle)
  /\ left' = left - 1
  /\ UNCHANGED <<exec, up, aged, shell, runVars, serverVars, reaper, due, closerVars>>

(* reapConnIfIdle, then the conn goes back: its shell is released if it is *)
(* up and was unused for ReapAfter when the ticker fired.                  *)
ReapReturn ==
  /\ reaping # None
  /\ IF up[reaping] /\ reaping \in due
       THEN Rebuild(reaping)
       ELSE UNCHANGED <<exec, up, shell>>
  /\ idle' = Append(idle, reaping)
  /\ reaping' = None
  /\ UNCHANGED <<aged, runVars, serverVars, reaper, left, due, closerVars>>

(* The sweep ends: every conn counted was visited, or none is left to take. *)
EndSweep ==
  /\ reaper = "sweeping" /\ reaping = None
  /\ left = 0 \/ idle = <<>>
  /\ reaper' = "waiting"
  /\ left' = 0
  /\ due' = {}
  /\ UNCHANGED <<connVars, runVars, serverVars, reaping, closerVars>>

(* reapLoop sees reapStop between two sweeps, and closes reapDone. *)
ReaperStops ==
  /\ reaper = "waiting" /\ closer # "idle"
  /\ reaper' = "gone"
  /\ UNCHANGED <<connVars, runVars, serverVars, left, due, reaping, closerVars>>
-----------------------------------------------------------------------------
(* Pool.Close: reapStop is closed, once. *)
CloseBegins ==
  /\ closer = "idle"
  /\ closer' = "stopping"
  /\ UNCHANGED <<connVars, runVars, serverVars, reaperVars, drained>>

(* <-reapDone *)
ReaperGone ==
  /\ closer = "stopping" /\ reaper = "gone"
  /\ closer' = "draining"
  /\ UNCHANGED <<connVars, runVars, serverVars, reaperVars, drained>>

(* One of the Concurrency receives: the conn's executor is closed if the conn is up. *)
Drain ==
  /\ closer = "draining" /\ drained # Conns
  /\ idle # <<>>
  /\ idle' = Tail(idle)
  /\ drained' = drained \cup {Head(idle)}
  /\ shell' = [shell EXCEPT ![exec[Head(idle)]] = IF up[Head(idle)] THEN "closed" ELSE @]
  /\ UNCHANGED <<exec, up, aged, runVars, serverVars, reaperVars, closer>>

CloseReturns ==
  /\ closer = "draining" /\ drained = Conns
  /\ closer' = "done"
  /\ UNCHANGED <<connVars, runVars, serverVars, reaperVars, drained>>
-----------------------------------------------------------------------------
(* The world outside: a shell dies; time passes; a caller gives up; a      *)
(* script the server holds takes effect, or is lost with its shell.        *)
ShellDies(e) ==
  /\ shell[e] = "open"
  /\ shell' = [shell EXCEPT ![e] = "dead"]
  /\ UNCHANGED <<idle, exec, up, aged, runVars, serverVars, reaperVars, closerVars>>

Elapse(c) ==
  /\ c \notin aged
  /\ aged' = aged \cup {c}
  /\ UNCHANGED <<idle, exec, up, shell, runVars, serverVars, reaperVars, closerVars>>

Cancel(r) ==
  /\ ~cancelled[r] /\ pc[r] # "done"
  /\ cancelled' = [cancelled EXCEPT ![r] = TRUE]
  /\ UNCHANGED <<connVars, pc, holds, attempt, err, outcome, serverVars, reaperVars, closerVars>>

TakeEffect(r) ==
  /\ sent[r] > 0
  /\ sent' = [sent EXCEPT ![r] = @ - 1]
  /\ applied' = [applied EXCEPT ![r] = @ + 1]
  /\ UNCHANGED <<connVars, runVars, reaperVars, closerVars>>

ScriptLost(r) ==
  /\ sent[r] > 0
  /\ sent' = [sent EXCEPT ![r] = @ - 1]
  /\ UNCHANGED <<connVars, runVars, applied, reaperVars, closerVars>>
-----------------------------------------------------------------------------
Connect(r) == AlreadyUp(r) \/ ConnectSucceeds(r) \/ ConnectFails(r)
Execute(r) == \/ CreatePipeline(r) \/ CreateFails(r) \/ Invoke(r) \/ InvokeFails(r)
              \/ WaitSucceeds(r) \/ WaitFails(r)
Run(r) == \/ Checkout(r) \/ GiveUp(r) \/ DecodeFails(r) \/ Connect(r) \/ Execute(r)
          \/ Triage(r) \/ Invalidate(r) \/ ReturnConn(r)
Reap == Tick \/ ReapTake \/ ReapReturn \/ EndSweep \/ ReaperStops
Close == CloseBegins \/ ReaperGone \/ Drain \/ CloseReturns
Environment == \/ \E e \in Execs : ShellDies(e)
               \/ \E c \in Conns : Elapse(c)
               \/ \E r \in Runs : Cancel(r) \/ TakeEffect(r) \/ ScriptLost(r)

Next == \/ \E r \in Runs : Run(r)
        \/ Reap
        \/ Close
        \/ Environment

Spec == Init /\ [][Next]_vars
-----------------------------------------------------------------------------
(* Fairness.  Every goroutine runs: a Run that has a conn goes on (Connect *)
(* and Execute are assumed to end, as their dial and read timeouts make    *)
(* them), and so do a sweep and Close.  A goroutine blocked on the channel *)
(* is in its receive queue, which Go serves in order, so a receive that is *)
(* possible again and again happens: strong fairness.  reapLoop's select   *)
(* picks at random between a ready tick and a closed reapStop, hence the   *)
(* same for ReaperStops.  Nothing is assumed of the world outside.         *)
Fairness ==
  /\ \A r \in Runs : /\ SF_vars(Checkout(r))
                     /\ WF_vars(GiveUp(r) \/ (Run(r) /\ pc[r] # "checkout"))
  /\ WF_vars(ReapTake \/ ReapReturn \/ EndSweep)
  /\ SF_vars(ReaperStops)
  /\ SF_vars(ReaperGone \/ Drain \/ CloseReturns)

FairSpec == Spec /\ Fairness
-----------------------------------------------------------------------------
InIdle(c) == \E i \in DOMAIN idle : idle[i] = c
Executing(r) == pc[r] \in {"create", "invoke", "wait"}

(* A conn is in one place only: at rest once, or in the hands of one Run,  *)
(* or of the reaper, or drained by Close; and it never gets lost, whatever *)
(* path a Run took out of the function (the deferred return in Run).       *)
ExclusiveConns ==
  /\ \A i, j \in DOMAIN idle : idle[i] = idle[j] => i = j
  /\ \A r, s \in Runs : holds[r] = holds[s] /\ holds[r] # None => r = s
  /\ \A c \in Conns :
       LET places == <<InIdle(c), \E r \in Runs : holds[r] = c, reaping = c, c \in drained>>
       IN \E i \in 1..4 : places[i] /\ \A j \in 1..4 : places[j] => j = i

(* No shell leaks: an open shell is the current executor of some conn that *)
(* knows it is up, so the reaper or Close can still release it, however    *)
(* often shells died, calls failed and builds failed before (the purpose   *)
(* of invalidate's Close and of reapConnIfIdle).                           *)
NoShellLeak == \A e \in Execs : shell[e] = "open" => \E c \in Conns : exec[c] = e /\ up[c]

(* Once Close has returned, no shell is open, the reaper is gone and no    *)
(* Run holds a conn, even if Runs and a sweep were under way when it began.*)
ClosedMeansReleased ==
  closer = "done" => /\ \A e \in Execs : shell[e] # "open"
                     /\ reaper = "gone" /\ \A r \in Runs : holds[r] = None

(* The script of one call reaches the server at most once, through the     *)
(* transparent retry and every failure; so a non-idempotent AD write is    *)
(* never doubled by the pool.                                              *)
AtMostOnce == \A r \in Runs : sent[r] + applied[r] <= 1

(* A shell is never closed under a Run that is executing a script on it,   *)
(* neither by the reaper, nor by Close, nor by another Run's invalidate.   *)
NoCloseUnderRun ==
  [][\A r \in Runs : Executing(r) /\ shell[exec[holds[r]]] = "open"
                      => shell'[exec[holds[r]]] # "closed"]_vars

(* A sweep never releases a shell that a Run used within ReapAfter, even   *)
(* when the Run came and went between the tick and the visit.              *)
ReapOnlyUnused ==
  [][\A c \in Conns : reaping = c /\ up[c] /\ ~up'[c] => c \in aged]_vars

(* Run keeps the contract core.exec relies on: at most one effect, success *)
(* only after it, KindTransient only without it.                           *)
Contract == INSTANCE TransportContract
ContractSpec == Contract!Spec

(* Close returns, whatever Runs and sweep are under way when it is called. *)
CloseCompletes == closer = "stopping" ~> closer = "done"

(* A call is served however busy the pool is, unless the pool is closed.   *)
RunServed == \A r \in Runs : pc[r] = "checkout" ~> (pc[r] = "done" \/ closer # "idle")

(* A call whose caller gave up returns, even one blocked on a closed pool. *)
CancelledReturns == \A r \in Runs : cancelled[r] ~> pc[r] = "done"
=============================================================================
