------------------------------ MODULE OneShot -------------------------------
(***************************************************************************)
(* What the transports without a pool have in common (transport/local,     *)
(* transport/ssh, transport/winrm's cold.go): a semaphore around Run, one  *)
(* PowerShell process for each Run, the caller's context.  A script takes  *)
(* effect when PowerShell sets to work on it, which it can only do once it *)
(* has been fed; it then ends with an answer, hangs, dies by itself, which *)
(* it may do before the script as well, or dies with what started it.      *)
(***************************************************************************)
EXTENDS Naturals, FiniteSets

CONSTANTS Runs,           \* the calls of Run, each made once
          Concurrency     \* of each kind of transport, the size of its semaphore

Kinds == {"local", "cold", "ssh"}

ASSUME RunsAssumption == IsFiniteSet(Runs)
ASSUME ConcurrencyAssumption == Concurrency \in [Kinds -> Nat \ {0}]

VARIABLES
  kind,                   \* "local", "cold" or "ssh": the transport, which never changes
  pc, verdict,            \* of each Run: where it is, and what it is about to return
  ended,                  \* its caller's context is done, which only cold has no timer for
  proc,                   \* its process
  file,                   \* its temporary script: "none", "there", "stuck" where its removal failed,
                          \* "left" where none was tried
  outcome, applied        \* see TransportContract

runVars == <<pc, verdict, outcome>>
worldVars == <<ended, proc, file, applied>>

Labels == {"start", "write", "spawn", "wait", "reap", "done", "create", "command", "send", "eof",
           "close", "dial", "writeReset", "writeDial", "rewrite", "session", "sessionReset",
           "sessionDial", "session2", "cleanup"}
Procs == {"none", "blocked", "fed", "working", "exited", "died", "dead"}
Verdicts == {"pending", "ok", "bare", "transient", "transport"}

CommonInit ==
  /\ kind \in Kinds
  /\ pc = [r \in Runs |-> "start"]
  /\ verdict = [r \in Runs |-> "pending"]
  /\ ended = [r \in Runs |-> FALSE]
  /\ proc = [r \in Runs |-> "none"]
  /\ file = [r \in Runs |-> "none"]
  /\ outcome = [r \in Runs |-> "pending"]
  /\ applied = [r \in Runs |-> 0]

Slots == {r \in Runs : pc[r] \notin {"start", "done"}}       \* t.sem
At(r, label) == pc[r] = label
Go(r, label) == pc' = [pc EXCEPT ![r] = label]
Set(f, r, v) == [f EXCEPT ![r] = v]

(* A return, which gives the slot back; and a return that deferred work comes before. *)
Return(r, o) == Go(r, "done") /\ outcome' = Set(outcome, r, o) /\ verdict' = Set(verdict, r, o)
Defer(r, o, label) == Go(r, label) /\ verdict' = Set(verdict, r, o) /\ UNCHANGED outcome

(* The select on the semaphore and the context. *)
Acquire(r, label) ==
  /\ At(r, "start") /\ Cardinality(Slots) < Concurrency[kind]
  /\ Go(r, label)
  /\ UNCHANGED <<verdict, outcome, worldVars>>
GiveUp(r) == /\ At(r, "start") /\ (kind = "cold" => ended[r])
             /\ Return(r, "transport") /\ UNCHANGED worldVars

(* The process is over by itself: whatever its exit status, that is a Result, with the script's answer or not. *)
Over == {"exited", "died"}
ResultOf(r) == IF proc[r] = "exited" THEN "ok" ELSE "bare"
-----------------------------------------------------------------------------
(* The world: the caller's context ends, the script is worked on, and ends or does not;         *)
(* PowerShell may be missing, or die, at any point.  What becomes of it after Run has returned  *)
(* matters only as far as it is worked on then.  The end of the context is of interest where    *)
(* Run waits; where local and ssh wait for the script their timer, which may fire at any time,  *)
(* does the same and stands for it.                                                             *)
ContextEnds(r) == /\ kind = "cold" /\ ~ended[r] /\ pc[r] \in {"start", "wait"}
                  /\ ended' = Set(ended, r, TRUE) /\ UNCHANGED <<proc, file, applied>>
Work(r) == /\ proc[r] = "fed"
           /\ proc' = Set(proc, r, "working") /\ applied' = Set(applied, r, applied[r] + 1)
           /\ UNCHANGED <<ended, file>>
Exit(r) == /\ proc[r] = "working" /\ ~At(r, "done")
           /\ proc' = Set(proc, r, "exited") /\ UNCHANGED <<ended, file, applied>>
Die(r) == /\ proc[r] \in {"blocked", "fed", "working"} /\ ~At(r, "done")
          /\ proc' = Set(proc, r, "died") /\ UNCHANGED <<ended, file, applied>>
World(r) == (ContextEnds(r) \/ Work(r) \/ Exit(r) \/ Die(r)) /\ UNCHANGED runVars

Killed(p) == IF p \in {"none"} \cup Over THEN p ELSE "dead"
=============================================================================
