--------------------------- MODULE LocalTransport ---------------------------
(* transport/local: a child process for each Run; a large script travels in a file. *)
EXTENDS OneShot

LocalAcquire(r) == \E label \in {"write", "spawn"} : Acquire(r, label)

(* Nobody looks whether os.Remove succeeds. *)
Unlinked(r) == IF file[r] = "there" THEN {"none", "stuck"} ELSE {file[r]}

(* writeScriptFile removes what it could not finish. *)
WriteScriptFile(r) ==
  /\ At(r, "write")
  /\ \/ Go(r, "spawn") /\ file' = Set(file, r, "there") /\ UNCHANGED <<verdict, outcome>>
     \/ Return(r, "transport") /\ \E f \in {"none", "stuck"} : file' = Set(file, r, f)
  /\ UNCHANGED <<ended, proc, applied>>

(* Any return from here on removes the file. *)
LocalReturn(r, o) == Return(r, o) /\ \E f \in Unlinked(r) : file' = Set(file, r, f)

Spawn(r) ==
  /\ At(r, "spawn")
  /\ \/ Go(r, "wait") /\ proc' = Set(proc, r, "fed") /\ UNCHANGED <<file, verdict, outcome>>
     \/ LocalReturn(r, "transport") /\ UNCHANGED proc
  /\ UNCHANGED <<ended, applied>>

(* Any exit code is a result; Wait's own errors are not. *)
LocalDone(r) ==
  /\ At(r, "wait") /\ proc[r] \in Over
  /\ \E o \in {ResultOf(r), "transport"} : LocalReturn(r, o)
  /\ UNCHANGED <<ended, proc, applied>>

(* The context is done or the timer, which may fire at any time, has fired. *)
Stop(r) == /\ At(r, "wait") /\ Go(r, "reap")
           /\ proc' = Set(proc, r, Killed(proc[r]))
           /\ UNCHANGED <<verdict, outcome, ended, file, applied>>
(* Plausible bug: what is waited for is the kill, which a child that has just ended does not need. *)
ReapKilled(r) == /\ At(r, "reap") /\ proc[r] = "dead"
                 /\ LocalReturn(r, "transport")
                 /\ UNCHANGED <<ended, proc, applied>>
Reap(r) == /\ At(r, "reap") /\ proc[r] \in Over \cup {"dead"}
           /\ LocalReturn(r, "transport")
           /\ UNCHANGED <<ended, proc, applied>>

LocalRun(r) == GiveUp(r) \/ WriteScriptFile(r) \/ Spawn(r) \/ LocalDone(r) \/ Stop(r) \/ Reap(r)
=============================================================================
