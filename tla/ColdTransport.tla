---------------------------- MODULE ColdTransport ---------------------------
(***************************************************************************)
(* WinRM cold: a WinRS shell for each Run, closed before Run returns, over *)
(* requests that may fail after the server has done what they ask for.     *)
(* The process reads its script to the end of its input, so it is blocked  *)
(* until closeStdin; a request to a process that has died may succeed as   *)
(* well as fail.  Run has no timer of its own.                             *)
(***************************************************************************)
EXTENDS OneShot

VARIABLE shell          \* "none", "open", "left" where nobody can or could close it

ColdInit == shell = [r \in Runs |-> "none"]

ColdAcquire(r) == Acquire(r, "create")

(* A failed create may have made a shell that only its idle timeout will end. *)
NewShell(r) ==
  /\ At(r, "create")
  /\ \/ Go(r, "command") /\ shell' = Set(shell, r, "open") /\ UNCHANGED <<verdict, outcome>>
     \/ Return(r, "transient") /\ \E s \in {"none", "left"} : shell' = Set(shell, r, s)
  /\ UNCHANGED worldVars

Command(r) ==
  /\ At(r, "command")
  /\ \/ Go(r, "send") /\ proc' = Set(proc, r, "blocked") /\ UNCHANGED <<verdict, outcome>>
     \/ Defer(r, "transient", "close") /\ \E p \in {"none", "blocked"} : proc' = Set(proc, r, p)
  /\ UNCHANGED <<shell, ended, file, applied>>

Send(r) ==
  /\ At(r, "send")
  /\ \/ Go(r, "eof") /\ UNCHANGED <<verdict, outcome>>
     \/ Defer(r, "transient", "close")
  /\ UNCHANGED <<shell, worldVars>>

(* What the end of the input does to a process: one that has died it does nothing to. *)
Fed(p) == IF p = "blocked" THEN "fed" ELSE p
(* Plausible bug: a failed closeStdin is taken for one that never arrived. *)
CloseStdinTransient(r) ==
  /\ At(r, "eof")
  /\ \/ Go(r, "wait") /\ proc' = Set(proc, r, Fed(proc[r])) /\ UNCHANGED <<verdict, outcome>>
     \/ Defer(r, "transient", "close") /\ \E p \in {proc[r], Fed(proc[r])} : proc' = Set(proc, r, p)
  /\ UNCHANGED <<shell, ended, file, applied>>
CloseStdin(r) ==
  /\ At(r, "eof")
  /\ \/ Go(r, "wait") /\ proc' = Set(proc, r, Fed(proc[r])) /\ UNCHANGED <<verdict, outcome>>
     \/ Defer(r, "transport", "close") /\ \E p \in {proc[r], Fed(proc[r])} : proc' = Set(proc, r, p)
  /\ UNCHANGED <<shell, ended, file, applied>>

Wait(r) ==
  /\ At(r, "wait")
  /\ \/ proc[r] \in Over /\ Defer(r, ResultOf(r), "close")
     \/ Defer(r, "transport", "close")                  \* the context, or a request that failed
  /\ UNCHANGED <<shell, worldVars>>

(* shell.Close, best effort: the process ends with its shell. *)
CloseShell(r) ==
  /\ At(r, "close") /\ Return(r, verdict[r])
  /\ \/ shell' = Set(shell, r, "none") /\ proc' = Set(proc, r, Killed(proc[r]))
     \/ shell' = Set(shell, r, "left") /\ UNCHANGED proc
  /\ UNCHANGED <<ended, file, applied>>

(* Run's requests end of themselves; its wait does when the script or the context does. *)
ColdRequest(r) == NewShell(r) \/ Command(r) \/ Send(r) \/ CloseStdin(r) \/ CloseShell(r)
ColdRun(r) == ColdRequest(r) \/ (GiveUp(r) /\ UNCHANGED shell) \/ Wait(r)
=============================================================================
