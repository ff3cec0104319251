----------------------------- MODULE Transports -----------------------------
(* Each of the one-shot transports against what core.exec relies on. *)
EXTENDS LocalTransport, ColdTransport, SSHTransport

vars == <<kind, runVars, worldVars, shell, sshVars>>

Init == CommonInit /\ ColdInit /\ SSHInit

Started(r) ==
  /\ UNCHANGED <<kind, shell>>
  /\ \/ kind = "local" /\ LocalAcquire(r) /\ UNCHANGED sshVars
     \/ kind = "cold" /\ ColdAcquire(r) /\ UNCHANGED sshVars
     \/ kind = "ssh" /\ SSHAcquire(r)
Running(r) ==
  /\ UNCHANGED kind
  /\ \/ kind = "local" /\ LocalRun(r) /\ UNCHANGED <<shell, sshVars>>
     \/ kind = "cold" /\ ColdRun(r) /\ UNCHANGED sshVars
     \/ kind = "ssh" /\ SSHRun(r) /\ UNCHANGED shell
Outside ==
  /\ UNCHANGED <<kind, shell>>
  /\ \/ \E r \in Runs : World(r) /\ UNCHANGED sshVars
     \/ kind = "ssh" /\ (Close \/ Drop)

Next == Outside \/ \E r \in Runs : Started(r) \/ Running(r)
Spec == Init /\ [][Next]_vars

(* A Run that waits gets its slot if one stays free, and no more than the other Runs can take  *)
(* it before; requests on the network are answered or fail, local calls return, timers fire.   *)
(* A cold Run waits for its script as long as the caller's context lets it; on the others no   *)
(* context need ever end.                                                                      *)
Ends(r) == /\ Running(r)
           /\ kind # "cold" => ~At(r, "start")
           /\ kind = "cold" /\ At(r, "wait") => ended[r] \/ proc[r] \in Over
FairSpec == Spec /\ \A r \in Runs : WF_vars(Started(r)) /\ WF_vars(Ends(r))
-----------------------------------------------------------------------------
Living == {n \in 1..dialled : Alive(n)}

(* No more Runs hold a slot than the semaphore has; and whoever resets and *)
(* redials, there is no living connection that the transport has lost.     *)
TypeOK ==
  /\ pc \in [Runs -> Labels]
  /\ verdict \in [Runs -> Verdicts] /\ outcome \in [Runs -> Verdicts]
  /\ proc \in [Runs -> Procs] /\ applied \in [Runs -> {0, 1}]
  /\ file \in [Runs -> {"none", "there", "stuck", "left"}] /\ shell \in [Runs -> {"none", "open", "left"}]
  /\ client \in 0..MaxDials /\ conn \in [Runs -> 0..MaxDials] /\ session \in [Runs -> 0..MaxDials]
  /\ Cardinality(Slots) <= Concurrency[kind]
  /\ Living \subseteq {client}

(* Run keeps TransportContract: the script is worked on at most once, has  *)
(* been when Run returns its answer, is not any more once Run has returned *)
(* a Result, and never is once Run has returned KindTransient, although    *)
(* failed requests may have been carried out and PowerShell may die before *)
(* it has read a line.                                                     *)
Contract == INSTANCE TransportContract
ContractSpec == Contract!Spec

(* No path out of Run leaves behind what that Run made without having      *)
(* tried to remove it: locally no process, over WinRM no open shell, and   *)
(* no script file, except over SSH where a failed redial has left nothing  *)
(* to remove it with, and then it has not been run and Run says so.  A     *)
(* Result is about a process that is over.                                 *)
NothingLeftBehind ==
  \A r \in Runs : outcome[r] # "pending" =>
    /\ file[r] # "there" /\ shell[r] # "open"
    /\ file[r] = "left" => kind = "ssh" /\ outcome[r] = "transport" /\ proc[r] = "none"
    /\ kind = "local" => proc[r] \in {"none", "dead"} \cup Over
    /\ outcome[r] \in {"ok", "bare"} => proc[r] \in Over

(* Every Run returns, even when its script hangs, its semaphore is full    *)
(* and the connection is lost again and again: over WinRM cold once the    *)
(* caller's context is done, on the others in any case.                    *)
RunReturns == \A r \in Runs : (kind # "cold" \/ ended[r]) ~> At(r, "done")
=============================================================================
