-------------------------- MODULE TransportsProofs --------------------------
(***************************************************************************)
(* Theorems about the transports without a pool, for any number of Runs    *)
(* and connections and any semaphore.                                      *)
(***************************************************************************)
EXTENDS Transports, FiniteSetTheorems, TLAPS

(* The types, with the connections numbered as they were dialled.          *)
Types ==
  /\ kind \in Kinds
  /\ pc \in [Runs -> Labels]
  /\ verdict \in [Runs -> Verdicts] /\ outcome \in [Runs -> Verdicts]
  /\ proc \in [Runs -> Procs] /\ applied \in [Runs -> {0, 1}]
  /\ file \in [Runs -> {"none", "there", "stuck", "left"}] /\ shell \in [Runs -> {"none", "open", "left"}]
  /\ client \in 0..MaxDials /\ conn \in [Runs -> 0..MaxDials] /\ session \in [Runs -> 0..MaxDials]
  /\ dialled \in 1..MaxDials /\ lost \subseteq 1..dialled /\ client <= dialled

(* Every connection but the transport's is gone.                           *)
OneConnection == \A n \in 1..dialled : n \in lost \/ n = client

(* Where a Run may be with its script on the server.                       *)
Before == {"start", "write", "spawn", "create", "command", "dial", "writeReset", "writeDial", "rewrite",
           "session", "sessionReset", "sessionDial", "session2"}
Closing == {"close", "cleanup", "done"}
Effects ==
  \A r \in Runs :
    /\ outcome[r] = "pending" <=> pc[r] # "done"
    /\ verdict[r] = "pending" <=> pc[r] \notin Closing
    /\ outcome[r] # "pending" => outcome[r] = verdict[r]
    /\ pc[r] \in Before => proc[r] = "none"
    /\ pc[r] \in {"send", "eof"} => proc[r] \in {"blocked", "died"} /\ applied[r] = 0
    /\ proc[r] \in {"none", "blocked", "fed"} => applied[r] = 0
    /\ proc[r] \in {"working", "exited"} => applied[r] = 1
    /\ verdict[r] = "transient" => applied[r] = 0 /\ proc[r] # "fed"
    /\ verdict[r] = "ok" => proc[r] = "exited"
    /\ verdict[r] = "bare" => proc[r] = "died"

(* What a Run has to clean up, and what it still knows of its connection.  *)
Tidy ==
  \A r \in Runs :
    /\ kind # "cold" => shell[r] = "none"
    /\ kind = "cold" => file[r] = "none"
    /\ pc[r] \in {"start", "dial", "create", "write"} => file[r] = "none" /\ shell[r] = "none"
    /\ pc[r] = "done" => file[r] # "there" /\ shell[r] # "open"
    /\ pc[r] = "done" /\ kind = "local" => proc[r] \in {"none", "exited", "died", "dead"}
    /\ kind = "ssh" /\ conn[r] = 0 /\ pc[r] \notin {"start", "dial", "done"} =>
         pc[r] = "cleanup" /\ verdict[r] = "transport" /\ proc[r] = "none"
    /\ file[r] = "left" => kind = "ssh" /\ pc[r] = "done" /\ verdict[r] = "transport" /\ proc[r] = "none"
    /\ conn[r] <= dialled

IInv == Types /\ OneConnection /\ Effects /\ Tidy

(* The transports start tidy.                                              *)
LEMMA InitInv == Init => IInv
<1> SUFFICES ASSUME Init PROVE IInv
  OBVIOUS
<1> USE DEF Init, CommonInit, ColdInit, SSHInit
<1>1. Types
  BY MaxDialsAssumption DEF Types, Labels, Verdicts, Procs, Kinds
<1>2. OneConnection
  BY DEF OneConnection
<1>3. Effects
  BY DEF Effects, Before, Closing
<1>4. Tidy
  BY DEF Tidy
<1> QED
  BY <1>1, <1>2, <1>3, <1>4 DEF IInv
-----------------------------------------------------------------------------
(* The contract's step of a step of the system: an effect, a return, or a stutter. *)
ContractStep == [Contract!Next]_(Contract!vars)

(* A step that neither returns nor works on a script is a stutter of the contract. *)
LEMMA Quiet == UNCHANGED <<outcome, applied>> => ContractStep
BY DEF ContractStep, Contract!vars

(* A Run's return keeps the contract if its result fits the script's effect. *)
LEMMA Returns ==
  ASSUME NEW r \in Runs, NEW o \in Contract!Results, outcome[r] = "pending",
         o = "ok" => applied[r] = 1, o = "transient" => applied[r] = 0,
         outcome' = [outcome EXCEPT ![r] = o], UNCHANGED applied
  PROVE  ContractStep
BY DEF ContractStep, Contract!vars, Contract!Next, Contract!Return

(* The steps of transport/local. *)
LEMMA LocalStep ==
  ASSUME IInv, NEW r \in Runs, kind = "local", LocalRun(r) \/ LocalAcquire(r), UNCHANGED <<kind, shell, sshVars>>
  PROVE  IInv' /\ ContractStep
<1> USE DEF Labels, Verdicts, Procs, Before, Closing, Types, Kinds, At, Go, Set, Return, Defer, sshVars, connVars, worldVars, runVars, Killed, Alive, Over, ResultOf, LocalReturn, Unlinked
<1>1. CASE \E label \in {"write", "spawn"} : Acquire(r, label)
  <2>1. Types'
    BY <1>1 DEF IInv, Acquire
  <2>2. Effects'
    BY <1>1 DEF IInv, Effects, Acquire
  <2>3. OneConnection' /\ Tidy'
    BY <1>1 DEF IInv, OneConnection, Tidy, Effects, Acquire
  <2>4. ContractStep
    BY <1>1, Quiet DEF Acquire
  <2> QED
    BY <2>1, <2>2, <2>3, <2>4 DEF IInv
<1>2. CASE GiveUp(r)
  <2>1. Types'
    BY <1>2 DEF IInv, GiveUp
  <2>2. Effects'
    BY <1>2 DEF IInv, Effects, GiveUp
  <2>3. OneConnection' /\ Tidy'
    BY <1>2 DEF IInv, OneConnection, Tidy, Effects, GiveUp
  <2>4. PICK o \in {"transport"} : outcome' = [outcome EXCEPT ![r] = o]
    BY <1>2 DEF IInv, Effects, GiveUp
  <2>5. /\ outcome[r] = "pending" /\ UNCHANGED applied
        /\ o = "ok" => applied[r] = 1
        /\ o = "transient" => applied[r] = 0
    BY <1>2, <2>4 DEF IInv, Effects, GiveUp
  <2>6. ContractStep
    BY <2>4, <2>5, Returns DEF Contract!Results
  <2> QED
    BY <2>1, <2>2, <2>3, <2>6 DEF IInv
<1>3. CASE WriteScriptFile(r)
  <2>1. Types'
    BY <1>3 DEF IInv, WriteScriptFile
  <2>2. Effects'
    BY <1>3 DEF IInv, Effects, WriteScriptFile
  <2>3. OneConnection' /\ Tidy'
    BY <1>3 DEF IInv, OneConnection, Tidy, Effects, WriteScriptFile
  <2>4. outcome[r] = "pending" /\ UNCHANGED applied
    BY <1>3 DEF IInv, Effects, WriteScriptFile
  <2>5. UNCHANGED outcome \/ outcome' = [outcome EXCEPT ![r] = "transport"]
    BY <1>3 DEF WriteScriptFile
  <2>6. ContractStep
    BY <2>4, <2>5, Quiet, Returns DEF Contract!Results
  <2> QED
    BY <2>1, <2>2, <2>3, <2>6 DEF IInv
<1>4. CASE Spawn(r)
  <2>1. Types'
    BY <1>4 DEF IInv, Spawn
  <2>2. Effects'
    BY <1>4 DEF IInv, Effects, Spawn
  <2>3. OneConnection' /\ Tidy'
    BY <1>4 DEF IInv, OneConnection, Tidy, Effects, Spawn
  <2>4. outcome[r] = "pending" /\ UNCHANGED applied
    BY <1>4 DEF IInv, Effects, Spawn
  <2>5. UNCHANGED outcome \/ outcome' = [outcome EXCEPT ![r] = "transport"]
    BY <1>4 DEF Spawn
  <2>6. ContractStep
    BY <2>4, <2>5, Quiet, Returns DEF Contract!Results
  <2> QED
    BY <2>1, <2>2, <2>3, <2>6 DEF IInv
<1>5. CASE LocalDone(r)
  <2>1. Types'
    BY <1>5 DEF IInv, LocalDone
  <2>2. Effects'
    BY <1>5 DEF IInv, Effects, LocalDone
  <2>3. OneConnection' /\ Tidy'
    BY <1>5 DEF IInv, OneConnection, Tidy, Effects, LocalDone
  <2>4. PICK o \in {"ok", "bare", "transport"} : outcome' = [outcome EXCEPT ![r] = o]
    BY <1>5 DEF IInv, Effects, LocalDone
  <2>5. /\ outcome[r] = "pending" /\ UNCHANGED applied
        /\ o = "ok" => applied[r] = 1
        /\ o = "transient" => applied[r] = 0
    BY <1>5, <2>4 DEF IInv, Effects, LocalDone
  <2>6. ContractStep
    BY <2>4, <2>5, Returns DEF Contract!Results
  <2> QED
    BY <2>1, <2>2, <2>3, <2>6 DEF IInv
<1>6. CASE Stop(r)
  <2>1. Types'
    BY <1>6 DEF IInv, Stop
  <2>2. Effects'
    BY <1>6 DEF IInv, Effects, Stop
  <2>3. OneConnection' /\ Tidy'
    BY <1>6 DEF IInv, OneConnection, Tidy, Effects, Stop
  <2>4. ContractStep
    BY <1>6, Quiet DEF Stop
  <2> QED
    BY <2>1, <2>2, <2>3, <2>4 DEF IInv
<1>7. CASE Reap(r)
  <2>1. Types'
    BY <1>7 DEF IInv, Reap
  <2>2. Effects'
    BY <1>7 DEF IInv, Effects, Reap
  <2>3. OneConnection' /\ Tidy'
    BY <1>7 DEF IInv, OneConnection, Tidy, Effects, Reap
  <2>4. PICK o \in {"transport"} : outcome' = [outcome EXCEPT ![r] = o]
    BY <1>7 DEF IInv, Effects, Reap
  <2>5. /\ outcome[r] = "pending" /\ UNCHANGED applied
        /\ o = "ok" => applied[r] = 1
        /\ o = "transient" => applied[r] = 0
    BY <1>7, <2>4 DEF IInv, Effects, Reap
  <2>6. ContractStep
    BY <2>4, <2>5, Returns DEF Contract!Results
  <2> QED
    BY <2>1, <2>2, <2>3, <2>6 DEF IInv
<1> QED
  BY <1>1, <1>2, <1>3, <1>4, <1>5, <1>6, <1>7 DEF LocalRun, LocalAcquire

(* The steps of the cold WinRM transport. *)
LEMMA ColdStep ==
  ASSUME IInv, NEW r \in Runs, kind = "cold", (ColdRun(r) \/ (ColdAcquire(r) /\ UNCHANGED shell)), UNCHANGED <<kind, sshVars>>
  PROVE  IInv' /\ ContractStep
<1> USE DEF Labels, Verdicts, Procs, Before, Closing, Types, Kinds, At, Go, Set, Return, Defer, sshVars, connVars, worldVars, runVars, Killed, Alive, Over, ResultOf
<1>1. CASE ColdAcquire(r) /\ UNCHANGED shell
  <2>1. Types'
    BY <1>1 DEF IInv, ColdAcquire, Acquire
  <2>2. Effects'
    BY <1>1 DEF IInv, Effects, ColdAcquire, Acquire
  <2>3. OneConnection' /\ Tidy'
    BY <1>1 DEF IInv, OneConnection, Tidy, Effects, ColdAcquire, Acquire
  <2>4. ContractStep
    BY <1>1, Quiet DEF ColdAcquire, Acquire
  <2> QED
    BY <2>1, <2>2, <2>3, <2>4 DEF IInv
<1>2. CASE GiveUp(r) /\ UNCHANGED shell
  <2>1. Types'
    BY <1>2 DEF IInv, GiveUp
  <2>2. Effects'
    BY <1>2 DEF IInv, Effects, GiveUp
  <2>3. OneConnection' /\ Tidy'
    BY <1>2 DEF IInv, OneConnection, Tidy, Effects, GiveUp
  <2>4. PICK o \in {"transport"} : outcome' = [outcome EXCEPT ![r] = o]
    BY <1>2 DEF IInv, Effects, GiveUp
  <2>5. /\ outcome[r] = "pending" /\ UNCHANGED applied
        /\ o = "ok" => applied[r] = 1
        /\ o = "transient" => applied[r] = 0
    BY <1>2, <2>4 DEF IInv, Effects, GiveUp
  <2>6. ContractStep
    BY <2>4, <2>5, Returns DEF Contract!Results
  <2> QED
    BY <2>1, <2>2, <2>3, <2>6 DEF IInv
<1>3. CASE NewShell(r)
  <2>1. Types'
    BY <1>3 DEF IInv, NewShell
  <2>2. Effects'
    BY <1>3 DEF IInv, Effects, NewShell
  <2>3. OneConnection' /\ Tidy'
    BY <1>3 DEF IInv, OneConnection, Tidy, Effects, NewShell
  <2>4. outcome[r] = "pending" /\ UNCHANGED applied
    BY <1>3 DEF IInv, Effects, NewShell
  <2>5. UNCHANGED outcome \/ outcome' = [outcome EXCEPT ![r] = "transient"]
    BY <1>3 DEF NewShell
  <2>8. "transient" = "transient" => applied[r] = 0
    BY <1>3 DEF IInv, Effects, NewShell
  <2>6. ContractStep
    BY <2>4, <2>5, <2>8, Quiet, Returns DEF Contract!Results
  <2> QED
    BY <2>1, <2>2, <2>3, <2>6 DEF IInv
<1>4. CASE Command(r)
  <2>1. Types'
    BY <1>4 DEF IInv, Command
  <2>2. Effects'
    BY <1>4 DEF IInv, Effects, Command
  <2>3. OneConnection' /\ Tidy'
    BY <1>4 DEF IInv, OneConnection, Tidy, Effects, Command
  <2>4. ContractStep
    BY <1>4, Quiet DEF Command
  <2> QED
    BY <2>1, <2>2, <2>3, <2>4 DEF IInv
<1>5. CASE Send(r)
  <2>1. Types'
    BY <1>5 DEF IInv, Send
  <2>2. Effects'
    BY <1>5 DEF IInv, Effects, Send
  <2>3. OneConnection' /\ Tidy'
    BY <1>5 DEF IInv, OneConnection, Tidy, Effects, Send
  <2>4. ContractStep
    BY <1>5, Quiet DEF Send
  <2> QED
    BY <2>1, <2>2, <2>3, <2>4 DEF IInv
<1>6. CASE CloseStdin(r)
  <2>1. Types'
    BY <1>6 DEF IInv, CloseStdin, Fed
  <2>2. Effects'
    BY <1>6 DEF IInv, Effects, CloseStdin, Fed
  <2>3. OneConnection' /\ Tidy'
    BY <1>6 DEF IInv, OneConnection, Tidy, Effects, CloseStdin
  <2>4. ContractStep
    BY <1>6, Quiet DEF CloseStdin
  <2> QED
    BY <2>1, <2>2, <2>3, <2>4 DEF IInv
<1>7. CASE Wait(r)
  <2>1. Types'
    BY <1>7 DEF IInv, Wait
  <2>2. Effects'
    BY <1>7 DEF IInv, Effects, Wait
  <2>3. OneConnection' /\ Tidy'
    BY <1>7 DEF IInv, OneConnection, Tidy, Effects, Wait
  <2>4. ContractStep
    BY <1>7, Quiet DEF Wait
  <2> QED
    BY <2>1, <2>2, <2>3, <2>4 DEF IInv
<1>8. CASE CloseShell(r)
  <2>1. Types'
    BY <1>8 DEF IInv, CloseShell
  <2>2. Effects'
    BY <1>8 DEF IInv, Effects, CloseShell, Contract!Results
  <2>3. OneConnection' /\ Tidy'
    BY <1>8 DEF IInv, OneConnection, Tidy, Effects, CloseShell
  <2>4. outcome' = [outcome EXCEPT ![r] = verdict[r]] /\ UNCHANGED applied
    BY <1>8 DEF CloseShell
  <2>5. /\ outcome[r] = "pending" /\ verdict[r] \in Contract!Results
        /\ verdict[r] = "ok" => applied[r] = 1
        /\ verdict[r] = "transient" => applied[r] = 0
    BY <1>8 DEF IInv, Effects, CloseShell, Contract!Results
  <2>6. ContractStep
    BY <2>4, <2>5, Returns DEF Contract!Results
  <2> QED
    BY <2>1, <2>2, <2>3, <2>6 DEF IInv
<1> QED
  BY <1>1, <1>2, <1>3, <1>4, <1>5, <1>6, <1>7, <1>8 DEF ColdRun, ColdRequest

(* The numbering of the connections, apart from the rest of the types.      *)
ConnTypes ==
  /\ client \in 0..MaxDials /\ dialled \in 1..MaxDials
  /\ lost \subseteq 1..dialled /\ client <= dialled

(* dial's connection is the cached one or has the next number. *)
LEMMA DialTypes ==
  ASSUME ConnTypes, NEW n \in 1..MaxDials, Dialled(n)
  PROVE  ConnTypes' /\ n <= dialled' /\ dialled <= dialled'
<1>1. CASE client # 0 /\ n = client /\ UNCHANGED connVars
  BY <1>1 DEF ConnTypes, connVars
<1>2. CASE client = 0 /\ n = dialled + 1 /\ n <= MaxDials /\ client' = n /\ dialled' = n /\ UNCHANGED lost
  <2>1. dialled' \in 1..MaxDials /\ client' \in 0..MaxDials /\ client' <= dialled'
    BY <1>2, MaxDialsAssumption DEF ConnTypes
  <2>2. lost' \subseteq 1..dialled'
    BY <1>2, MaxDialsAssumption DEF ConnTypes
  <2> QED
    BY <1>2, <2>1, <2>2 DEF ConnTypes
<1> QED
  BY <1>1, <1>2 DEF Dialled

(* reset adds the transport's connection to those that are gone. *)
LEMMA ResetTypes ==
  ASSUME ConnTypes, NEW r, NEW label, Reset(r, label)
  PROVE  ConnTypes' /\ dialled' = dialled
<1>1. client' = 0 /\ dialled' = dialled /\ lost' = (lost \cup {client}) \ {0}
  BY DEF Reset
<1>2. lost' \subseteq 1..dialled
  BY <1>1, MaxDialsAssumption DEF ConnTypes
<1> QED
  BY <1>1, <1>2, MaxDialsAssumption DEF ConnTypes

(* The steps of transport/ssh, taken by a Run. *)
LEMMA SSHStep ==
  ASSUME IInv, NEW r \in Runs, kind = "ssh", SSHRun(r) \/ SSHAcquire(r), UNCHANGED <<kind, shell>>
  PROVE  IInv' /\ ContractStep
<1> USE DEF Labels, Verdicts, Procs, Before, Closing, Types, Kinds, At, Go, Set, Return, Defer, sshVars, connVars, worldVars, runVars, Killed, Alive, Over, ResultOf
<1>1. CASE SSHAcquire(r)
  <2>1. Types'
    BY <1>1 DEF IInv, SSHAcquire, Acquire
  <2>2. Effects'
    BY <1>1 DEF IInv, Effects, SSHAcquire, Acquire
  <2>3. OneConnection' /\ Tidy'
    BY <1>1 DEF IInv, OneConnection, Tidy, Effects, SSHAcquire, Acquire
  <2>4. ContractStep
    BY <1>1, Quiet DEF SSHAcquire, Acquire
  <2> QED
    BY <2>1, <2>2, <2>3, <2>4 DEF IInv
<1>2. CASE GiveUp(r) /\ UNCHANGED sshVars
  <2>1. Types'
    BY <1>2 DEF IInv, GiveUp
  <2>2. Effects'
    BY <1>2 DEF IInv, Effects, GiveUp
  <2>3. OneConnection' /\ Tidy'
    BY <1>2 DEF IInv, OneConnection, Tidy, Effects, GiveUp
  <2>4. PICK o \in {"transport"} : outcome' = [outcome EXCEPT ![r] = o]
    BY <1>2 DEF IInv, Effects, GiveUp
  <2>5. /\ outcome[r] = "pending" /\ UNCHANGED applied
        /\ o = "ok" => applied[r] = 1
        /\ o = "transient" => applied[r] = 0
    BY <1>2, <2>4 DEF IInv, Effects, GiveUp
  <2>6. ContractStep
    BY <2>4, <2>5, Returns DEF Contract!Results
  <2> QED
    BY <2>1, <2>2, <2>3, <2>6 DEF IInv
<1>3. CASE Dial(r)
  <2>1. Types'
    <3>1. ConnTypes
      BY DEF IInv, ConnTypes
    <3>2. ConnTypes'
      <4>1. (\E m \in 1..MaxDials : Dialled(m)) \/ DialFails
        BY <1>3 DEF Dial
      <4>2. DialFails => ConnTypes'
        BY <3>1 DEF DialFails, ConnTypes
      <4> QED
        BY <3>1, <4>1, <4>2, DialTypes
    <3>3. pc' \in [Runs -> Labels] /\ verdict' \in [Runs -> Verdicts] /\ outcome' \in [Runs -> Verdicts]
      BY <1>3 DEF IInv, Dial, Dialled, DialFails
    <3>4. /\ conn' \in [Runs -> 0..MaxDials] /\ session' \in [Runs -> 0..MaxDials]
          /\ UNCHANGED <<kind, proc, applied, shell>> /\ file' \in [Runs -> {"none", "there", "stuck", "left"}]
      BY <1>3, MaxDialsAssumption DEF IInv, Dial, Dialled, DialFails
    <3> QED
      BY <3>2, <3>3, <3>4 DEF IInv, ConnTypes
  <2>2. Effects'
    BY <1>3 DEF IInv, Effects, Dial, Dialled, DialFails
  <2>3. OneConnection' /\ Tidy'
    BY <1>3 DEF IInv, OneConnection, Tidy, Effects, Dial, Dialled, DialFails
  <2>4. outcome[r] = "pending" /\ UNCHANGED applied
    BY <1>3 DEF IInv, Effects, Dial, Dialled, DialFails
  <2>5. UNCHANGED outcome \/ outcome' = [outcome EXCEPT ![r] = "transport"]
    BY <1>3 DEF Dial, Dialled, DialFails
  <2>6. ContractStep
    BY <2>4, <2>5, Quiet, Returns DEF Contract!Results
  <2> QED
    BY <2>1, <2>2, <2>3, <2>6 DEF IInv
<1>4. CASE WriteScript(r)
  <2>1. Types'
    BY <1>4 DEF IInv, WriteScript, Written, NotWritten
  <2>2. Effects'
    BY <1>4 DEF IInv, Effects, WriteScript, Written, NotWritten
  <2>3. OneConnection' /\ Tidy'
    BY <1>4 DEF IInv, OneConnection, Tidy, Effects, WriteScript, Written, NotWritten
  <2>4. ContractStep
    BY <1>4, Quiet DEF WriteScript, Written, NotWritten
  <2> QED
    BY <2>1, <2>2, <2>3, <2>4 DEF IInv
<1>5. CASE WriteReset(r)
  <2>1. Types'
    <3>1. ConnTypes
      BY DEF IInv, ConnTypes
    <3>2. ConnTypes'
      BY <1>5, <3>1, ResetTypes DEF WriteReset
    <3>3. pc' \in [Runs -> Labels] /\ verdict' \in [Runs -> Verdicts] /\ outcome' \in [Runs -> Verdicts]
      BY <1>5 DEF IInv, WriteReset, Reset
    <3>4. /\ conn' \in [Runs -> 0..MaxDials] /\ session' \in [Runs -> 0..MaxDials]
          /\ UNCHANGED <<kind, proc, applied, shell>> /\ file' \in [Runs -> {"none", "there", "stuck", "left"}]
      BY <1>5, MaxDialsAssumption DEF IInv, WriteReset, Reset
    <3> QED
      BY <3>2, <3>3, <3>4 DEF IInv, ConnTypes
  <2>2. Effects'
    BY <1>5 DEF IInv, Effects, WriteReset, Reset
  <2>3. OneConnection' /\ Tidy'
    BY <1>5 DEF IInv, OneConnection, Tidy, Effects, WriteReset, Reset
  <2>4. ContractStep
    BY <1>5, Quiet DEF WriteReset, Reset
  <2> QED
    BY <2>1, <2>2, <2>3, <2>4 DEF IInv
<1>6. CASE WriteDial(r)
  <2>1. Types'
    <3>1. ConnTypes
      BY DEF IInv, ConnTypes
    <3>2. ConnTypes'
      <4>1. (\E m \in 1..MaxDials : Dialled(m)) \/ DialFails
        BY <1>6 DEF WriteDial
      <4>2. DialFails => ConnTypes'
        BY <3>1 DEF DialFails, ConnTypes
      <4> QED
        BY <3>1, <4>1, <4>2, DialTypes
    <3>3. pc' \in [Runs -> Labels] /\ verdict' \in [Runs -> Verdicts] /\ outcome' \in [Runs -> Verdicts]
      BY <1>6 DEF IInv, WriteDial, Dialled, DialFails
    <3>4. /\ conn' \in [Runs -> 0..MaxDials] /\ session' \in [Runs -> 0..MaxDials]
          /\ UNCHANGED <<kind, proc, applied, shell>> /\ file' \in [Runs -> {"none", "there", "stuck", "left"}]
      BY <1>6, MaxDialsAssumption DEF IInv, WriteDial, Dialled, DialFails
    <3> QED
      BY <3>2, <3>3, <3>4 DEF IInv, ConnTypes
  <2>2. Effects'
    BY <1>6 DEF IInv, Effects, WriteDial, Dialled, DialFails
  <2>3. OneConnection' /\ Tidy'
    BY <1>6 DEF IInv, OneConnection, Tidy, Effects, WriteDial, Dialled, DialFails
  <2>4. ContractStep
    BY <1>6, Quiet DEF WriteDial, Dialled, DialFails
  <2> QED
    BY <2>1, <2>2, <2>3, <2>4 DEF IInv
<1>7. CASE Rewrite(r)
  <2>1. Types'
    BY <1>7 DEF IInv, Rewrite, Written, NotWritten
  <2>2. Effects'
    BY <1>7 DEF IInv, Effects, Rewrite, Written, NotWritten
  <2>3. OneConnection' /\ Tidy'
    BY <1>7 DEF IInv, OneConnection, Tidy, Effects, Rewrite, Written, NotWritten
  <2>4. ContractStep
    BY <1>7, Quiet DEF Rewrite, Written, NotWritten
  <2> QED
    BY <2>1, <2>2, <2>3, <2>4 DEF IInv
<1>8. CASE NewSession(r)
  <2>1. Types'
    BY <1>8 DEF IInv, NewSession, Opened
  <2>2. Effects'
    BY <1>8 DEF IInv, Effects, NewSession, Opened
  <2>3. OneConnection' /\ Tidy'
    BY <1>8 DEF IInv, OneConnection, Tidy, Effects, NewSession, Opened
  <2>4. ContractStep
    BY <1>8, Quiet DEF NewSession, Opened
  <2> QED
    BY <2>1, <2>2, <2>3, <2>4 DEF IInv
<1>9. CASE SessionReset(r)
  <2>1. Types'
    <3>1. ConnTypes
      BY DEF IInv, ConnTypes
    <3>2. ConnTypes'
      BY <1>9, <3>1, ResetTypes DEF SessionReset
    <3>3. pc' \in [Runs -> Labels] /\ verdict' \in [Runs -> Verdicts] /\ outcome' \in [Runs -> Verdicts]
      BY <1>9 DEF IInv, SessionReset, Reset
    <3>4. /\ conn' \in [Runs -> 0..MaxDials] /\ session' \in [Runs -> 0..MaxDials]
          /\ UNCHANGED <<kind, proc, applied, shell>> /\ file' \in [Runs -> {"none", "there", "stuck", "left"}]
      BY <1>9, MaxDialsAssumption DEF IInv, SessionReset, Reset
    <3> QED
      BY <3>2, <3>3, <3>4 DEF IInv, ConnTypes
  <2>2. Effects'
    BY <1>9 DEF IInv, Effects, SessionReset, Reset
  <2>3. OneConnection' /\ Tidy'
    BY <1>9 DEF IInv, OneConnection, Tidy, Effects, SessionReset, Reset
  <2>4. ContractStep
    BY <1>9, Quiet DEF SessionReset, Reset
  <2> QED
    BY <2>1, <2>2, <2>3, <2>4 DEF IInv
<1>10. CASE SessionDial(r)
  <2>1. Types'
    <3>1. ConnTypes
      BY DEF IInv, ConnTypes
    <3>2. ConnTypes'
      <4>1. (\E m \in 1..MaxDials : Dialled(m)) \/ DialFails
        BY <1>10 DEF SessionDial
      <4>2. DialFails => ConnTypes'
        BY <3>1 DEF DialFails, ConnTypes
      <4> QED
        BY <3>1, <4>1, <4>2, DialTypes
    <3>3. pc' \in [Runs -> Labels] /\ verdict' \in [Runs -> Verdicts] /\ outcome' \in [Runs -> Verdicts]
      BY <1>10 DEF IInv, SessionDial, Dialled, DialFails
    <3>4. /\ conn' \in [Runs -> 0..MaxDials] /\ session' \in [Runs -> 0..MaxDials]
          /\ UNCHANGED <<kind, proc, applied, shell>> /\ file' \in [Runs -> {"none", "there", "stuck", "left"}]
      BY <1>10, MaxDialsAssumption DEF IInv, SessionDial, Dialled, DialFails
    <3> QED
      BY <3>2, <3>3, <3>4 DEF IInv, ConnTypes
  <2>2. Effects'
    BY <1>10 DEF IInv, Effects, SessionDial, Dialled, DialFails
  <2>3. OneConnection' /\ Tidy'
    <3>1. /\ UNCHANGED <<kind, proc, file, shell, conn>> /\ dialled' \in {dialled, dialled + 1}
          /\ pc[r] = "sessionDial"
      BY <1>10 DEF SessionDial, Dialled, DialFails
    <3>2. \/ pc' = [pc EXCEPT ![r] = "session2"] /\ UNCHANGED verdict
          \/ pc' = [pc EXCEPT ![r] = "cleanup"] /\ verdict' = [verdict EXCEPT ![r] = "transport"]
      BY <1>10 DEF SessionDial
    <3>3. OneConnection'
      BY <1>10 DEF IInv, OneConnection, SessionDial, Dialled, DialFails
    <3>4. Tidy'
      BY <3>1, <3>2 DEF IInv, Tidy, Effects
    <3> QED
      BY <3>3, <3>4
  <2>4. ContractStep
    BY <1>10, Quiet DEF SessionDial, Dialled, DialFails
  <2> QED
    BY <2>1, <2>2, <2>3, <2>4 DEF IInv
<1>11. CASE NewSession2(r)
  <2>1. Types'
    BY <1>11 DEF IInv, NewSession2, Opened
  <2>2. Effects'
    BY <1>11 DEF IInv, Effects, NewSession2, Opened
  <2>3. OneConnection' /\ Tidy'
    BY <1>11 DEF IInv, OneConnection, Tidy, Effects, NewSession2, Opened
  <2>4. ContractStep
    BY <1>11, Quiet DEF NewSession2, Opened
  <2> QED
    BY <2>1, <2>2, <2>3, <2>4 DEF IInv
<1>12. CASE SSHDone(r)
  <2>1. Types'
    BY <1>12 DEF IInv, SSHDone
  <2>2. Effects'
    BY <1>12 DEF IInv, Effects, SSHDone
  <2>3. OneConnection' /\ Tidy'
    BY <1>12 DEF IInv, OneConnection, Tidy, Effects, SSHDone
  <2>4. ContractStep
    BY <1>12, Quiet DEF SSHDone
  <2> QED
    BY <2>1, <2>2, <2>3, <2>4 DEF IInv
<1>13. CASE Cleanup(r)
  <2>1. Types'
    <3>1. ConnTypes
      BY DEF IInv, ConnTypes
    <3>2. ConnTypes'
      BY <1>13, <3>1 DEF Cleanup, ConnTypes
    <3>3. pc' \in [Runs -> Labels] /\ verdict' \in [Runs -> Verdicts] /\ outcome' \in [Runs -> Verdicts]
      BY <1>13 DEF IInv, Cleanup, Removed
    <3>4. /\ conn' \in [Runs -> 0..MaxDials] /\ session' \in [Runs -> 0..MaxDials]
          /\ UNCHANGED <<kind, proc, applied, shell>> /\ file' \in [Runs -> {"none", "there", "stuck", "left"}]
      BY <1>13, MaxDialsAssumption DEF IInv, Cleanup, Removed
    <3> QED
      BY <3>2, <3>3, <3>4 DEF IInv, ConnTypes
  <2>2. Effects'
    BY <1>13 DEF IInv, Effects, Cleanup, Removed, Contract!Results
  <2>3. OneConnection' /\ Tidy'
    BY <1>13 DEF IInv, OneConnection, Tidy, Effects, Cleanup, Removed, Contract!Results
  <2>4. outcome' = [outcome EXCEPT ![r] = verdict[r]] /\ UNCHANGED applied
    BY <1>13 DEF Cleanup, Removed
  <2>5. /\ outcome[r] = "pending" /\ verdict[r] \in Contract!Results
        /\ verdict[r] = "ok" => applied[r] = 1
        /\ verdict[r] = "transient" => applied[r] = 0
    BY <1>13 DEF IInv, Effects, Cleanup, Removed, Contract!Results
  <2>6. ContractStep
    BY <2>4, <2>5, Returns DEF Contract!Results
  <2> QED
    BY <2>1, <2>2, <2>3, <2>6 DEF IInv
<1> QED
  BY <1>1, <1>2, <1>3, <1>4, <1>5, <1>6, <1>7, <1>8, <1>9, <1>10, <1>11, <1>12, <1>13 DEF SSHRun

(* What the world and the network do, and Close. *)
LEMMA OutsideStep ==
  ASSUME IInv, Outside
  PROVE  IInv' /\ ContractStep
<1> USE DEF Labels, Verdicts, Procs, Before, Closing, Types, Kinds, sshVars, connVars, worldVars, runVars, Alive, Set
<1>1. ASSUME NEW r \in Runs, ContextEnds(r) \/ Exit(r) \/ Die(r), UNCHANGED <<kind, shell, sshVars, runVars>>
      PROVE  IInv' /\ ContractStep
  <2>1. Types'
    BY <1>1 DEF IInv, ContextEnds, Exit, Die
  <2>2. Effects'
    BY <1>1 DEF IInv, Effects, ContextEnds, Exit, Die
  <2>3. OneConnection' /\ Tidy'
    BY <1>1 DEF IInv, OneConnection, Tidy, ContextEnds, Exit, Die
  <2>4. ContractStep
    BY <1>1, Quiet DEF ContextEnds, Exit, Die
  <2> QED
    BY <2>1, <2>2, <2>3, <2>4 DEF IInv
<1>2. ASSUME NEW r \in Runs, Work(r), UNCHANGED <<kind, shell, sshVars, runVars>>
      PROVE  IInv' /\ ContractStep
  <2>1. applied[r] = 0 /\ applied' = [applied EXCEPT ![r] = 1]
    <3>1. applied[r] = 0
      BY <1>2 DEF IInv, Effects, Work
    <3>2. applied' = [applied EXCEPT ![r] = applied[r] + 1]
      BY <1>2 DEF Work
    <3> QED
      BY <3>1, <3>2
  <2>2. Types'
    BY <1>2, <2>1 DEF IInv, Work
  <2>3. Effects'
    BY <1>2, <2>1 DEF IInv, Effects, Work
  <2>4. OneConnection' /\ Tidy'
    BY <1>2 DEF IInv, OneConnection, Tidy, Work
  <2>5. outcome[r] \in {"pending", "transport"} /\ UNCHANGED outcome
    BY <1>2 DEF IInv, Effects, Work
  <2>6. ContractStep
    BY <2>1, <2>5 DEF ContractStep, Contract!vars, Contract!Next, Contract!TakeEffect
  <2> QED
    BY <2>2, <2>3, <2>4, <2>6 DEF IInv
<1>3. ASSUME Close \/ Drop, UNCHANGED <<kind, shell>>
      PROVE  IInv' /\ ContractStep
  <2>1. Types'
    <3>1. client' \in {0, client} /\ dialled' = dialled /\ lost' \subseteq 1..dialled
      <4>1. Close => client' = 0 /\ dialled' = dialled /\ lost' = lost \cup {client} /\ client \in 1..dialled
        BY MaxDialsAssumption DEF IInv, Close
      <4>2. Drop => client' = client /\ dialled' = dialled /\ \E n \in 1..dialled : lost' = lost \cup {n}
        BY DEF Drop
      <4>3. lost \subseteq 1..dialled
        BY DEF IInv
      <4> QED
        BY <1>3, <4>1, <4>2, <4>3
    <3>2. UNCHANGED <<kind, pc, verdict, outcome, proc, applied, file, shell, conn, session>>
      BY <1>3 DEF Close, Drop
    <3> QED
      BY <3>1, <3>2, MaxDialsAssumption DEF IInv
  <2>2. Effects'
    BY <1>3 DEF IInv, Effects, Close, Drop
  <2>3. OneConnection' /\ Tidy'
    BY <1>3 DEF IInv, OneConnection, Tidy, Close, Drop
  <2>4. ContractStep
    BY <1>3, Quiet DEF Close, Drop
  <2> QED
    BY <2>1, <2>2, <2>3, <2>4 DEF IInv
<1> QED
  BY <1>1, <1>2, <1>3 DEF Outside, World

(* Every step keeps the invariant and the contract. *)
LEMMA Step == IInv /\ [Next]_vars => IInv' /\ ContractStep
<1> SUFFICES ASSUME IInv, [Next]_vars PROVE IInv' /\ ContractStep
  OBVIOUS
<1>1. CASE Outside
  BY <1>1, OutsideStep
<1>2. ASSUME NEW r \in Runs, Started(r) PROVE IInv' /\ ContractStep
  BY <1>2, LocalStep, ColdStep, SSHStep DEF Started
<1>3. ASSUME NEW r \in Runs, Running(r) PROVE IInv' /\ ContractStep
  BY <1>3, LocalStep, ColdStep, SSHStep DEF Running
<1>4. CASE UNCHANGED vars
  <2> USE DEF vars, runVars, worldVars, sshVars
  <2>1. Types' /\ OneConnection'
    BY <1>4 DEF IInv, Types, OneConnection
  <2>2. Effects' /\ Tidy'
    BY <1>4 DEF IInv, Effects, Tidy
  <2> QED
    BY <1>4, <2>1, <2>2, Quiet DEF IInv
<1> QED
  BY <1>1, <1>2, <1>3, <1>4 DEF Next

(* The invariant holds in every state. *)
LEMMA Invariant == Spec => []IInv
<1>1. IInv /\ [Next]_vars => IInv'
  BY Step
<1> QED
  BY InitInv, <1>1, PTL DEF Spec
-----------------------------------------------------------------------------
(* The semaphore: a Run takes a slot only while one is free, and no other  *)
(* step takes one.                                                         *)
Sem == Cardinality(Slots) <= Concurrency[kind]

LEMMA SemStep ==
  ASSUME IInv, Sem, [Next]_vars
  PROVE  Sem'
<1> USE DEF Types, Kinds
<1>1. IsFiniteSet(Slots) /\ Cardinality(Slots) \in Nat /\ kind' = kind /\ Concurrency[kind] \in Nat
  <2>1. IsFiniteSet(Slots)
    BY RunsAssumption, FS_Subset DEF Slots
  <2>2. kind' = kind
    BY DEF Next, Outside, Started, Running, vars
  <2> QED
    BY <2>1, <2>2, FS_CardinalityType, ConcurrencyAssumption DEF IInv
<1>2. ASSUME Slots' \subseteq Slots PROVE Sem'
  <2>1. Cardinality(Slots') <= Cardinality(Slots) /\ Cardinality(Slots') \in Nat
    BY <1>1, <1>2, FS_Subset, FS_CardinalityType
  <2> QED
    BY <1>1, <2>1 DEF Sem
<1>3. ASSUME NEW r \in Runs, NEW label \in Labels, Acquire(r, label) PROVE Sem'
  <2>1. pc' = [pc EXCEPT ![r] = label] /\ pc[r] = "start" /\ Cardinality(Slots) < Concurrency[kind]
    BY <1>3 DEF Acquire, At, Go
  <2>2. Slots' \subseteq Slots \cup {r}
    BY <2>1 DEF IInv, Slots
  <2>3. r \notin Slots
    BY <2>1 DEF Slots
  <2>4. IsFiniteSet(Slots \cup {r}) /\ Cardinality(Slots \cup {r}) = Cardinality(Slots) + 1
    BY <1>1, <2>3, FS_AddElement
  <2>5. Cardinality(Slots') <= Cardinality(Slots) + 1 /\ Cardinality(Slots') \in Nat
    BY <2>2, <2>4, FS_Subset, FS_CardinalityType
  <2> QED
    BY <1>1, <2>1, <2>5 DEF Sem
<1>4. ASSUME NEW r \in Runs, Started(r) PROVE Sem'
  BY <1>3, <1>4 DEF Started, LocalAcquire, ColdAcquire, SSHAcquire, Labels
<1>5. ASSUME NEW r \in Runs, Running(r) PROVE Slots' \subseteq Slots
  <2>1. At(r, "start") => pc'[r] \in {"start", "done"}
    BY <1>5 DEF IInv, Running, LocalRun, ColdRun, ColdRequest, SSHRun, At, Go, Return, Defer, LocalReturn, GiveUp,
         WriteScriptFile, Spawn, LocalDone, Stop, Reap, NewShell, Command, Send, CloseStdin, Wait, CloseShell,
         Dial, WriteScript, WriteReset, WriteDial, Rewrite, NewSession, SessionReset, SessionDial, NewSession2,
         SSHDone, Cleanup
  <2>2. \A x \in Runs : x # r => pc'[x] = pc[x]
    BY <1>5 DEF IInv, Running, LocalRun, ColdRun, ColdRequest, SSHRun, Go, Return, Defer, LocalReturn, GiveUp, Reset,
         Opened, WriteScriptFile, Spawn, LocalDone, Stop, Reap, NewShell, Command, Send, CloseStdin, Wait, CloseShell,
         Dial, WriteScript, WriteReset, WriteDial, Rewrite, NewSession, SessionReset, SessionDial, NewSession2,
         SSHDone, Cleanup
  <2>3. pc[r] # "done"
    BY <1>5 DEF Running, LocalRun, ColdRun, ColdRequest, SSHRun, At, GiveUp,
         WriteScriptFile, Spawn, LocalDone, Stop, Reap, NewShell, Command, Send, CloseStdin, Wait, CloseShell,
         Dial, WriteScript, WriteReset, WriteDial, Rewrite, NewSession, SessionReset, SessionDial, NewSession2,
         SSHDone, Cleanup
  <2> QED
    BY <2>1, <2>2, <2>3 DEF Slots, At
<1>6. (Outside \/ UNCHANGED vars) => Slots' \subseteq Slots
  BY DEF Outside, World, Close, Drop, runVars, vars, Slots
<1> QED
  BY <1>2, <1>4, <1>5, <1>6 DEF Next

(* No more Runs than the semaphore has slots, the types, and no living     *)
(* connection that the transport has lost.                                 *)
THEOREM TypeCorrect == Spec => []TypeOK
<1>1. Init => Sem
  <2> SUFFICES ASSUME Init PROVE Sem
    OBVIOUS
  <2>1. Slots = {} /\ Concurrency[kind] \in Nat
    BY ConcurrencyAssumption DEF Init, CommonInit, Slots
  <2> QED
    BY <2>1, FS_EmptySet DEF Sem
<1>2. IInv /\ Sem /\ [Next]_vars => Sem'
  BY SemStep
<1>3. IInv /\ Sem => TypeOK
  <2> SUFFICES ASSUME IInv, Sem PROVE TypeOK
    OBVIOUS
  <2>1. Living \subseteq {client}
    BY DEF IInv, OneConnection, Living, Alive
  <2> QED
    BY <2>1 DEF IInv, Types, Sem, TypeOK
<1> QED
  BY Invariant, <1>1, <1>2, <1>3, PTL DEF Spec

(* The transports without a pool keep the contract core.exec relies on.    *)
THEOREM RunKeepsContract == Spec => ContractSpec
<1>1. Init => Contract!Init
  BY DEF Init, CommonInit, Contract!Init
<1>2. IInv /\ [Next]_vars => [Contract!Next]_(Contract!vars)
  BY Step DEF ContractStep
<1> QED
  BY Invariant, <1>1, <1>2, PTL DEF Spec, ContractSpec, Contract!Spec

(* No path out of Run leaves behind what it could have removed.            *)
THEOREM RunCleansUp == Spec => []NothingLeftBehind
<1>1. IInv => NothingLeftBehind
  BY DEF IInv, Types, Effects, Tidy, Over, NothingLeftBehind
<1> QED
  BY Invariant, <1>1, PTL
=============================================================================
