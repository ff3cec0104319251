---------------------------- MODULE SSHTransport ----------------------------
(***************************************************************************)
(* transport/ssh: one connection that all Runs share, a channel for each   *)
(* Run, and a second way for a large script: a file written over SFTP and  *)
(* removed again, best effort.  Connections are numbered in the order they *)
(* are dialled; lost holds those that reset, Close or the network ended.   *)
(***************************************************************************)
EXTENDS OneShot

CONSTANT MaxDials        \* bound: how many connections are ever made

ASSUME MaxDialsAssumption == MaxDials \in Nat \ {0}

VARIABLES client,        \* t.client, 0 for nil
          dialled, lost, \* connections made so far, and those of them that are gone
          conn,          \* of each Run: its local variable client, 0 for nil
          session        \* of each Run: the connection its session is on

sshVars == <<client, dialled, lost, conn, session>>
connVars == <<client, dialled, lost>>

SSHInit ==                                    \* New has dialled
  /\ client = 1 /\ dialled = 1 /\ lost = {}
  /\ conn = [r \in Runs |-> 0] /\ session = [r \in Runs |-> 0]

Alive(n) == n # 0 /\ n \notin lost

SSHAcquire(r) == Acquire(r, "dial") /\ UNCHANGED sshVars

(* dial: the cached client, else a new one; whoever dials holds the mutex. *)
Dialled(n) == \/ client # 0 /\ n = client /\ UNCHANGED connVars
              \/ /\ client = 0 /\ n = dialled + 1 /\ n <= MaxDials
                 /\ client' = n /\ dialled' = n /\ UNCHANGED lost
DialFails == client = 0 /\ UNCHANGED connVars

Dial(r) ==
  /\ At(r, "dial")
  /\ \/ \E n \in 1..MaxDials, label \in {"write", "session"} :
          Dialled(n) /\ conn' = Set(conn, r, n) /\ Go(r, label) /\ UNCHANGED <<verdict, outcome>>
     \/ DialFails /\ Return(r, "transport") /\ UNCHANGED conn
  /\ UNCHANGED <<session, worldVars>>

(* Plausible bug: the connection is dropped without being closed. *)
ResetForgets(r, label) == /\ client' = 0 /\ Go(r, label)
                          /\ UNCHANGED <<lost, dialled, conn, session, verdict, outcome, worldVars>>
(* reset: the connection that is the transport's now, whoever dialled it.  *)
Reset(r, label) == /\ lost' = (lost \cup {client}) \ {0} /\ client' = 0 /\ Go(r, label)
                   /\ UNCHANGED <<dialled, conn, session, verdict, outcome, worldVars>>

(* A write fails on a lost connection, and may on any other; it may leave part of a file. *)
Written(r) == Alive(conn[r]) /\ file' = Set(file, r, "there")
NotWritten(r) == \/ UNCHANGED file
                 \/ Written(r)
WriteScript(r) ==
  /\ At(r, "write")
  /\ \/ Written(r) /\ Go(r, "session")
     \/ NotWritten(r) /\ Go(r, "writeReset")
  /\ UNCHANGED <<verdict, outcome, ended, proc, applied, sshVars>>
WriteReset(r) == At(r, "writeReset") /\ Reset(r, "writeDial")
WriteDial(r) ==
  /\ At(r, "writeDial")
  /\ \/ \E n \in 1..MaxDials :
          Dialled(n) /\ conn' = Set(conn, r, n) /\ Go(r, "rewrite") /\ UNCHANGED <<verdict, outcome>>
     \/ DialFails /\ conn' = Set(conn, r, 0) /\ Defer(r, "transport", "cleanup")
  /\ UNCHANGED <<session, worldVars>>
Rewrite(r) ==
  /\ At(r, "rewrite")
  /\ \/ Written(r) /\ Go(r, "session") /\ UNCHANGED <<verdict, outcome>>
     \/ NotWritten(r) /\ Defer(r, "transient", "cleanup")
  /\ UNCHANGED <<ended, proc, applied, sshVars>>

(* NewSession, and what session.Run sends: the process has its script and its input at once. *)
Opened(r, n) == /\ Alive(n) /\ session' = Set(session, r, n)
                /\ proc' = Set(proc, r, "fed") /\ Go(r, "wait")
NewSession(r) ==
  /\ At(r, "session")
  /\ \/ Opened(r, conn[r])
     \/ Go(r, "sessionReset") /\ UNCHANGED <<session, proc>>
  /\ UNCHANGED <<verdict, outcome, ended, file, applied, connVars, conn>>
SessionReset(r) == At(r, "sessionReset") /\ Reset(r, "sessionDial")
(* The new client is local to runOnSession: runLarge cleans up with the one it knows. *)
SessionDial(r) ==
  /\ At(r, "sessionDial")
  /\ \/ \E n \in 1..MaxDials :
          Dialled(n) /\ session' = Set(session, r, n) /\ Go(r, "session2") /\ UNCHANGED <<verdict, outcome>>
     \/ DialFails /\ Defer(r, "transport", "cleanup") /\ UNCHANGED session
  /\ UNCHANGED <<conn, worldVars>>
(* Channel exhaustion is worth retrying. *)
NewSession2(r) ==
  /\ At(r, "session2")
  /\ \/ Opened(r, session[r]) /\ UNCHANGED <<verdict, outcome>>
     \/ Defer(r, "transient", "cleanup") /\ UNCHANGED <<session, proc>>
  /\ UNCHANGED <<ended, file, applied, connVars, conn>>

(* Any exit status is a result.  A lost connection, or a request to run that was refused, is not;  *)
(* nor is a script that the context or the timer cut off.  The process may live on.                *)
SSHDone(r) ==
  /\ At(r, "wait")
  /\ \/ proc[r] \in Over /\ Alive(session[r]) /\ Defer(r, ResultOf(r), "cleanup") /\ UNCHANGED proc
     \/ Defer(r, "transport", "cleanup") /\ (UNCHANGED proc \/ proc' = Set(proc, r, Killed(proc[r])))
  /\ UNCHANGED <<ended, file, applied, sshVars>>

(* cleanupRemoteScript: over the connection of the write, and it may be refused on a living one; where *)
(* the redial failed there is no client, and nothing is tried.                                          *)
Removed(r) == CASE file[r] = "none" -> {"none"}
                [] conn[r] = 0 -> {"left"}
                [] Alive(conn[r]) -> {"none", "stuck"}
                [] OTHER -> {"stuck"}
(* Plausible bug: the clean-up is put off until the write has succeeded. *)
CleanupAfterWrite(r) ==
  /\ At(r, "cleanup") /\ Return(r, verdict[r])
  /\ \E f \in IF proc[r] = "none" THEN {file[r]} ELSE Removed(r) : file' = Set(file, r, f)
  /\ conn' = Set(conn, r, 0) /\ session' = Set(session, r, 0)
  /\ UNCHANGED <<ended, proc, applied, connVars>>
(* The deferred clean-up; where there was no file this is the plain return. *)
Cleanup(r) ==
  /\ At(r, "cleanup") /\ Return(r, verdict[r])
  /\ \E f \in Removed(r) : file' = Set(file, r, f)
  /\ conn' = Set(conn, r, 0) /\ session' = Set(session, r, 0)
  /\ UNCHANGED <<ended, proc, applied, connVars>>

SSHRun(r) == \/ Dial(r) \/ WriteScript(r) \/ WriteReset(r) \/ WriteDial(r) \/ Rewrite(r)
             \/ NewSession(r) \/ SessionReset(r) \/ SessionDial(r) \/ NewSession2(r)
             \/ SSHDone(r) \/ Cleanup(r) \/ (GiveUp(r) /\ UNCHANGED sshVars)

(* Close, and the network; a Run that finds no client dials again. *)
Close == /\ client # 0
         /\ lost' = lost \cup {client} /\ client' = 0
         /\ UNCHANGED <<dialled, conn, session, runVars, worldVars>>
Drop == /\ \E n \in 1..dialled : Alive(n) /\ lost' = lost \cup {n}
        /\ UNCHANGED <<client, dialled, conn, session, runVars, worldVars>>
=============================================================================
