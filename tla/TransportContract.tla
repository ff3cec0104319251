------------------------- MODULE TransportContract -------------------------
(***************************************************************************)
(* What adpwsh.Transport.Run promises its caller, core.exec, about one     *)
(* call (transport.go, and the meaning of KindTransient that errors.go and *)
(* transport/winrm/wrap.go give it): the script of a call takes effect at  *)
(* most once; a call that returned the script's answer ("ok") has taken    *)
(* effect; one that returned a Result without it ("bare": PowerShell never *)
(* started, or died) may or may not have, but will not any more; a call    *)
(* that failed with KindTransient has not taken effect and never will, so  *)
(* core.exec may send it again; a call that failed with KindTransport says *)
(* nothing: the script may take effect even after the call has returned.   *)
(***************************************************************************)
EXTENDS Naturals

CONSTANT Runs           \* the calls of Run, each made once

VARIABLES outcome,      \* what each call has returned so far
          applied       \* how often each call's script has taken effect

vars == <<outcome, applied>>

Results == {"ok", "bare", "transient", "transport"}
Outcomes == {"pending"} \cup Results

TypeOK == /\ outcome \in [Runs -> Outcomes]
          /\ applied \in [Runs -> 0..1]

Init == /\ outcome = [r \in Runs |-> "pending"]
        /\ applied = [r \in Runs |-> 0]

(* The script of call r takes effect, possibly after r has returned KindTransport. *)
TakeEffect(r) == /\ applied[r] = 0
                 /\ outcome[r] \in {"pending", "transport"}
                 /\ applied' = [applied EXCEPT ![r] = 1]
                 /\ UNCHANGED outcome

(* Call r returns result o: an answer only after the effect, KindTransient only without one. *)
Return(r, o) == /\ outcome[r] = "pending"
                /\ o = "ok" => applied[r] = 1
                /\ o = "transient" => applied[r] = 0
                /\ outcome' = [outcome EXCEPT ![r] = o]
                /\ UNCHANGED applied

Next == \E r \in Runs : \/ TakeEffect(r)
                        \/ \E o \in Results : Return(r, o)

Spec == Init /\ [][Next]_vars
=============================================================================
