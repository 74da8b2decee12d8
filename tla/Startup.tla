------------------------------ MODULE Startup ------------------------------
(***************************************************************************)
(* The start of a shell: main constructs PacketShell, which chooses the    *)
(* addresses and makes the device, and then the queues are made from the   *)
(* arguments and the traces.                                               *)
(***************************************************************************)
EXTENDS Addresses, TraceLoading

vars == <<addressVars, loadVars>>

Init == AddressInit /\ LoadInit

\* The addresses do not depend on the traces, nor the traces on other shells:
\* the traces are read in the states in which one shell is there alone.
Next ==
  \/ AddressStep /\ phase = "main" /\ UNCHANGED loadVars
  \/ /\ \E s \in Shells : /\ shell[s].state = "ready"
                          /\ \A t \in Shells \ {s} : shell[t].state = "idle"
     /\ LoadStep
     /\ UNCHANGED addressVars

Spec == Init /\ [][Next]_vars

=============================================================================
