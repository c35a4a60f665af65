--------------------------- MODULE RollupsLedger ---------------------------
(***************************************************************************)
(* What a rollups machine promises its caller, with no machine, snapshot   *)
(* or server in sight.  The application's state is the sequence of the     *)
(* inputs it accepted; a request is answered at most once; an accepted     *)
(* input is applied in the same step in which its caller learns of it, and *)
(* a request that is refused, that fails, or that only inspects, leaves    *)
(* the application exactly as it was.                                      *)
(*                                                                         *)
(* LocalRollups and RemoteRollups are shown to implement this module.      *)
(***************************************************************************)
EXTENDS Naturals, Sequences

CONSTANTS
    Inputs,     \* advance-state requests
    Queries     \* inspect-state requests

Requests == Inputs \cup Queries

(* The ways a request ends without having changed the application.         *)
Refusals == {"rejected", "fatal", "error", "answered"}

VARIABLES
    state,      \* the inputs the application's state consists of
    outcome     \* how each request was answered, "none" before it is

vars == <<state, outcome>>

TypeOK ==
    /\ state \in Seq(Inputs)
    /\ outcome \in [Requests -> Refusals \cup {"none", "accepted"}]

Init ==
    /\ state = << >>
    /\ outcome = [r \in Requests |-> "none"]

(* An input is accepted: it becomes part of the state.                     *)
Accept(i) ==
    /\ outcome[i] = "none"
    /\ outcome' = [outcome EXCEPT ![i] = "accepted"]
    /\ state' = Append(state, i)

(* A request is rejected, faulty, or an inspect answered: no trace of it.  *)
Refuse(r) ==
    /\ outcome[r] = "none"
    /\ \E why \in Refusals : outcome' = [outcome EXCEPT ![r] = why]
    /\ UNCHANGED state

Next ==
    \/ \E i \in Inputs : Accept(i)
    \/ \E r \in Requests : Refuse(r)

Spec == Init /\ [][Next]_vars
=============================================================================
