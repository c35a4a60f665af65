-------------------------- MODULE EmulatorMachine --------------------------
(***************************************************************************)
(* The Cartesi Machine as the rollups layer sees it: an external component *)
(* reached through CartesiMachine (machine-impl.ts).  Its whole state is   *)
(* abstracted to                                                           *)
(*   handled  the requests whose effects it holds, completely or partly,   *)
(*            in the order in which they were delivered to the guest;      *)
(*   yield    where it stands: at a manual yield, executing (which covers  *)
(*            an automatic yield), halted, or gone (an empty object, or a  *)
(*            server that was shut down: every call on it throws).         *)
(* This module has no variables: a machine is a value, since it can be     *)
(* stored, loaded and forked.                                              *)
(***************************************************************************)
EXTENDS Naturals, Sequences

CONSTANTS
    Inputs,     \* advance-state requests
    Queries,    \* inspect-state requests
    Oversized   \* the requests whose data is longer than the rx buffer

ASSUME InputsAreNotQueries == Inputs \cap Queries = {}
ASSUME OversizedAreRequests == Oversized \subseteq Inputs \cup Queries

Requests == Inputs \cup Queries

None == "none"
ASSUME NoneIsNoRequest == None \notin Requests

ManualYields == {"accepted", "rejected", "exception", "gio"}
FixedPoints == ManualYields \cup {"halted"}

Machine == [handled : Seq(Requests), yield : FixedPoints \cup {"running", "gone"}]

(* A booted application waiting for its first request.                     *)
Fresh == [handled |-> << >>, yield |-> "accepted"]

Gone == [handled |-> << >>, yield |-> "gone"]

Usable(m) == m.yield # "gone"

(* The request the guest is serving, or served last.                       *)
Serving(m) == IF m.handled = << >> THEN None ELSE m.handled[Len(m.handled)]

(* Does machine m hold effects of request r?                               *)
Holds(m, r) == \E n \in DOMAIN m.handled : m.handled[n] = r

(***************************************************************************)
(* sendCmioResponse: a response the machine is not waiting for, one that   *)
(* does not fit in the rx buffer, and an advance-state response to a yield *)
(* that is not an accepted one change nothing and raise nothing.           *)
(***************************************************************************)
Delivers(m, r) ==
    /\ r \notin Oversized
    /\ m.yield \in ManualYields
    /\ r \in Inputs => m.yield = "accepted"

AfterResponse(m, r) ==
    IF Delivers(m, r)
    THEN [handled |-> Append(m.handled, r), yield |-> "running"]
    ELSE m

(***************************************************************************)
(* run, with the receiveCmioRequest that follows a yield.  A machine at a  *)
(* fixed point stays there and reports it again at once; an executing one  *)
(* reaches whatever the guest program does next.  "garbled" is an          *)
(* automatic yield with nothing to report (progress of fewer than four     *)
(* bytes, an unknown reason); "gio" any other manual yield; "interrupted"  *)
(* the break reasons after which the guest could go on (console output and *)
(* input, soft yields, Failed); "halted" also stands for McycleOverflow.   *)
(***************************************************************************)
AutomaticYields == {"output", "report", "progress", "garbled"}

CanBreak(m) ==
    IF m.yield = "running"
    THEN AutomaticYields \cup FixedPoints \cup {"interrupted"}
    ELSE {m.yield}

AfterRun(m, break) ==
    IF break \in FixedPoints THEN [m EXCEPT !.yield = break] ELSE m
=============================================================================
