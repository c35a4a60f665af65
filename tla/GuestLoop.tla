------------------------------ MODULE GuestLoop -----------------------------
(***************************************************************************)
(* The application side, inside the machine: Rollup.run (rollup.ts) with   *)
(* the handlers it is given, plain ones or ones composed by chain and      *)
(* broadcast (handlers.ts), over the device that libcmt opens.             *)
(*                                                                         *)
(* run is one asynchronous loop.  Between the call of a handler and the    *)
(* settling of its promise other code of the application may run, and may  *)
(* close the device.                                                       *)
(***************************************************************************)
EXTENDS Naturals, Sequences

CONSTANTS
    MaxRequests,    \* bound: how many requests the device hands out
    MaxHandlers     \* bound: how many handlers are composed

ASSUME BoundsAssumption == MaxRequests \in Nat /\ MaxHandlers \in Nat \ {0}

Types == {"advance", "inspect"}

(* What run is given for a type of request: no handler, a plain handler, or *)
(* a composition of any number of them.                                    *)
Configurations ==
    [mode : {"missing"}, count : {0}]
    \cup [mode : {"plain"}, count : {1}]
    \cup [mode : {"chain", "broadcast"}, count : 0..MaxHandlers]

(* How a handler's promise settles; nothing is a result that is no boolean. *)
Settlements == {"true", "false", "nothing", "throws"}

VARIABLES
    handlers,   \* the handlers argument
    pc,         \* where run is
    accept,     \* run's variable
    request,    \* the type of the request being handled
    settled,    \* how its handlers have settled so far
    device,     \* is the device open?
    reported,   \* was an error reported for the request?
    verdicts    \* what finish told the machine of each request (history)

vars == <<handlers, pc, accept, request, settled, device, reported, verdicts>>

TypeOK ==
    /\ handlers \in [Types -> Configurations]
    /\ pc \in {"finish", "handle", "report", "resolved", "rejected", "report failed"}
    /\ accept \in BOOLEAN
    /\ request \in Types \cup {"none"}
    /\ settled \in Seq(Settlements) /\ Len(settled) <= MaxHandlers
    /\ device \in {"open", "closed"}
    /\ reported \in BOOLEAN
    /\ verdicts \in Seq([request : Types, accept : BOOLEAN,
                         settled : Seq(Settlements), reported : BOOLEAN])
    /\ Len(verdicts) <= MaxRequests

Init ==
    /\ handlers \in [Types -> Configurations]
    /\ pc = "finish"
    /\ accept = TRUE
    /\ request = "none"
    /\ settled = << >>
    /\ device = "open"
    /\ reported = FALSE
    /\ verdicts = << >>

---------------------------------------------------------------------------
(* finish: the verdict on the previous request, and the next request.      *)

(* The verdict reaches the machine.                                        *)
Tell ==
    verdicts' = IF request = "none" THEN verdicts
                ELSE Append(verdicts, [request |-> request, accept |-> accept,
                                       settled |-> settled, reported |-> reported])

(* A type of request without a handler is rejected on the spot.            *)
Receive(type) ==
    /\ request' = type
    /\ settled' = << >>
    /\ reported' = FALSE
    /\ IF handlers[type].mode = "missing"
       THEN accept' = FALSE /\ UNCHANGED pc
       ELSE pc' = "handle" /\ UNCHANGED accept

HandedOut == Len(verdicts) + (IF request = "none" THEN 0 ELSE 1)

Finish(type) ==
    /\ pc = "finish"
    /\ device = "open"
    /\ HandedOut < MaxRequests
    /\ Tell
    /\ Receive(type)
    /\ UNCHANGED <<handlers, device>>

(* The mock driver has no more inputs.                                     *)
FinishExhausted ==
    /\ pc = "finish"
    /\ device = "open"
    /\ Tell
    /\ pc' = "resolved"
    /\ request' = "none"
    /\ UNCHANGED <<handlers, accept, settled, device, reported>>

(* The device was closed, or the call fails: before the machine was told,  *)
(* or afterwards, when the next request cannot be read.                    *)
FinishThrows ==
    /\ pc = "finish"
    /\ pc' = "rejected"
    /\ \/ UNCHANGED verdicts
       \/ device = "open" /\ Tell
    /\ request' = "none"
    /\ UNCHANGED <<handlers, accept, settled, device, reported>>

---------------------------------------------------------------------------
(* A handler settles.                                                      *)

Decide(choice) ==
    /\ accept' = choice
    /\ pc' = "finish"

(* Seeded faults: a failure that does not reject, and one nobody hears of.  *)
FailKeepsVerdict ==
    /\ pc' = "report"
    /\ UNCHANGED accept

FailSilently ==
    /\ accept' = FALSE
    /\ pc' = "finish"

(* The handler, or the check of its answer, throws: run catches it.        *)
Fail ==
    /\ accept' = FALSE
    /\ pc' = "report"

AskNext == UNCHANGED <<accept, pc>>

Last == Len(settled) + 1 = handlers[request].count

Claimed == \E n \in DOMAIN settled : settled[n] = "true"

(* run takes anything but false for an accept.                             *)
Plain(how) == IF how = "throws" THEN Fail ELSE Decide(how # "false")

(* Seeded fault: the handlers after the one that claimed are asked too.    *)
ChainAsksOn(how) ==
    CASE how \in {"throws", "nothing"} -> Fail
      [] how \in {"true", "false"} -> IF Last THEN Decide(how = "true") ELSE AskNext

Chain(how) ==
    CASE how \in {"throws", "nothing"} -> Fail
      [] how = "true" -> Decide(TRUE)
      [] how = "false" -> IF Last THEN Decide(FALSE) ELSE AskNext

Broadcast(how) ==
    CASE how \in {"throws", "nothing"} -> Fail
      [] how \in {"true", "false"} ->
            IF Last THEN Decide(Claimed \/ how = "true") ELSE AskNext

HandlerSettles(how) ==
    /\ pc = "handle"
    /\ settled' = Append(settled, how)
    /\ handlers[request].count > 0
    /\ LET mode == handlers[request].mode IN
        \/ mode = "plain" /\ Plain(how)
        \/ mode = "chain" /\ Chain(how)
        \/ mode = "broadcast" /\ Broadcast(how)
    /\ UNCHANGED <<handlers, request, device, reported, verdicts>>

(* Seeded fault: waiting for the first of no handlers.                     *)
NobodyIsAwaited ==
    /\ pc = "handle"
    /\ handlers[request].count = 0
    /\ UNCHANGED vars

(* The composition of no handlers declines.                                *)
NobodyIsAsked ==
    /\ pc = "handle"
    /\ handlers[request].count = 0
    /\ Decide(FALSE)
    /\ UNCHANGED <<handlers, request, settled, device, reported, verdicts>>

(* The error is emitted as a report, in the same turn of the event loop in *)
(* which it was caught.                                                    *)
Report ==
    /\ pc = "report"
    /\ device = "open"
    /\ reported' = TRUE
    /\ pc' = "finish"
    /\ UNCHANGED <<handlers, accept, request, settled, device, verdicts>>

(* The device was closed, or the report does not fit the output buffer.    *)
ReportThrows ==
    /\ pc = "report"
    /\ pc' = "report failed"
    /\ UNCHANGED <<handlers, accept, request, settled, device, reported, verdicts>>

(* close, by a handler or by whatever runs while a handler is awaited.     *)
Close ==
    /\ pc = "handle"
    /\ device = "open"
    /\ device' = "closed"
    /\ UNCHANGED <<handlers, pc, accept, request, settled, reported, verdicts>>

Next ==
    \/ \E type \in Types : Finish(type)
    \/ FinishExhausted \/ FinishThrows
    \/ \E how \in Settlements : HandlerSettles(how)
    \/ NobodyIsAsked
    \/ Report \/ ReportThrows
    \/ Close

(* The loop is scheduled, and each handler settles.                        *)
Fairness ==
    /\ WF_vars((\E type \in Types : Finish(type)) \/ FinishExhausted \/ FinishThrows)
    /\ WF_vars((\E how \in Settlements : HandlerSettles(how)) \/ NobodyIsAsked)
    /\ WF_vars(Report \/ ReportThrows)

Spec == Init /\ [][Next]_vars /\ Fairness

---------------------------------------------------------------------------

Ran(v, how) == \E n \in DOMAIN v.settled : v.settled[n] = how

Silent(v) == IF handlers[v.request].mode = "plain" THEN {"throws"} ELSE {"throws", "nothing"}

Failed(v) == \E how \in Silent(v) : Ran(v, how)

(***************************************************************************)
(* An input is accepted exactly if no handler that was asked failed and    *)
(* one of them claimed it ("a request no handler claimed still ends up     *)
(* rejected", handlers.ts); a plain handler claims it unless it answers    *)
(* false.  Nothing of an earlier request's verdict is left over.           *)
(***************************************************************************)
VerdictIsEarned ==
    \A n \in DOMAIN verdicts : LET v == verdicts[n] IN
        v.accept <=>
            /\ ~Failed(v)
            /\ \/ Ran(v, "true")
               \/ handlers[v.request].mode = "plain" /\ Ran(v, "nothing")

(***************************************************************************)
(* Who is asked: chain stops at the first claim, broadcast asks everyone,  *)
(* and both stop at the first failure.                                     *)
(***************************************************************************)
EveryoneIsAsked ==
    \A n \in DOMAIN verdicts :
        LET v == verdicts[n]
            config == handlers[v.request]
            stops == Silent(v) \cup (IF config.mode = "chain" THEN {"true"} ELSE {})
        IN  /\ \A k \in 1 .. Len(v.settled) - 1 : v.settled[k] \notin stops
            /\ \/ Len(v.settled) = config.count
               \/ Len(v.settled) > 0 /\ v.settled[Len(v.settled)] \in stops

(***************************************************************************)
(* "Exceptions reject and are reported" (rollup.ts): the machine is told   *)
(* of a rejection by failure only after the error was emitted as a report. *)
(***************************************************************************)
FailuresAreReported ==
    \A n \in DOMAIN verdicts : verdicts[n].reported <=> Failed(verdicts[n])

(***************************************************************************)
(* Every request gets its verdict, or run has ended.                       *)
(***************************************************************************)
Ended == pc \in {"resolved", "rejected", "report failed"}

EveryRequestIsDecided ==
    \A n \in 0 .. MaxRequests - 1 :
        Len(verdicts) = n /\ request # "none" ~> Len(verdicts) > n \/ Ended

=============================================================================
