---------------------------- MODULE WaitForInput ----------------------------
(***************************************************************************)
(* waitForInput of the node client, and the React query around it: the     *)
(* node is asked for an input until it has been processed, the retries are *)
(* used up or the time is over.  The input is added and processed          *)
(* meanwhile, requests fail, and an answer arrives after the node gave it. *)
(*                                                                         *)
(* pRetry is a library: an attempt that throws is followed by a wait and   *)
(* another attempt, unless it threw an AbortError, no retry is left, or    *)
(* the time since the first attempt has reached maxRetryTime.  The time is *)
(* looked at only then: an attempt under way is never cut off.             *)
(***************************************************************************)
EXTENDS Naturals

CONSTANTS
    MaxRetries,    \* bound: the largest retryCount
    MaxQueries,    \* bound: how often react-query may run a failed query again
    Refusals       \* the terminal statuses other than ACCEPTED

ASSUME RetriesAssumption == MaxRetries \in Nat /\ MaxQueries \in Nat

VARIABLES
    options,    \* the parameters of the call
    input,      \* the input at the node: "missing", or its status
    late,       \* maxRetryTime has passed
    phase,      \* where the attempt stands
    answer,     \* what the node answered to the attempt under way
    tries,      \* attempts that have failed in this run of the query
    failure,    \* why the last attempt failed
    queries     \* runs of the query that react-query may still start

pollingVars == <<options, input, late, phase, answer, tries, failure, queries>>

ASSUME RefusalsAssumption == Refusals \cap {"missing", "NONE", "ACCEPTED", "nothing", "error"} = {}

Final    == {"ACCEPTED"} \cup Refusals
Statuses == {"NONE"} \cup Final
Phases   == {"asking", "answered", "failed", "sleeping", "resolved", "rejected"}

\* nothing: not asked yet, or the answer is on its way; error: the request failed.
PollingTypeOK ==
    /\ options \in [waitProcessing : BOOLEAN, rejectErrors : BOOLEAN,
                    retryCount : 0 .. MaxRetries, timeout : BOOLEAN]
    /\ input \in {"missing"} \cup Statuses
    /\ late \in BOOLEAN
    /\ phase \in Phases
    /\ answer \in {"nothing", "error"} \cup Statuses
    /\ tries \in 0 .. MaxRetries + 1
    /\ failure \in {"none", "request", "unprocessed", "refused"}
    /\ queries \in 0 .. MaxQueries

PollingInit ==
    /\ options \in [waitProcessing : BOOLEAN, rejectErrors : BOOLEAN,
                    retryCount : 0 .. MaxRetries, timeout : BOOLEAN]
    /\ input \in {"missing"} \cup Statuses
    /\ late = FALSE /\ phase = "asking" /\ answer = "nothing"
    /\ tries = 0 /\ failure = "none"
    /\ queries \in 0 .. MaxQueries

-----------------------------------------------------------------------------
(* The node and the time.                                                  *)

InputChanges ==
    /\ \/ input = "missing" /\ input' = "NONE"
       \/ input = "NONE" /\ input' \in Final
    /\ UNCHANGED <<options, late, phase, answer, tries, failure, queries>>

TimePasses ==
    /\ options.timeout /\ ~late
    /\ phase \notin {"resolved", "rejected"}
    /\ late' = TRUE
    /\ UNCHANGED <<options, input, phase, answer, tries, failure, queries>>

\* The node answers a request with the input as it is, or that there is none;
\* or the request fails on its way.
NodeAnswers ==
    /\ phase = "asking" /\ answer = "nothing"
    /\ answer' \in {"error", IF input = "missing" THEN "error" ELSE input}
    /\ UNCHANGED <<options, input, late, phase, tries, failure, queries>>

-----------------------------------------------------------------------------
(* An attempt.                                                             *)

Arrives ==
    /\ phase = "asking" /\ answer # "nothing"
    /\ phase' = "answered"
    /\ UNCHANGED <<options, input, late, answer, tries, failure, queries>>

Unprocessed == options.waitProcessing /\ answer = "NONE"
Refused     == options.rejectErrors /\ answer \notin {"NONE", "ACCEPTED"}

\* Seeded fault: requests that fail are retried without being counted.
FailUncounted(why) ==
    /\ phase' = "failed" /\ failure' = why
    /\ tries' = IF why = "request" THEN tries ELSE tries + 1
    /\ UNCHANGED <<options, input, late, answer, queries>>

FailAttempt(why) ==
    /\ phase' = "failed" /\ failure' = why /\ tries' = tries + 1
    /\ UNCHANGED <<options, input, late, answer, queries>>

RequestFails == phase = "answered" /\ answer = "error" /\ FailAttempt("request")

NotProcessed == phase = "answered" /\ answer # "error" /\ Unprocessed /\ FailAttempt("unprocessed")

\* Seeded fault: the refusal of an input is an error like any other.
AbortRetries ==
    /\ phase = "answered" /\ answer # "error" /\ ~Unprocessed /\ Refused
    /\ phase' = "failed" /\ failure' = "refused" /\ tries' = tries + 1
    /\ UNCHANGED <<options, input, late, answer, queries>>

\* AbortError ends the retries.
Abort ==
    /\ phase = "answered" /\ answer # "error" /\ ~Unprocessed /\ Refused
    /\ phase' = "rejected" /\ failure' = "refused"
    /\ UNCHANGED <<options, input, late, answer, tries, queries>>

\* Seeded fault: an answer that comes after the deadline is not looked at.
ResolveInTime ==
    /\ phase = "answered" /\ answer # "error" /\ ~Unprocessed /\ ~Refused
    /\ phase' = IF late THEN "rejected" ELSE "resolved"
    /\ UNCHANGED <<options, input, late, answer, tries, failure, queries>>

\* The last answer counts whenever it comes.
Resolve ==
    /\ phase = "answered" /\ answer # "error" /\ ~Unprocessed /\ ~Refused
    /\ phase' = "resolved"
    /\ UNCHANGED <<options, input, late, answer, tries, failure, queries>>

TryAgain == tries <= options.retryCount /\ ~late

Sleep ==
    /\ phase = "failed" /\ TryAgain
    /\ phase' = "sleeping"
    /\ UNCHANGED <<options, input, late, answer, tries, failure, queries>>

GiveUp ==
    /\ phase = "failed" /\ ~TryAgain
    /\ phase' = "rejected"
    /\ UNCHANGED <<options, input, late, answer, tries, failure, queries>>

\* The wait is the polling interval, or what is left of the time.
Wake ==
    /\ phase = "sleeping"
    /\ phase' = "asking" /\ answer' = "nothing"
    /\ UNCHANGED <<options, input, late, tries, failure, queries>>

\* react-query runs a query function that rejected once more, whatever it
\* rejected with: the polling starts over with all its retries.
Requery ==
    /\ phase = "rejected" /\ queries > 0
    /\ queries' = queries - 1
    /\ phase' = "asking" /\ answer' = "nothing"
    /\ tries' = 0 /\ late' = FALSE /\ failure' = "none"
    /\ UNCHANGED <<options, input>>

Attempt == Arrives \/ RequestFails \/ NotProcessed \/ Abort \/ Resolve \/ Sleep \/ GiveUp
               \/ Wake \/ Requery

PollingNext == InputChanges \/ TimePasses \/ NodeAnswers \/ Attempt

\* Every request comes to an end, and what is due in JavaScript is run. That
\* the input is ever processed, or time passes, is not assumed.
PollingSpec ==
    /\ PollingInit /\ [][PollingNext]_pollingVars
    /\ WF_pollingVars(NodeAnswers) /\ WF_pollingVars(Attempt)

-----------------------------------------------------------------------------
\* What waitForInput ends with is what the node said of the input: it resolves
\* to a status the options let through and the node still holds or has gone
\* on from, an error "Input status" is about an outcome the input keeps, and
\* an input that was answered as finished is never reported unprocessed.
EndsByAnswer ==
    /\ phase = "resolved" =>
           /\ answer \in {"NONE", input} \ {"missing"}
           /\ options.waitProcessing => answer # "NONE"
           /\ options.rejectErrors => answer \in {"NONE", "ACCEPTED"}
    /\ phase = "rejected" =>
           CASE failure = "refused"     -> options.rejectErrors /\ answer = input /\ input \in Refusals
             [] failure = "unprocessed" -> options.waitProcessing /\ answer = "NONE"
             [] failure = "request"     -> answer = "error"
             [] OTHER                   -> FALSE

\* A call gives up on an input it has no verdict of only when it must: after
\* as many retries as it was given, or past its time; and a refusal is told
\* at once.
GivesUpWhenDue ==
    /\ (phase = "rejected" /\ failure # "refused") => (tries = options.retryCount + 1 \/ late)
    /\ failure = "refused" => phase \notin {"failed", "sleeping"}

\* Whatever the node answers and however often requests fail, the call ends.
PollingEnds == <>[](phase \in {"resolved", "rejected"} /\ (phase = "rejected" => queries = 0))

=============================================================================
