---------------------------- MODULE MachineSession ----------------------------
(***************************************************************************)
(* The methods that take two calls of the emulator: readConsoleOutput asks *)
(* how much is buffered and then consumes it, receiveCmioRequest asks how  *)
(* long the request is and then fetches it.                                *)
(*                                                                         *)
(* Over the N-API addon and the WebAssembly module a method runs to its    *)
(* end before another starts, but memory for the answer may be missing.    *)
(* Over JSON-RPC each call is a message to a server that other clients     *)
(* use as well: theirs come in between, and an answer may be lost.         *)
(***************************************************************************)
EXTENDS Naturals, Sequences, FiniteSets

CONSTANTS
    Callers,
    MaxOutput,      \* bound: bytes the guest prints
    MaxRequests,    \* bound: yields of the guest with a request
    Lengths         \* lengths a request may have

ASSUME SessionAssumption == MaxOutput \in Nat /\ MaxRequests \in Nat /\ Lengths \subseteq Nat

VARIABLES
    binding,        \* "napi", "wasm" or "rpc"
    console,        \* the bytes buffered for readConsoleOutput, numbered as printed
    printed,        \* the bytes printed so far
    request,        \* the request the machine yielded with last
    caller,         \* what each caller is doing
    got,            \* the console output each caller was given
    lost,           \* bytes consumed by a call whose answer was lost
    answers         \* the requests that were received

vars == <<binding, console, printed, request, caller, got, lost, answers>>

NoRequest == [id |-> 0, length |-> 0]
Idle      == [doing |-> "nothing", want |-> 0, probe |-> NoRequest, moved |-> FALSE]
Reading(n)   == [Idle EXCEPT !.doing = "read", !.want = n]
Receiving(r) == [Idle EXCEPT !.doing = "receive", !.want = r.length, !.probe = r]

Requests  == [id : 0 .. MaxRequests, length : Lengths \cup {0}]

CallerStates == [doing : {"nothing", "read", "receive"}, want : Nat, probe : Requests,
                 moved : BOOLEAN]

TypeOK ==
    /\ binding \in {"napi", "wasm", "rpc"}
    /\ printed \in 0 .. MaxOutput /\ console \in Seq(1 .. MaxOutput)
    /\ request \in Requests
    /\ caller \in [Callers -> CallerStates]
    /\ got \in [Callers -> Seq(1 .. MaxOutput)]
    /\ lost \subseteq 1 .. MaxOutput

Init ==
    /\ binding \in {"napi", "wasm", "rpc"}
    /\ console = << >> /\ printed = 0 /\ request = NoRequest
    /\ caller = [c \in Callers |-> Idle]
    /\ got = [c \in Callers |-> << >>]
    /\ lost = {} /\ answers = {}

Least(m, n) == IF m < n THEN m ELSE n

\* A binding in the process is one thread of JavaScript.
MayStart(c) ==
    /\ caller[c] = Idle
    /\ binding # "rpc" => \A d \in Callers : caller[d] = Idle

-----------------------------------------------------------------------------
(* run                                                                     *)

\* The machine is elsewhere when the second call of another method arrives.
Moved == caller' = [c \in Callers |-> IF caller[c] = Idle THEN Idle
                                       ELSE [caller[c] EXCEPT !.moved = TRUE]]

RunPrints(c) ==
    /\ MayStart(c) /\ printed < MaxOutput
    /\ printed' = printed + 1
    /\ console' = Append(console, printed + 1)
    /\ Moved
    /\ UNCHANGED <<binding, request, got, lost, answers>>

RunYields(c) ==
    /\ MayStart(c) /\ request.id < MaxRequests
    /\ \E n \in Lengths : request' = [id |-> request.id + 1, length |-> n]
    /\ Moved
    /\ UNCHANGED <<binding, console, printed, got, lost, answers>>

-----------------------------------------------------------------------------
(* readConsoleOutput                                                       *)

\* With no length the buffered length is asked for first; nothing buffered
\* is nothing returned.
Ask(c) ==
    /\ MayStart(c) /\ console # << >>
    /\ caller' = [caller EXCEPT ![c] = Reading(Len(console))]
    /\ UNCHANGED <<binding, console, printed, request, got, lost, answers>>

AskFor(c, n) ==
    /\ MayStart(c)
    /\ caller' = [caller EXCEPT ![c] = Reading(n)]
    /\ UNCHANGED <<binding, console, printed, request, got, lost, answers>>

Take(n) == SubSeq(console, 1, Least(n, Len(console)))
Rest(n) == SubSeq(console, Least(n, Len(console)) + 1, Len(console))

\* Seeded fault: as many bytes are returned as were asked for.
ConsumePadded(c) ==
    /\ caller[c].doing = "read"
    /\ console' = Rest(caller[c].want)
    /\ got' = [got EXCEPT ![c] = @ \o [i \in 1 .. caller[c].want |->
                   IF i <= Len(console) THEN console[i] ELSE 0]]
    /\ caller' = [caller EXCEPT ![c] = Idle]
    /\ UNCHANGED <<binding, printed, request, lost, answers>>

Consume(c) ==
    /\ caller[c].doing = "read"
    /\ console' = Rest(caller[c].want)
    /\ got' = [got EXCEPT ![c] = @ \o Take(caller[c].want)]
    /\ caller' = [caller EXCEPT ![c] = Idle]
    /\ UNCHANGED <<binding, printed, request, lost, answers>>

\* The server consumed, its answer did not arrive: fetch rejects.
ConsumeLost(c) ==
    /\ binding = "rpc" /\ caller[c].doing = "read"
    /\ console' = Rest(caller[c].want)
    /\ lost' = lost \cup {Take(caller[c].want)[i] : i \in DOMAIN Take(caller[c].want)}
    /\ caller' = [caller EXCEPT ![c] = Idle]
    /\ UNCHANGED <<binding, printed, request, got, answers>>

\* No memory for the answer, or a message that did not arrive: between the
\* two calls nothing has been consumed.
GiveUp(c) ==
    /\ caller[c] # Idle
    /\ caller' = [caller EXCEPT ![c] = Idle]
    /\ UNCHANGED <<binding, console, printed, request, got, lost, answers>>

-----------------------------------------------------------------------------
(* receiveCmioRequest                                                      *)

\* The addon has a buffer of the largest length and needs no first call.
Received(named, data, length, moved) ==
    answers' = answers \cup {[named |-> named, data |-> data, length |-> length,
                              whole |-> length = request.length, moved |-> moved]}

Receive(c) ==
    /\ MayStart(c) /\ binding = "napi" /\ request # NoRequest
    /\ Received(request.id, request.id, request.length, FALSE)
    /\ UNCHANGED <<binding, console, printed, request, caller, got, lost>>

Probe(c) ==
    /\ MayStart(c) /\ binding # "napi" /\ request # NoRequest
    /\ caller' = [caller EXCEPT ![c] = Receiving(request)]
    /\ UNCHANGED <<binding, console, printed, request, got, lost, answers>>

\* Seeded fault: command and reason are taken from the first answer.
FetchedByProbe(c) == Received(caller[c].probe.id, request.id,
                              Least(caller[c].want, request.length), caller[c].moved)

\* Command, reason and data are of the same answer. A request that has grown
\* since does not fit: the emulator refuses it (GiveUp) or cuts it.
Fetched(c) == Received(request.id, request.id,
                       Least(caller[c].want, request.length), caller[c].moved)

Fetch(c) ==
    /\ caller[c].doing = "receive"
    /\ Fetched(c)
    /\ caller' = [caller EXCEPT ![c] = Idle]
    /\ UNCHANGED <<binding, console, printed, request, got, lost>>

-----------------------------------------------------------------------------
Next ==
    \E c \in Callers :
        \/ RunPrints(c) \/ RunYields(c)
        \/ Ask(c) \/ (\E n \in 1 .. MaxOutput : AskFor(c, n))
        \/ Consume(c) \/ ConsumeLost(c) \/ GiveUp(c)
        \/ Receive(c) \/ Probe(c) \/ Fetch(c)

Spec == Init /\ [][Next]_vars

-----------------------------------------------------------------------------
Given(c) == {got[c][i] : i \in DOMAIN got[c]}
Buffered == {console[i] : i \in DOMAIN console}

\* Each byte the guest printed is still buffered, was returned to exactly one
\* caller, in order, or went with an answer that was lost, which only a remote
\* caller can suffer, and which told it so by an error: asking first and
\* consuming then loses nothing, whoever reads or runs in between.
OutputIsDelivered ==
    /\ 1 .. printed = Buffered \cup lost \cup UNION {Given(c) : c \in Callers}
    /\ \A c \in Callers :
           /\ \A i, j \in DOMAIN got[c] : i < j => got[c][i] < got[c][j]
           /\ \A d \in Callers \ {c} : Given(c) \cap Given(d) = {}
           /\ Given(c) \cap (Buffered \cup lost) = {}
    /\ lost # {} => binding = "rpc"

\* What receiveCmioRequest returns is of one request, command, reason and
\* data, and all of it, unless another client ran the machine between the
\* calls for its length and for its data.
AnswersAreOfOneRequest ==
    \A a \in answers : a.named = a.data /\ (a.whole \/ a.moved)

=============================================================================
