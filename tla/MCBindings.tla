----------------------------- MODULE MCBindings -----------------------------
(***************************************************************************)
(* The bindings compared: first one call that takes a single step, with    *)
(* any arguments and any answer, over each of them, then a session of the  *)
(* calls that take two.                                                    *)
(***************************************************************************)
EXTENDS RpcClient, MachineSession

VARIABLE call    \* the call that is compared

MCRootHash == Bytes("root", HashSize)
MCSharingModes == <<"none", "config", "all">>

NoCall == [m |-> "none", args |-> << >>, answer |-> COk]

-----------------------------------------------------------------------------
(* Arguments and answers.                                                  *)

Words == {0, Exact, Word - 1}
Values(type) ==
    CASE type = "word"     -> {Big(n) : n \in Words}
      [] type = "word?"    -> {Big(n) : n \in Words} \cup {Undefined}
      [] type = "int"      -> {Num(n) : n \in {-IntTop - 1, -IntTop, IntTop - 1, IntTop}}
      [] type = "int?"     -> {Num(3), Undefined}
      [] type = "log2"     -> {Num(0), Num(2)}
      [] type = "reg"      -> {Num(0), Num(3)}
      [] type = "string"   -> {Txt("a"), Txt("b")}
      [] type = "string?"  -> {Txt("a"), Undefined}
      [] type = "config"   -> {Obj("config")}
      [] type = "config?"  -> {Obj("config"), Undefined}
      [] type = "sharing?" -> {Num(0), Num(1), Num(2), Undefined}
      [] type = "bytes"    -> {Bytes("data", 0), Bytes("data", 2)}
      [] type = "hash"     -> {Bytes("hash", HashSize)}
      [] type = "hash?"    -> {Bytes("hash", HashSize), Undefined}
      [] type = "hashes?"  -> {Hashes("tail"), Undefined}
      [] type = "reason"   -> {Num(AdvanceState), Num(AdvanceState + 1)}
      [] type = "flags"    -> {Flags(a, l) : a, l \in BOOLEAN}
      [] type = "flag?"    -> {Bool(TRUE), Bool(FALSE), Undefined}

RECURSIVE Arguments(_)
Arguments(types) ==
    IF types = << >> THEN {<< >>}
    ELSE {<<v>> \o rest : v \in Values(Head(types)), rest \in Arguments(Tail(types))}

\* Around the limits of what JSON and doubles keep.
AnswerWords == {0, Quote - 1, Quote, Exact, Exact + 1, Word - 1}

\* What the C function answers, by the type of the addon's answer.
Answers(m) ==
    LET out == NapiTable[m].out
    IN  CASE out = "undefined" -> {COk}
          [] out = "boolean"   -> {CInt(0), CInt(1)}
          [] out = "bigint"    -> {CWord(n) : n \in AnswerWords}
          [] out = "number"    -> {CReason(r) : r \in 0 .. IF m = "runUarch" THEN 2 ELSE 8}
          [] out = "buffer"    -> {Bytes("answer", 2)}
          [] out = "machine"   -> {MachineObject}
          [] out = "string"    ->
             CASE m \in {"collectMcycleRootHashes"} ->
                     {Json(Collected("h", n, BreakNames[r])) : n \in AnswerWords, r \in 1 .. 9}
               [] m \in {"collectUarchCycleRootHashes"} ->
                     {Json([hashes |-> "h", reason |-> BreakNames[r]]) : r \in 1 .. 9}
               [] m \in {"collectMcycleBundle", "collectUarchCycleBundle"} -> {Json(Hashes("h"))}
               [] m \in {"getAddressName", "rebind", "getServerVersion", "logSendCmioResponse"} ->
                     {Txt("name")}
               [] OTHER -> {Json(Obj(n)) : n \in AnswerWords}

Cases == UNION {[m : {m}, args : Arguments(Types[m]), answer : Answers(m)] : m \in DOMAIN Types}

-----------------------------------------------------------------------------
MCInit == call \in Cases /\ Init

Compare == /\ call # NoCall /\ call' = NoCall
           /\ UNCHANGED vars

Session == call = NoCall /\ Next /\ UNCHANGED call

MCNext == Compare \/ Session

MCSpec == MCInit /\ [][MCNext]_<<call, vars>>

-----------------------------------------------------------------------------
\* The defaults the bindings do not share: the sharing mode of a store, which
\* is ALL in the addon and NONE in the others, and the revert root hash of
\* logSendCmioResponse, which the JSON-RPC client leaves to the server.
SharedDefaults(m, args) ==
    /\ m = "store" => args[2] # Undefined
    /\ m = "logSendCmioResponse" => args[4] # Undefined

\* The server has defaults of its own for what the client leaves out.
LeftToServer(m, args) ==
    \/ m = "load" /\ args[3] = Undefined
    \/ m = "getProof" /\ args[3] = Undefined

Fits(calls) == Refused \notin {calls[i] : i \in DOMAIN calls}

\* A call of the machine interface makes the same calls of the C API with the
\* same arguments over the addon and over the WebAssembly module, or is refused
\* by both; and the calls the JSON-RPC client has the server make are the same.
CallsAgree ==
    LET m == call.m  args == call.args
    IN  call # NoCall /\ SharedDefaults(m, args) =>
            /\ m \in DOMAIN WasmTable => NapiCalls(m, args) = WasmCalls(m, args)
            /\ m \in DOMAIN RpcTable /\ ~LeftToServer(m, args) /\ Fits(NapiCalls(m, args)) =>
                   NapiCalls(m, args) = RpcCalls(m, args)

\* The wrapper's methods that return their receiver return nothing over JSON-RPC.
Value(v) == IF v = [this |-> TRUE] THEN Undefined ELSE v

\* JSON.parse of a configuration rounds what a double does not hold, and the
\* client returns such an integer as a string.
Parsed(v) == IF Is("object", v) /\ Is("json", call.answer) /\ call.answer.json.object >= Quote
             THEN "inexact" ELSE Value(v)

\* An answer of the emulator reaches the caller as the same value over each
\* binding, integers of 64 bits and names of break reasons included; only
\* integers of sixteen digits within a configuration, a proof or a log do not.
ResultsAgree ==
    call # NoCall =>
        LET napi == Parsed(NapiAnswer(call.m, call.answer))
        IN  /\ call.m \in DOMAIN WasmTable =>
                   Value(NapiAnswer(call.m, call.answer)) = Value(WasmAnswer(call.m, call.answer))
            /\ call.m \in DOMAIN RpcTable => napi = Parsed(RpcAnswer(call.m, call.answer))

=============================================================================
