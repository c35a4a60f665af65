---------------------------- MODULE MachineWrapper ----------------------------
(***************************************************************************)
(* CartesiMachineImpl over either binding, and the functions that belong   *)
(* to no machine.  For each method: how each argument reaches the binding, *)
(* and how the binding's answer reaches the caller.                        *)
(***************************************************************************)
EXTENDS NapiBinding, WasmBinding

CONSTANTS MaxMcycle,       \* MAX_MCYCLE
          AdvanceState,    \* HtifYieldReason.AdvanceState
          RootHash         \* what getRootHash answers

-----------------------------------------------------------------------------
(* What a caller may pass, by the interface CartesiMachine.                *)

MachineTypes ==
    [isEmpty |-> << >>, isJsonrpcMachine |-> << >>,
     create |-> <<"config", "config?", "string?">>,
     load |-> <<"string", "config?", "sharing?">>,
     cloneEmpty |-> << >>,
     store |-> <<"string", "sharing?">>,
     cloneStored |-> <<"string", "string">>, renameStored |-> <<"string", "string">>,
     removeStored |-> <<"string">>, syncStored |-> <<"string">>, destroy |-> << >>,
     getDefaultConfig |-> << >>, setRuntimeConfig |-> <<"config">>, getRuntimeConfig |-> << >>,
     replaceMemoryRange |-> <<"config">>, getInitialConfig |-> << >>,
     getAddressRanges |-> << >>, getRegAddress |-> <<"reg">>, getUarchPristineHash |-> << >>,
     getAddressName |-> <<"word">>, getRootHash |-> << >>, readRevertRootHash |-> << >>,
     writeRevertRootHash |-> <<"hash">>, getNodeHash |-> <<"word", "int">>,
     getProof |-> <<"word", "int", "int?">>,
     readWord |-> <<"word">>, writeWord |-> <<"word", "word">>,
     readReg |-> <<"reg">>, writeReg |-> <<"reg", "word">>,
     readMemory |-> <<"word", "word">>, writeMemory |-> <<"word", "bytes">>,
     readVirtualMemory |-> <<"word", "word">>, writeVirtualMemory |-> <<"word", "bytes">>,
     translateVirtualAddress |-> <<"word">>, writeConsoleInput |-> <<"bytes">>,
     run |-> <<"word?">>,
     collectMcycleRootHashes |-> <<"word", "log2", "word", "int", "config?">>,
     collectMcycleBundle |-> <<"word", "log2", "int">>,
     runUarch |-> <<"word">>,
     collectUarchCycleRootHashes |-> <<"word", "int", "hashes?">>,
     collectUarchCycleBundle |-> <<"word", "int", "hashes?">>,
     resetUarch |-> << >>,
     sendCmioResponse |-> <<"reason", "bytes", "hash?">>,
     logStep |-> <<"word", "string">>, logStepUarch |-> <<"flags">>,
     logResetUarch |-> <<"flags">>,
     logSendCmioResponse |-> <<"reason", "bytes", "flags", "hash?">>,
     verifyStepUarch |-> <<"hash", "config">>, verifyResetUarch |-> <<"hash", "config">>,
     verifySendCmioResponse |-> <<"reason", "bytes", "hash", "config", "hash">>,
     verifyHashTree |-> << >>, getHashTreeStats |-> <<"flag?">>]

ServerTypes ==
    [fork |-> << >>, shutdown |-> << >>, rebind |-> <<"string">>, getServerVersion |-> << >>,
     emancipate |-> << >>]

ModuleTypes ==
    [machineNew |-> << >>, machineCreateNew |-> <<"config", "config?", "string?">>,
     machineLoadNew |-> <<"string", "config?", "sharing?">>,
     verifyStep |-> <<"hash", "string", "word">>]

Types == MachineTypes @@ ServerTypes @@ ModuleTypes

-----------------------------------------------------------------------------
(* How an argument reaches the binding.                                    *)

Convert(how, v) ==
    CASE how = "as is"      -> v
      [] how = "JSON"       -> Json(v)
      [] how = "JSON?"      -> IF v = Undefined THEN Null ELSE Json(v)
      [] how = "?? null"    -> IF Absent(v) THEN Null ELSE v
      [] how = "BigInt"     -> Big(v.number)
      [] how = "= max"      -> IF v = Undefined THEN Big(MaxMcycle) ELSE v
      [] how = "= false"    -> IF v = Undefined THEN Bool(FALSE) ELSE v
      [] how = "flags"      -> accessLogType(v)

\* How an answer reaches the caller.
Back(how, v) ==
    CASE how = "as is"      -> v
      [] how = "JSON.parse" -> Obj(JsonParse(v.json.object))
      [] how = "Number"     -> Num(Rounded(v.bigint))
      [] how = "this"       -> [this |-> TRUE]
      [] how = "hashes"     -> v.json
      [] how = "mcycles"    -> toMcycleRootHashes(parseJson(v.json.phase), v.json)
      [] how = "cycles"     -> toUarchCycleRootHashes(v.json)

Pass(args, back) == [args |-> args, back |-> back]
Same(n)          == [i \in 1 .. n |-> "as is"]

WrapLifecycle ==
    [isEmpty |-> Pass(<< >>, "as is"), isJsonrpcMachine |-> Pass(<< >>, "as is"),
     create |-> Pass(<<"JSON", "JSON?", "?? null">>, "this"),
     load |-> Pass(<<"as is", "JSON?", "as is">>, "this"),
     cloneEmpty |-> Pass(<< >>, "as is"),
     store |-> Pass(Same(2), "this"),
     cloneStored |-> Pass(Same(2), "as is"), renameStored |-> Pass(Same(2), "as is"),
     removeStored |-> Pass(Same(1), "as is"), syncStored |-> Pass(Same(1), "as is"),
     destroy |-> Pass(<< >>, "as is")]

WrapConfiguration ==
    [getDefaultConfig |-> Pass(<< >>, "JSON.parse"), getRegAddress |-> Pass(Same(1), "as is"),
     getUarchPristineHash |-> Pass(<< >>, "as is"), getAddressName |-> Pass(Same(1), "as is"),
     setRuntimeConfig |-> Pass(<<"JSON">>, "as is"),
     getRuntimeConfig |-> Pass(<< >>, "JSON.parse"),
     replaceMemoryRange |-> Pass(<<"JSON">>, "as is"),
     getInitialConfig |-> Pass(<< >>, "JSON.parse"),
     getAddressRanges |-> Pass(<< >>, "JSON.parse")]

WrapState ==
    [getRootHash |-> Pass(<< >>, "as is"), readRevertRootHash |-> Pass(<< >>, "as is"),
     writeRevertRootHash |-> Pass(Same(1), "as is"),
     getProof |-> Pass(Same(3), "JSON.parse"), getNodeHash |-> Pass(Same(2), "as is"),
     readWord |-> Pass(Same(1), "as is"), writeWord |-> Pass(Same(2), "as is"),
     readReg |-> Pass(Same(1), "as is"), writeReg |-> Pass(Same(2), "as is"),
     readMemory |-> Pass(Same(2), "as is"), writeMemory |-> Pass(Same(2), "as is"),
     readVirtualMemory |-> Pass(Same(2), "as is"), writeVirtualMemory |-> Pass(Same(2), "as is"),
     translateVirtualAddress |-> Pass(Same(1), "as is"),
     writeConsoleInput |-> Pass(Same(1), "Number"),
     verifyHashTree |-> Pass(<< >>, "as is"),
     getHashTreeStats |-> Pass(<<"= false">>, "JSON.parse")]

WrapRunning ==
    [run |-> Pass(<<"= max">>, "as is"), runUarch |-> Pass(Same(1), "as is"),
     collectMcycleRootHashes |->
         Pass(<<"as is", "BigInt", "as is", "as is", "JSON?">>, "mcycles"),
     collectMcycleBundle |-> Pass(<<"as is", "BigInt", "as is">>, "hashes"),
     collectUarchCycleRootHashes |-> Pass(<<"as is", "as is", "JSON?">>, "cycles"),
     collectUarchCycleBundle |-> Pass(<<"as is", "as is", "JSON?">>, "hashes"),
     resetUarch |-> Pass(<< >>, "as is")]

WrapLogging ==
    [sendCmioResponse |-> Pass(Same(3), "as is"),
     logStep |-> Pass(Same(2), "as is"),
     logStepUarch |-> Pass(<<"flags">>, "JSON.parse"),
     logResetUarch |-> Pass(<<"flags">>, "JSON.parse"),
     logSendCmioResponse |-> Pass(<<"as is", "as is", "as is", "flags">>, "as is"),
     verifyStepUarch |-> Pass(<<"as is", "JSON">>, "as is"),
     verifyResetUarch |-> Pass(<<"as is", "JSON">>, "as is"),
     verifySendCmioResponse |-> Pass(<<"as is", "as is", "as is", "JSON", "as is">>, "as is")]

WrapServer ==
    [fork |-> Pass(<< >>, "as is"), shutdown |-> Pass(<< >>, "as is"),
     rebind |-> Pass(Same(1), "as is"), getServerVersion |-> Pass(<< >>, "as is"),
     emancipate |-> Pass(<< >>, "as is")]

WrapModule ==
    [machineNew |-> Pass(<< >>, "as is"),
     machineCreateNew |-> Pass(<<"JSON", "JSON?", "?? null">>, "as is"),
     machineLoadNew |-> Pass(<<"as is", "JSON?", "as is">>, "as is"),
     verifyStep |-> Pass(Same(3), "as is")]

Wrap == WrapLifecycle @@ WrapConfiguration @@ WrapState @@ WrapRunning @@ WrapLogging
            @@ WrapServer @@ WrapModule

-----------------------------------------------------------------------------
\* The revert root hash of a response defaults to the machine's.
DefaultsToRoot(reason, hash) == Absent(hash) /\ reason = Num(AdvanceState)

RootRead == [m |-> "getRootHash", args |-> << >>]
Calls(m, args) == [m |-> m, args |-> [i \in DOMAIN Wrap[m].args |->
                                          Convert(Wrap[m].args[i], ArgAt(args, i))]]

sendCmioResponse(reason, data, hash) ==
    IF DefaultsToRoot(reason, hash)
    THEN <<RootRead, Calls("sendCmioResponse", <<reason, data, RootHash>>)>>
    ELSE <<Calls("sendCmioResponse", <<reason, data, IF Absent(hash) THEN Null ELSE hash>>)>>

logSendCmioResponse(reason, data, logType, hash) ==
    (IF Absent(hash) THEN <<RootRead>> ELSE << >>)
        \o <<Calls("logSendCmioResponse",
                   <<reason, data, IF Absent(hash) THEN RootHash ELSE hash, logType>>)>>

\* The calls of the binding that a call of the wrapper makes.
NativeCalls(m, args) ==
    CASE m = "sendCmioResponse"    -> sendCmioResponse(args[1], args[2], args[3])
      [] m = "logSendCmioResponse" -> logSendCmioResponse(args[1], args[2], args[3], args[4])
      [] OTHER                     -> <<Calls(m, args)>>

-----------------------------------------------------------------------------
(* The calls of the C API that these make, over either binding.            *)

Made(sig, passed) ==
    IF Refused \in {passed[i] : i \in DOMAIN passed} THEN Refused ELSE [f |-> sig.f, args |-> passed]

NapiMade(call) ==
    LET sig == NapiTable[call.m]
    IN  Made(sig, [i \in DOMAIN sig.in |-> NapiGet(sig.in[i], ArgAt(call.args, i))])

WasmMade(call) ==
    LET sig == WasmTable[call.m]
    IN  Made(sig, [i \in DOMAIN sig.in |-> WasmPass(sig.in[i], ArgAt(call.args, i))])

NapiCalls(m, args) == [i \in DOMAIN NativeCalls(m, args) |-> NapiMade(NativeCalls(m, args)[i])]
WasmCalls(m, args) == [i \in DOMAIN NativeCalls(m, args) |-> WasmMade(NativeCalls(m, args)[i])]

NapiAnswer(m, answer) == Back(Wrap[m].back, NapiReturn(NapiTable[m].out, answer))
WasmAnswer(m, answer) == Back(Wrap[m].back, WasmRead(WasmTable[m].out, answer))

=============================================================================
