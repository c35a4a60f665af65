------------------------------ MODULE RpcClient ------------------------------
(***************************************************************************)
(* The JSON-RPC client: the same methods as calls of a server, and what    *)
(* the server, which is not part of the repository, makes of them: it      *)
(* decodes the parameters, calls the C API, and encodes the answer.        *)
(***************************************************************************)
EXTENDS MachineWrapper

CONSTANT SharingModes    \* <<"none", "config", "all">>, from 0 on

-----------------------------------------------------------------------------
(* Parameters.                                                             *)

\* stringify takes bigints to JSON as numbers, and what is left out to null.
Wire(v) ==
    CASE Is("bigint", v) -> [json_number |-> v.bigint]
      [] Is("number", v) -> [json_number |-> v.number]
      [] Absent(v)       -> [json_null |-> TRUE]
      [] OTHER           -> [json_value |-> v]

Base64(v)  == [base64 |-> v]
RegName(n) == [register |-> n]

Param(how, v) ==
    CASE how = "as is"   -> Wire(v)
      [] how = "base64"  -> [json_value |-> Base64(v)]
      [] how = "base64?" -> IF Absent(v) THEN Wire(v) ELSE [json_value |-> Base64(v)]
      [] how = "base64s" -> IF Absent(v) THEN Wire(v) ELSE [json_value |-> v]
      [] how = "sharing" -> IF Absent(v) THEN Wire(v)
                            ELSE [json_value |-> Txt(SharingModes[v.number + 1])]
      [] how = "sharing ?? none" ->
            [json_value |-> Txt(IF Absent(v) THEN SharingModes[1] ELSE SharingModes[v.number + 1])]
      [] how = "register" -> [json_value |-> RegName(v.number)]
      [] how = "= max"    -> Wire(IF Absent(v) THEN Big(MaxMcycle) ELSE v)
      [] how = "= false"  -> Wire(IF Absent(v) THEN Bool(FALSE) ELSE v)

\* What the server does with a parameter: the inverse, into the types of C.
Served(p) ==
    CASE Is("json_number", p) -> CInt(p.json_number)
      [] Is("json_null", p)   -> Null
      [] OTHER ->
         LET v == p.json_value
         IN  CASE Is("base64", v)      -> v.base64
               [] Is("register", v)    -> CInt(v.register)
               [] Is("annotations", v) -> CInt(accessLogType(v).number)
               [] Is("boolean", v)     -> CInt(IF v.boolean THEN 1 ELSE 0)
               [] Is("object", v) \/ Is("hashes", v) -> Json(v)
               [] OTHER                -> v

\* A name of a sharing mode is a number of the C API.
ServedSharing(p) ==
    IF Is("json_null", p) THEN Null
    ELSE CInt((CHOOSE i \in DOMAIN SharingModes : p.json_value = Txt(SharingModes[i])) - 1)

(* Results.                                                                *)

\* The server's answer as JSON.
Answered(answer) ==
    CASE Is("word", answer) -> parseJson(answer.word)
      [] Is("json", answer) /\ Is("phase", answer.json) ->
            [hashes |-> answer.json.hashes, phase |-> parseJson(answer.json.phase),
             reason |-> answer.json.reason]
      [] Is("json", answer) /\ Is("object", answer.json) -> Obj(parseJson(answer.json.object))
      [] Is("json", answer) -> answer.json
      [] Is("c", answer)     -> Bool(answer.c = 1)
      [] Is("bytes", answer) -> Base64(answer)
      [] OTHER               -> answer

UarchReason(name) == Num([reached_target_uarch_cycle |-> 0, uarch_halted |-> 1,
                          uarch_cycle_overflow |-> 2][name])

Result(how, answer) ==
    CASE how = "as is"      -> Answered(answer)
      [] how = "nothing"    -> Undefined
      [] how = "toBigInt"   -> toBigInt(Answered(answer))
      [] how = "Number"     -> Num(Rounded(toBigInt(Answered(answer)).bigint))
      [] how = "fromBase64" -> Answered(answer).base64
      [] how = "reason"     -> toBreakReason(BreakNames[answer.reason + 1])
      [] how = "uarch"      -> UarchReason(UarchBreakNames[answer.reason + 1])
      [] how = "mcycles"    -> toMcycleRootHashes(Answered(answer).phase, Answered(answer))
      [] how = "cycles"     -> toUarchCycleRootHashes(Answered(answer))
      [] how = "text"       -> answer

-----------------------------------------------------------------------------
(* Methods: the function the server calls, parameters, result.             *)

RpcServer ==
    [fork |-> Sig("jsonrpc_fork_server", << >>, "as is"),
     rebind |-> Sig("jsonrpc_rebind_server", <<"as is">>, "as is"),
     emancipate |-> Sig("jsonrpc_emancipate_server", << >>, "nothing"),
     shutdown |-> Sig("jsonrpc_shutdown_server", << >>, "nothing"),
     getServerVersion |-> Sig("jsonrpc_get_server_version", << >>, "as is")]

RpcLifecycle ==
    [isEmpty |-> Sig("is_empty", << >>, "as is"),
     create |-> Sig("create", <<"as is", "as is", "as is">>, "nothing"),
     load |-> Sig("load", <<"as is", "as is", "sharing">>, "nothing"),
     store |-> Sig("store", <<"as is", "sharing ?? none">>, "nothing"),
     cloneStored |-> Sig("clone_stored", <<"as is", "as is">>, "nothing"),
     renameStored |-> Sig("rename_stored", <<"as is", "as is">>, "nothing"),
     removeStored |-> Sig("remove_stored", <<"as is">>, "nothing"),
     syncStored |-> Sig("sync_stored", <<"as is">>, "nothing"),
     destroy |-> Sig("destroy", << >>, "nothing")]

RpcConfiguration ==
    [getDefaultConfig |-> Sig("get_default_config", << >>, "as is"),
     getInitialConfig |-> Sig("get_initial_config", << >>, "as is"),
     getRuntimeConfig |-> Sig("get_runtime_config", << >>, "as is"),
     setRuntimeConfig |-> Sig("set_runtime_config", <<"as is">>, "nothing"),
     replaceMemoryRange |-> Sig("replace_memory_range", <<"as is">>, "nothing"),
     getAddressRanges |-> Sig("get_address_ranges", << >>, "as is"),
     getRegAddress |-> Sig("get_reg_address", <<"register">>, "toBigInt"),
     getAddressName |-> Sig("get_address_name", <<"as is">>, "as is")]

RpcHashes ==
    [getUarchPristineHash |-> Sig("get_uarch_pristine_hash", << >>, "fromBase64"),
     getRootHash |-> Sig("get_root_hash", << >>, "fromBase64"),
     readRevertRootHash |-> Sig("read_revert_root_hash", << >>, "fromBase64"),
     writeRevertRootHash |-> Sig("write_revert_root_hash", <<"base64">>, "nothing"),
     getNodeHash |-> Sig("get_node_hash", <<"as is", "as is">>, "fromBase64"),
     getProof |-> Sig("get_proof", <<"as is", "as is", "as is">>, "as is"),
     verifyHashTree |-> Sig("verify_hash_tree", << >>, "as is"),
     getHashTreeStats |-> Sig("get_hash_tree_stats", <<"= false">>, "as is")]

RpcState ==
    [readWord |-> Sig("read_word", <<"as is">>, "toBigInt"),
     writeWord |-> Sig("write_word", <<"as is", "as is">>, "nothing"),
     readReg |-> Sig("read_reg", <<"register">>, "toBigInt"),
     writeReg |-> Sig("write_reg", <<"register", "as is">>, "nothing"),
     readMemory |-> Sig("read_memory", <<"as is", "as is">>, "fromBase64"),
     writeMemory |-> Sig("write_memory", <<"as is", "base64">>, "nothing"),
     readVirtualMemory |-> Sig("read_virtual_memory", <<"as is", "as is">>, "fromBase64"),
     writeVirtualMemory |-> Sig("write_virtual_memory", <<"as is", "base64">>, "nothing"),
     translateVirtualAddress |-> Sig("translate_virtual_address", <<"as is">>, "toBigInt"),
     writeConsoleInput |-> Sig("write_console_input", <<"base64">>, "Number")]

RpcRunning ==
    [run |-> Sig("run", <<"= max">>, "reason"),
     collectMcycleRootHashes |->
         Sig("collect_mcycle_root_hashes",
             <<"as is", "as is", "as is", "as is", "as is">>, "mcycles"),
     collectMcycleBundle |-> Sig("collect_mcycle_bundle", <<"as is", "as is", "as is">>, "as is"),
     runUarch |-> Sig("run_uarch", <<"as is">>, "uarch"),
     collectUarchCycleRootHashes |->
         Sig("collect_uarch_cycle_root_hashes", <<"as is", "as is", "base64s">>, "cycles"),
     collectUarchCycleBundle |->
         Sig("collect_uarch_cycle_bundle", <<"as is", "as is", "base64s">>, "as is"),
     resetUarch |-> Sig("reset_uarch", << >>, "nothing")]

RpcLogging ==
    [sendCmioResponse |-> Sig("send_cmio_response", <<"as is", "base64", "base64?">>, "nothing"),
     logStepUarch |-> Sig("log_step_uarch", <<"as is">>, "as is"),
     logResetUarch |-> Sig("log_reset_uarch", <<"as is">>, "as is"),
     logSendCmioResponse |->
         Sig("log_send_cmio_response", <<"as is", "base64", "base64?", "as is">>, "text"),
     verifyStepUarch |-> Sig("verify_step_uarch", <<"base64", "as is">>, "fromBase64"),
     verifyResetUarch |-> Sig("verify_reset_uarch", <<"base64", "as is">>, "fromBase64")]

RpcTable == RpcServer @@ RpcLifecycle @@ RpcConfiguration @@ RpcHashes @@ RpcState
                @@ RpcRunning @@ RpcLogging

-----------------------------------------------------------------------------
RpcMade(m, args) ==
    LET sig == RpcTable[m]
        made(i) == LET p == Param(sig.in[i], ArgAt(args, i))
                   IN  IF sig.in[i] \in {"sharing", "sharing ?? none"} THEN ServedSharing(p)
                       ELSE Served(p)
    IN  [f |-> sig.f, args |-> [i \in DOMAIN sig.in |-> made(i)]]

\* The calls of the server that a method makes, as calls of the C API.
RpcCalls(m, args) ==
    CASE m = "sendCmioResponse" /\ DefaultsToRoot(args[1], args[3]) ->
            <<RpcMade("getRootHash", << >>),
              RpcMade("sendCmioResponse", <<args[1], args[2], RootHash>>)>>
      [] m = "logSendCmioResponse" ->
            <<RpcMade("logSendCmioResponse", <<args[1], args[2], args[4], args[3]>>)>>
      [] OTHER -> <<RpcMade(m, args)>>

RpcAnswer(m, answer) == Result(RpcTable[m].out, answer)

=============================================================================
