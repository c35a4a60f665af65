---------------------------- MODULE NapiBinding ----------------------------
(***************************************************************************)
(* The N-API addon: each method checks its arguments, calls one function   *)
(* of the C API, and converts what that answers.  The table gives for each *)
(* method the function, what get_* is applied to each argument, and how    *)
(* the answer is converted.                                                *)
(***************************************************************************)
EXTENDS BindingValues

CONSTANTS None, All, Root    \* CM_SHARING_NONE, CM_SHARING_ALL, log2 of the root

-----------------------------------------------------------------------------
(* Arguments.                                                              *)

get_u64(v) == CASE Is("bigint", v) /\ v.bigint \in 0 .. Word - 1 -> CInt(v.bigint)
                [] Is("number", v) /\ v.number \in 0 .. Exact - 1 -> CInt(v.number)
                [] OTHER -> Refused

get_i64(v) == CASE Is("bigint", v) /\ v.bigint \in -(Word \div 2) .. Word \div 2 - 1 -> CInt(v.bigint)
                [] Is("number", v) -> CInt(v.number)
                [] OTHER -> Refused

get_i32(v) == IF Is("number", v) /\ v.number \in -IntTop .. IntTop - 1 THEN CInt(v.number) ELSE Refused

get_bytes(v) == IF Is("bytes", v) THEN v ELSE Refused

get_cmio_data(v) == IF Is("bytes", v) /\ v.length < 2 * IntTop THEN v ELSE Refused

get_hash(v) == IF Is("bytes", v) /\ v.length = HashSize THEN v ELSE Refused

get_optional_hash(v) == IF Absent(v) THEN Null ELSE get_hash(v)

get_string(v) == IF IsString(v) THEN v ELSE Refused

get_optional_string(v) == IF Absent(v) THEN Null ELSE get_string(v)

\* An argument with a default is read only if it is given.
get_i32_or(default, v) == IF v = Undefined THEN CInt(default) ELSE get_i32(v)

NapiGet(type, v) ==
    CASE type = "u64"     -> get_u64(v)
      [] type = "i64"     -> get_i64(v)
      [] type = "i32"     -> get_i32(v)
      [] type = "bytes"   -> get_bytes(v)
      [] type = "cmio"    -> get_cmio_data(v)
      [] type = "hash"    -> get_hash(v)
      [] type = "hash?"   -> get_optional_hash(v)
      [] type = "string"  -> get_string(v)
      [] type = "string?" -> get_optional_string(v)
      [] type = "none?"   -> get_i32_or(None, v)
      [] type = "all?"    -> get_i32_or(All, v)
      [] type = "root?"   -> get_i32_or(Root, v)
      [] type = "bool"    -> CInt(IF v = Bool(TRUE) THEN 1 ELSE 0)

\* CHECK_CM and what follows it: the answer as a value of JavaScript.
NapiReturn(type, answer) ==
    CASE type = "undefined" -> Undefined
      [] type = "boolean"   -> Bool(answer.c = 1)
      [] type = "bigint"    -> Big(answer.word)
      [] type = "number"    -> Num(answer.reason)
      [] type \in {"string", "buffer", "machine"} -> answer

-----------------------------------------------------------------------------
(* Methods of a machine.                                                   *)

NapiLifecycle ==
    [isEmpty |-> Sig("is_empty", << >>, "boolean"),
     isJsonrpcMachine |-> Sig("is_jsonrpc_machine", << >>, "boolean"),
     create |-> Sig("create", <<"string", "string?", "string?">>, "undefined"),
     load |-> Sig("load", <<"string", "string?", "none?">>, "undefined"),
     cloneEmpty |-> Sig("clone_empty", << >>, "machine"),
     store |-> Sig("store", <<"string", "all?">>, "undefined"),
     destroy |-> Sig("destroy", << >>, "undefined")]

NapiConfiguration ==
    [getDefaultConfig |-> Sig("get_default_config", << >>, "string"),
     getRegAddress |-> Sig("get_reg_address", <<"i32">>, "bigint"),
     getUarchPristineHash |-> Sig("get_uarch_pristine_hash", << >>, "buffer"),
     setRuntimeConfig |-> Sig("set_runtime_config", <<"string">>, "undefined"),
     getRuntimeConfig |-> Sig("get_runtime_config", << >>, "string"),
     replaceMemoryRange |-> Sig("replace_memory_range", <<"string">>, "undefined"),
     getInitialConfig |-> Sig("get_initial_config", << >>, "string"),
     getAddressRanges |-> Sig("get_address_ranges", << >>, "string")]

NapiHashes ==
    [getRootHash |-> Sig("get_root_hash", << >>, "buffer"),
     readRevertRootHash |-> Sig("read_revert_root_hash", << >>, "buffer"),
     writeRevertRootHash |-> Sig("write_revert_root_hash", <<"hash">>, "undefined"),
     getAddressName |-> Sig("get_address_name", <<"u64">>, "string"),
     getProof |-> Sig("get_proof", <<"u64", "i32", "root?">>, "string")]

NapiState ==
    [readWord |-> Sig("read_word", <<"u64">>, "bigint"),
     readReg |-> Sig("read_reg", <<"i32">>, "bigint"),
     writeReg |-> Sig("write_reg", <<"i32", "u64">>, "undefined"),
     readMemory |-> Sig("read_memory", <<"u64", "u64">>, "buffer"),
     writeMemory |-> Sig("write_memory", <<"u64", "bytes">>, "undefined"),
     readVirtualMemory |-> Sig("read_virtual_memory", <<"u64", "u64">>, "buffer"),
     writeVirtualMemory |-> Sig("write_virtual_memory", <<"u64", "bytes">>, "undefined"),
     translateVirtualAddress |-> Sig("translate_virtual_address", <<"u64">>, "bigint")]

NapiRunning ==
    [writeConsoleInput |-> Sig("write_console_input", <<"bytes">>, "bigint"),
     run |-> Sig("run", <<"u64">>, "number"),
     runUarch |-> Sig("run_uarch", <<"u64">>, "number"),
     collectMcycleRootHashes |->
         Sig("collect_mcycle_root_hashes", <<"u64", "u64", "u64", "i32", "string?">>, "string"),
     collectMcycleBundle |-> Sig("collect_mcycle_bundle", <<"u64", "u64", "i32">>, "string"),
     collectUarchCycleRootHashes |->
         Sig("collect_uarch_cycle_root_hashes", <<"u64", "i32", "string?">>, "string"),
     collectUarchCycleBundle |->
         Sig("collect_uarch_cycle_bundle", <<"u64", "i32", "string?">>, "string"),
     resetUarch |-> Sig("reset_uarch", << >>, "undefined")]

NapiLogging ==
    [sendCmioResponse |-> Sig("send_cmio_response", <<"i32", "cmio", "hash?">>, "undefined"),
     logStep |-> Sig("log_step", <<"u64", "string">>, "number"),
     logStepUarch |-> Sig("log_step_uarch", <<"i32">>, "string"),
     logResetUarch |-> Sig("log_reset_uarch", <<"i32">>, "string"),
     logSendCmioResponse |->
         Sig("log_send_cmio_response", <<"i32", "cmio", "hash", "i32">>, "string"),
     verifyStepUarch |-> Sig("verify_step_uarch", <<"hash", "string">>, "buffer"),
     verifyResetUarch |-> Sig("verify_reset_uarch", <<"hash", "string">>, "buffer"),
     verifySendCmioResponse |->
         Sig("verify_send_cmio_response", <<"i32", "cmio", "hash", "string", "hash">>, "buffer")]

NapiStored ==
    [verifyHashTree |-> Sig("verify_hash_tree", << >>, "boolean"),
     getHashTreeStats |-> Sig("get_hash_tree_stats", <<"bool">>, "string"),
     writeWord |-> Sig("write_word", <<"u64", "u64">>, "undefined"),
     getNodeHash |-> Sig("get_node_hash", <<"u64", "i32">>, "buffer"),
     cloneStored |-> Sig("clone_stored", <<"string", "string">>, "undefined"),
     renameStored |-> Sig("rename_stored", <<"string", "string">>, "undefined"),
     removeStored |-> Sig("remove_stored", <<"string">>, "undefined"),
     syncStored |-> Sig("sync_stored", <<"string">>, "undefined")]

\* Of a machine on a server; the WebAssembly build has none of these.
NapiServer ==
    [fork |-> Sig("jsonrpc_fork_server", << >>, "machine"),
     shutdown |-> Sig("jsonrpc_shutdown_server", << >>, "undefined"),
     rebind |-> Sig("jsonrpc_rebind_server", <<"string">>, "string"),
     getServerVersion |-> Sig("jsonrpc_get_server_version", << >>, "string"),
     emancipate |-> Sig("jsonrpc_emancipate_server", << >>, "undefined")]

\* The functions of the module, that are given no machine.
NapiModule ==
    [machineNew |-> Sig("new", << >>, "machine"),
     machineCreateNew |-> Sig("create_new", <<"string", "string?", "string?">>, "machine"),
     machineLoadNew |-> Sig("load_new", <<"string", "string?", "none?">>, "machine"),
     verifyStep |-> Sig("verify_step", <<"hash", "string", "u64">>, "buffer")]

NapiTable == NapiLifecycle @@ NapiConfiguration @@ NapiHashes @@ NapiState @@ NapiRunning
                 @@ NapiLogging @@ NapiStored @@ NapiServer @@ NapiModule

=============================================================================
