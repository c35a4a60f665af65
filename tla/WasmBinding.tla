---------------------------- MODULE WasmBinding ----------------------------
(***************************************************************************)
(* The WebAssembly binding: the same methods over the exports of the       *)
(* Emscripten module.  The table gives for each method the export, how     *)
(* each argument gets there, and what is read at the pointer it wrote to.  *)
(***************************************************************************)
EXTENDS BindingValues

CONSTANTS WasmNone, WasmRoot    \* the default of sharing, HASH_TREE_LOG2_ROOT_SIZE

-----------------------------------------------------------------------------
\* int32 refuses what a wasm i32 would wrap.
int32(v) == IF Is("number", v) /\ v.number \in -IntTop .. IntTop - 1 THEN CInt(v.number) ELSE Refused

\* A BigInt that is passed as a wasm i64 is wrapped, a number is no BigInt.
WasmI64(v) == IF Is("bigint", v) THEN CInt(v.bigint % Word) ELSE Refused

\* Copies on the heap; null and undefined become a null pointer.
FrameString(v) == IF Absent(v) THEN Null ELSE v
FrameBytes(v)  == IF Absent(v) THEN Null ELSE v

WasmPass(type, v) ==
    CASE type = "i64"    -> WasmI64(v)
      [] type = "i32"    -> int32(v)
      [] type = "none?"  -> int32(IF v = Undefined THEN Num(WasmNone) ELSE v)
      [] type = "root?"  -> int32(IF v = Undefined THEN Num(WasmRoot) ELSE v)
      [] type = "string" -> FrameString(v)
      [] type = "bytes"  -> FrameBytes(v)
      [] type = "flag"   -> CInt(IF v.boolean THEN 1 ELSE 0)

\* What is read of an out parameter, by its size.
WasmRead(type, answer) ==
    CASE type = "nothing" -> Undefined
      [] type = "U8"      -> Bool(answer.c % 256 # 0)
      [] type = "U32"     -> Num(answer.reason % (2 * IntTop))
      [] type = "U64"     -> Big(answer.word)
      [] type \in {"StringAt", "Bytes", "Pointer"} -> answer

-----------------------------------------------------------------------------
WasmLifecycle ==
    [isEmpty |-> Sig("is_empty", << >>, "U8"),
     isJsonrpcMachine |-> Sig("is_jsonrpc_machine", << >>, "U8"),
     create |-> Sig("create", <<"string", "string", "string">>, "nothing"),
     load |-> Sig("load", <<"string", "string", "none?">>, "nothing"),
     cloneEmpty |-> Sig("clone_empty", << >>, "Pointer"),
     store |-> Sig("store", <<"string", "none?">>, "nothing"),
     cloneStored |-> Sig("clone_stored", <<"string", "string">>, "nothing"),
     renameStored |-> Sig("rename_stored", <<"string", "string">>, "nothing"),
     removeStored |-> Sig("remove_stored", <<"string">>, "nothing"),
     syncStored |-> Sig("sync_stored", <<"string">>, "nothing"),
     destroy |-> Sig("destroy", << >>, "nothing")]

WasmConfiguration ==
    [getDefaultConfig |-> Sig("get_default_config", << >>, "StringAt"),
     getRegAddress |-> Sig("get_reg_address", <<"i32">>, "U64"),
     setRuntimeConfig |-> Sig("set_runtime_config", <<"string">>, "nothing"),
     getRuntimeConfig |-> Sig("get_runtime_config", << >>, "StringAt"),
     replaceMemoryRange |-> Sig("replace_memory_range", <<"string">>, "nothing"),
     getInitialConfig |-> Sig("get_initial_config", << >>, "StringAt"),
     getAddressRanges |-> Sig("get_address_ranges", << >>, "StringAt"),
     getAddressName |-> Sig("get_address_name", <<"i64">>, "StringAt")]

\* Seeded fault: a proof is rooted at the range it is asked for.
WasmHashesRootless ==
    [getUarchPristineHash |-> Sig("get_uarch_pristine_hash", << >>, "Bytes"),
     getRootHash |-> Sig("get_root_hash", << >>, "Bytes"),
     readRevertRootHash |-> Sig("read_revert_root_hash", << >>, "Bytes"),
     writeRevertRootHash |-> Sig("write_revert_root_hash", <<"bytes">>, "nothing"),
     getNodeHash |-> Sig("get_node_hash", <<"i64", "i32">>, "Bytes"),
     getProof |-> Sig("get_proof", <<"i64", "i32", "none?">>, "StringAt"),
     verifyHashTree |-> Sig("verify_hash_tree", << >>, "U8"),
     getHashTreeStats |-> Sig("get_hash_tree_stats", <<"flag">>, "StringAt")]

WasmHashes ==
    [getUarchPristineHash |-> Sig("get_uarch_pristine_hash", << >>, "Bytes"),
     getRootHash |-> Sig("get_root_hash", << >>, "Bytes"),
     readRevertRootHash |-> Sig("read_revert_root_hash", << >>, "Bytes"),
     writeRevertRootHash |-> Sig("write_revert_root_hash", <<"bytes">>, "nothing"),
     getNodeHash |-> Sig("get_node_hash", <<"i64", "i32">>, "Bytes"),
     getProof |-> Sig("get_proof", <<"i64", "i32", "root?">>, "StringAt"),
     verifyHashTree |-> Sig("verify_hash_tree", << >>, "U8"),
     getHashTreeStats |-> Sig("get_hash_tree_stats", <<"flag">>, "StringAt")]

WasmState ==
    [readWord |-> Sig("read_word", <<"i64">>, "U64"),
     writeWord |-> Sig("write_word", <<"i64", "i64">>, "nothing"),
     readReg |-> Sig("read_reg", <<"i32">>, "U64"),
     writeReg |-> Sig("write_reg", <<"i32", "i64">>, "nothing"),
     readMemory |-> Sig("read_memory", <<"i64", "i64">>, "Bytes"),
     writeMemory |-> Sig("write_memory", <<"i64", "bytes">>, "nothing"),
     readVirtualMemory |-> Sig("read_virtual_memory", <<"i64", "i64">>, "Bytes"),
     writeVirtualMemory |-> Sig("write_virtual_memory", <<"i64", "bytes">>, "nothing"),
     translateVirtualAddress |-> Sig("translate_virtual_address", <<"i64">>, "U64")]

WasmRunning ==
    [writeConsoleInput |-> Sig("write_console_input", <<"bytes">>, "U64"),
     run |-> Sig("run", <<"i64">>, "U32"),
     collectMcycleRootHashes |->
         Sig("collect_mcycle_root_hashes", <<"i64", "i64", "i64", "i32", "string">>, "StringAt"),
     collectMcycleBundle |-> Sig("collect_mcycle_bundle", <<"i64", "i64", "i32">>, "StringAt"),
     runUarch |-> Sig("run_uarch", <<"i64">>, "U32"),
     collectUarchCycleRootHashes |->
         Sig("collect_uarch_cycle_root_hashes", <<"i64", "i32", "string">>, "StringAt"),
     collectUarchCycleBundle |->
         Sig("collect_uarch_cycle_bundle", <<"i64", "i32", "string">>, "StringAt"),
     resetUarch |-> Sig("reset_uarch", << >>, "nothing")]

WasmLogging ==
    [sendCmioResponse |-> Sig("send_cmio_response", <<"i32", "bytes", "bytes">>, "nothing"),
     logStep |-> Sig("log_step", <<"i64", "string">>, "U32"),
     logStepUarch |-> Sig("log_step_uarch", <<"i32">>, "StringAt"),
     logResetUarch |-> Sig("log_reset_uarch", <<"i32">>, "StringAt"),
     logSendCmioResponse |->
         Sig("log_send_cmio_response", <<"i32", "bytes", "bytes", "i32">>, "StringAt")]

\* The methods of a machine are those of the module with its pointer.
WasmVerification ==
    [verifyStepUarch |-> Sig("verify_step_uarch", <<"bytes", "string">>, "Bytes"),
     verifyResetUarch |-> Sig("verify_reset_uarch", <<"bytes", "string">>, "Bytes"),
     verifySendCmioResponse |->
         Sig("verify_send_cmio_response", <<"i32", "bytes", "bytes", "string", "bytes">>, "Bytes")]

WasmModule ==
    [machineNew |-> Sig("new", << >>, "Pointer"),
     machineCreateNew |-> Sig("create_new", <<"string", "string", "string">>, "Pointer"),
     machineLoadNew |-> Sig("load_new", <<"string", "string", "none?">>, "Pointer"),
     verifyStep |-> Sig("verify_step", <<"bytes", "string", "i64">>, "Bytes")]

\* The methods for servers throw, and are not in the table.
WasmTable == WasmLifecycle @@ WasmConfiguration @@ WasmHashes @@ WasmState @@ WasmRunning
                 @@ WasmLogging @@ WasmVerification @@ WasmModule

=============================================================================
