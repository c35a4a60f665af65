---------------------------- MODULE BindingValues ----------------------------
(***************************************************************************)
(* What crosses between JavaScript, the C API of the emulator and JSON.    *)
(*                                                                         *)
(* A value is a record whose one field says what it is: a bigint, a        *)
(* number, a string, a text of JSON, ... Integers keep the limits that     *)
(* matter: those of int32 and uint64, the largest integer a double holds   *)
(* exactly, and the least one that encoding.ts takes out of JSON as a      *)
(* string.  The limits are scaled down, their order is kept.               *)
(***************************************************************************)
EXTENDS Integers, Sequences, TLC

CONSTANTS
    IntTop,    \* 2^31
    Word,      \* 2^64
    Exact,     \* 2^53, up to which a double holds each integer
    Quote,     \* 10^15, the least integer of sixteen digits
    HashSize   \* the bytes of a hash

ASSUME LimitsAssumption == /\ {IntTop, Word, Exact, Quote, HashSize} \subseteq Nat
                           /\ 0 < IntTop /\ 2 * IntTop < Quote
                           /\ Quote <= Exact /\ Exact < Word /\ 0 < HashSize

-----------------------------------------------------------------------------
(* JavaScript.                                                             *)

Undefined    == [undefined |-> TRUE]
Null         == [null |-> TRUE]
Big(n)       == [bigint |-> n]
Num(n)       == [number |-> n]
Bool(b)      == [boolean |-> b]
Txt(s)       == [string |-> s]
Bytes(s, n)  == [bytes |-> s, length |-> n]
Obj(o)       == [object |-> o]             \* a configuration, a bundle, a log
Hashes(h)    == [hashes |-> h]
Flags(a, l)  == [annotations |-> a, large |-> l]    \* an AccessLogType
MachineObject == [machine |-> "new"]
Json(v)      == [json |-> v]               \* a string, the JSON of a value

Is(type, v)  == type \in DOMAIN v
IsString(v)  == Is("string", v) \/ Is("json", v)
Absent(v)    == v \in {Undefined, Null}

\* The wrapper's conversion of the two flags of an access log type.
accessLogType(v) == Num((IF v.annotations THEN 1 ELSE 0) + (IF v.large THEN 2 ELSE 0))

(* The C API.                                                              *)

CInt(n)      == [c |-> n]
CReason(r)   == [reason |-> r]
CWord(n)     == [word |-> n]
COk          == [ok |-> TRUE]
\* What collect_* answer in JSON: hashes, where the collection stopped, why.
Collected(h, phase, r) == [hashes |-> h, phase |-> phase, reason |-> r]

\* A binding throws before the C function is called.
Refused      == [refused |-> TRUE]

\* How a function of the C API is called: its name, the types of what it is
\* given, and what it answers.
Sig(f, in, out) == [f |-> f, in |-> in, out |-> out]

ArgAt(args, i) == IF i <= Len(args) THEN args[i] ELSE Undefined

-----------------------------------------------------------------------------
(* JSON.                                                                   *)

\* The double nearest to an integer.
Rounded(n)   == IF n > Exact THEN n - (n % 2) ELSE n

\* JSON.parse of a number.
JsonParse(n) == Num(Rounded(n))

\* Seeded fault: integers that are already inexact are taken for exact.
parseJsonLong(n) == IF n > Exact + 1 THEN [digits |-> n] ELSE JsonParse(n)

\* encoding.ts quotes integers of sixteen digits and more before JSON.parse.
parseJson(n) == IF n >= Quote THEN [digits |-> n] ELSE JsonParse(n)

toBigInt(v)  == Big(IF Is("digits", v) THEN v.digits ELSE v.number)

\* The emulator's names of break reasons, in the order of its enumeration.
BreakNames == <<"failed", "halted", "yielded_manually", "yielded_automatically",
                "yielded_softly", "reached_target_mcycle", "console_output",
                "console_input", "mcycle_overflow">>
UarchBreakNames == <<"reached_target_uarch_cycle", "uarch_halted",
                     "uarch_cycle_overflow">>

toBreakReason(name) == Num([failed |-> 0, halted |-> 1, yielded_manually |-> 2,
    yielded_automatically |-> 3, yielded_softly |-> 4, reached_target_mcycle |-> 5,
    console_output |-> 6, console_input |-> 7, mcycle_overflow |-> 8][name])

toMcycleRootHashes(phase, v) == Collected(v.hashes, toBigInt(phase), toBreakReason(v.reason))

toUarchCycleRootHashes(v) == Collected(v.hashes, Undefined, toBreakReason(v.reason))

=============================================================================
