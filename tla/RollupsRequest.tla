--------------------------- MODULE RollupsRequest --------------------------
(***************************************************************************)
(* The part of RollupsMachineImpl (rollups.ts) that its local and remote   *)
(* subclasses share: the generator functions of advance and inspect.       *)
(*                                                                         *)
(* Each request is one generator.  A generator's body is lazy: nothing     *)
(* happens until its first next().  From a next() to the following yield,  *)
(* return or throw the body runs without interruption on the one           *)
(* JavaScript thread, so a generator in a state of OnStack excludes every  *)
(* other step of the program; between two of its events it is "suspended"  *)
(* and anything may happen to the machine it is working on.                *)
(*                                                                         *)
(* The operators below are the steps of the body that do not depend on how *)
(* a transaction is kept; the subclasses add startTransaction, commit- and *)
(* rollbackTransaction, shutdown and store.                                *)
(***************************************************************************)
EXTENDS EmulatorMachine

CONSTANTS
    Overlap,    \* may a caller use the object while a request is open?
    Abandon,    \* may a caller stop iterating before a request has ended?
    Faults      \* the machine calls that may throw

ASSUME CallersAssumption ==
    /\ Overlap \in BOOLEAN
    /\ Abandon \in BOOLEAN
    /\ Faults \subseteq {"store", "load", "remove", "send", "run",
                         "fork", "shutdown"}

VARIABLES
    pc,         \* where each generator is
    result,     \* what a generator has decided to tell its caller
    heard,      \* whose processing a caller was told about (history)
    ledger      \* the inputs reported accepted, in order (history)

requestVars == <<pc, result, heard, ledger>>

OnStack == {"send", "run", "commit", "rollback"}
Results == {"none", "accepted", "answered", "rejected", "fatal", "error"}

RequestTypeOK ==
    /\ pc \in [Requests -> OnStack \cup {"new", "suspended", "abandoned", "settled"}]
    /\ result \in [Requests -> Results]
    /\ heard \in [Requests -> SUBSET (Requests \cup {None})]
    /\ ledger \in Seq(Inputs)

RequestInit ==
    /\ pc = [r \in Requests |-> "new"]
    /\ result = [r \in Requests |-> "none"]
    /\ heard = [r \in Requests |-> {}]
    /\ ledger = << >>

ThreadFree == \A r \in Requests : pc[r] \notin OnStack

IsOpen(r) == pc[r] \in OnStack \cup {"suspended"}

NothingOpen == \A r \in Requests : ~IsOpen(r)

(* What callers may do: any call between two events of a generator if they *)
(* overlap their requests, and only between two requests if they do not.   *)
MayCall == IF Overlap THEN ThreadFree ELSE NothingOpen

Goto(r, label) == pc' = [pc EXCEPT ![r] = label]

---------------------------------------------------------------------------

(* A machine call threw: the error leaves the generator as it is, through  *)
(* no catch and no finally, and the transaction is left open.              *)
Throw(r) ==
    /\ Goto(r, "settled")
    /\ result' = [result EXCEPT ![r] = "error"]
    /\ UNCHANGED <<heard, ledger>>

(* The first next(): the transaction is started, the input comes next.     *)
Started(r) ==
    /\ Goto(r, "send")
    /\ UNCHANGED <<result, heard, ledger>>

Sent(r) ==
    /\ Goto(r, "run")
    /\ UNCHANGED <<result, heard, ledger>>

(* The events a generator passes on to its caller.                         *)
Reported(r) == IF r \in Inputs THEN {"output", "report", "progress"} ELSE {"report"}

(* The two switch statements of the body, given the machine m that run was *)
(* called on and the yield or break reason it ended with.                  *)
Event(r, m, break) ==
    /\ break \in AutomaticYields
    /\ IF break \in Reported(r)
       THEN /\ Goto(r, "suspended")
            /\ heard' = [heard EXCEPT ![r] = @ \cup {Serving(m)}]
       ELSE UNCHANGED <<pc, heard>>
    /\ UNCHANGED <<result, ledger>>

Verdict(r, break) ==
    IF break = "accepted"
    THEN IF r \in Inputs THEN "accepted" ELSE "answered"
    ELSE IF break = "rejected" THEN "rejected" ELSE "fatal"

(* Seeded fault: only a rejection is rolled back, as in a switch whose      *)
(* default branch falls through to the commit.                             *)
EndingKeepsFatal(r, m, break) ==
    /\ break \notin AutomaticYields
    /\ Goto(r, IF Verdict(r, break) \in {"accepted", "fatal"} THEN "commit" ELSE "rollback")
    /\ result' = [result EXCEPT ![r] = Verdict(r, break)]
    /\ heard' = [heard EXCEPT ![r] = @ \cup {Serving(m)}]
    /\ UNCHANGED ledger

(* Seeded fault: an inspect that was answered is committed.                *)
EndingKeepsAnswered(r, m, break) ==
    /\ break \notin AutomaticYields
    /\ Goto(r, IF Verdict(r, break) \in {"accepted", "answered"} THEN "commit" ELSE "rollback")
    /\ result' = [result EXCEPT ![r] = Verdict(r, break)]
    /\ heard' = [heard EXCEPT ![r] = @ \cup {Serving(m)}]
    /\ UNCHANGED ledger

Ending(r, m, break) ==
    /\ break \notin AutomaticYields
    /\ Goto(r, IF Verdict(r, break) = "accepted" THEN "commit" ELSE "rollback")
    /\ result' = [result EXCEPT ![r] = Verdict(r, break)]
    /\ heard' = [heard EXCEPT ![r] = @ \cup {Serving(m)}]
    /\ UNCHANGED ledger

(* The transaction is closed and the generator returns or throws.          *)
Settled(r) ==
    /\ Goto(r, "settled")
    /\ ledger' = IF result[r] = "accepted" THEN Append(ledger, r) ELSE ledger
    /\ UNCHANGED <<result, heard>>

---------------------------------------------------------------------------

(* The caller asks for the next event.                                     *)
Resume(r) ==
    /\ ThreadFree
    /\ pc[r] = "suspended"
    /\ Goto(r, "run")
    /\ UNCHANGED <<result, heard, ledger>>

(* The caller leaves its loop: the generator is returned, and never        *)
(* resumed.  The body has no finally, so nothing else happens.             *)
Leave(r) ==
    /\ Abandon
    /\ ThreadFree
    /\ pc[r] = "suspended"
    /\ Goto(r, "abandoned")
    /\ UNCHANGED <<result, heard, ledger>>

Outcome == [r \in Requests |-> IF pc[r] = "settled" THEN result[r] ELSE "none"]
=============================================================================
