---------------------------- MODULE LocalRollups ---------------------------
(***************************************************************************)
(* LocalRollupsMachineImpl (rollups.ts): the rollups machine over one      *)
(* local machine object.  A transaction is a copy of the machine stored in *)
(* a directory before the request is sent; commit removes the directory,   *)
(* rollback loads it back into the same object.                            *)
(*                                                                         *)
(* Directory names are unique (uniqueName), so the copy taken for request  *)
(* r is named r.                                                           *)
(***************************************************************************)
EXTENDS RollupsRequest, FiniteSets

CONSTANT NoRollbackChoices  \* the values of the noRollback option to explore

ASSUME NoRollbackAssumption == NoRollbackChoices \subseteq BOOLEAN

VARIABLES
    machine,    \* the machine behind the object the caller gave
    snapshot,   \* the snapshot field: the name of a directory, or None
    disk,       \* what each snapshot directory holds, Gone if there is none
    image,      \* what the caller last stored, Gone before it did
    noRollback  \* the option the object was constructed with

localVars == <<machine, snapshot, disk, image, noRollback>>
vars == <<requestVars, localVars>>

TypeOK ==
    /\ RequestTypeOK
    /\ machine \in Machine
    /\ snapshot \in Requests \cup {None}
    /\ disk \in [Requests -> Machine]
    /\ image \in Machine
    /\ noRollback \in BOOLEAN

Init ==
    /\ RequestInit
    /\ machine = Fresh
    /\ snapshot = None
    /\ disk = [r \in Requests |-> Gone]
    /\ image = Gone
    /\ noRollback \in NoRollbackChoices

---------------------------------------------------------------------------

(* discardSnapshot: the field is cleared after the directory is removed,   *)
(* so a removeStored that throws leaves both.                              *)
Discarded ==
    IF snapshot = None THEN disk ELSE [disk EXCEPT ![snapshot] = Gone]

DiscardSnapshot ==
    /\ snapshot' = None
    /\ disk' = Discarded

DiscardThrows ==
    /\ snapshot # None
    /\ "remove" \in Faults \/ ~Usable(disk[snapshot])
    /\ UNCHANGED <<snapshot, disk>>

---------------------------------------------------------------------------
(* startTransaction, at the first next() of the generator.                 *)

BeginDirect(r) ==
    /\ pc[r] = "new" /\ MayCall
    /\ noRollback
    /\ Started(r)
    /\ UNCHANGED localVars

(* Seeded fault: the copy of an earlier request is forgotten on disk.      *)
BeginForgetsCopy(r) ==
    /\ pc[r] = "new" /\ MayCall
    /\ ~noRollback
    /\ Usable(machine)
    /\ snapshot' = r
    /\ disk' = [disk EXCEPT ![r] = machine]
    /\ Started(r)
    /\ UNCHANGED <<machine, image, noRollback>>

Begin(r) ==
    /\ pc[r] = "new" /\ MayCall
    /\ ~noRollback
    /\ Usable(machine)
    /\ snapshot' = r
    /\ disk' = [Discarded EXCEPT ![r] = machine]
    /\ Started(r)
    /\ UNCHANGED <<machine, image, noRollback>>

BeginThrows(r) ==
    /\ pc[r] = "new" /\ MayCall
    /\ ~noRollback
    /\ \/ DiscardThrows
       \/ /\ "store" \in Faults \/ ~Usable(machine)
          /\ snapshot' = r
          /\ disk' = Discarded
    /\ Throw(r)
    /\ UNCHANGED <<machine, image, noRollback>>

---------------------------------------------------------------------------
(* The machine calls of the loop.                                          *)

Send(r) ==
    /\ pc[r] = "send"
    /\ Usable(machine)
    /\ machine' = AfterResponse(machine, r)
    /\ Sent(r)
    /\ UNCHANGED <<snapshot, disk, image, noRollback>>

Run(r) ==
    /\ pc[r] = "run"
    /\ Usable(machine)
    /\ \E break \in CanBreak(machine) :
        /\ machine' = AfterRun(machine, break)
        /\ Event(r, machine, break) \/ Ending(r, machine, break)
    /\ UNCHANGED <<snapshot, disk, image, noRollback>>

CallThrows(r) ==
    /\ pc[r] \in {"send", "run"}
    /\ pc[r] \in Faults \/ ~Usable(machine)
    /\ Throw(r)
    /\ UNCHANGED localVars

---------------------------------------------------------------------------
(* commitTransaction.                                                      *)

(* Seeded fault: the copy outlives the commit.                             *)
CommitKeepsCopy(r) ==
    /\ pc[r] = "commit"
    /\ Settled(r)
    /\ UNCHANGED <<machine, snapshot, disk, image, noRollback>>

Commit(r) ==
    /\ pc[r] = "commit"
    /\ DiscardSnapshot
    /\ Settled(r)
    /\ UNCHANGED <<machine, image, noRollback>>

CommitThrows(r) ==
    /\ pc[r] = "commit"
    /\ DiscardThrows
    /\ Throw(r)
    /\ UNCHANGED <<machine, image, noRollback>>

---------------------------------------------------------------------------
(* rollbackTransaction: the field is cleared first, then the object is     *)
(* emptied, loaded and the directory removed.                              *)

RollbackNothing(r) ==
    /\ pc[r] = "rollback"
    /\ snapshot = None
    /\ Settled(r)
    /\ UNCHANGED localVars

(* Seeded fault: the copy is removed but never loaded.                     *)
RollbackForgetsLoad(r) ==
    /\ pc[r] = "rollback"
    /\ snapshot # None
    /\ Usable(disk[snapshot])
    /\ DiscardSnapshot
    /\ Settled(r)
    /\ UNCHANGED <<machine, image, noRollback>>

(* Seeded fault: the last image the caller stored is loaded instead.       *)
RollbackLoadsImage(r) ==
    /\ pc[r] = "rollback"
    /\ snapshot # None
    /\ Usable(disk[snapshot])
    /\ machine' = IF Usable(image) THEN image ELSE disk[snapshot]
    /\ DiscardSnapshot
    /\ Settled(r)
    /\ UNCHANGED <<image, noRollback>>

Rollback(r) ==
    /\ pc[r] = "rollback"
    /\ snapshot # None
    /\ Usable(disk[snapshot])
    /\ machine' = disk[snapshot]
    /\ DiscardSnapshot
    /\ Settled(r)
    /\ UNCHANGED <<image, noRollback>>

RollbackThrows(r) ==
    /\ pc[r] = "rollback"
    /\ snapshot # None
    /\ \/ /\ "load" \in Faults \/ ~Usable(disk[snapshot])
          /\ machine' = Gone
       \/ /\ "remove" \in Faults
          /\ Usable(disk[snapshot])
          /\ machine' = disk[snapshot]
    /\ snapshot' = None
    /\ Throw(r)
    /\ UNCHANGED <<disk, image, noRollback>>

---------------------------------------------------------------------------
(* shutdown and store, called by the owner of the object.                  *)

Shutdown ==
    /\ MayCall
    /\ DiscardSnapshot
    /\ UNCHANGED <<requestVars, machine, image, noRollback>>

Store ==
    /\ MayCall
    /\ Usable(machine)
    /\ image' = machine
    /\ UNCHANGED <<requestVars, machine, snapshot, disk, noRollback>>

Caller(r) ==
    /\ Resume(r) \/ Leave(r)
    /\ UNCHANGED localVars

Next ==
    \/ \E r \in Requests :
        \/ BeginDirect(r) \/ Begin(r) \/ BeginThrows(r)
        \/ Send(r) \/ Run(r) \/ CallThrows(r)
        \/ Commit(r) \/ CommitThrows(r)
        \/ RollbackNothing(r) \/ Rollback(r) \/ RollbackThrows(r)
        \/ Caller(r)
    \/ Shutdown
    \/ Store

Spec == Init /\ [][Next]_vars

---------------------------------------------------------------------------

(* The machine a caller of an all-or-nothing object expects to find.       *)
Expected == [handled |-> ledger, yield |-> "accepted"]

(***************************************************************************)
(* All or nothing: whenever no request is open the machine is the fresh    *)
(* one advanced by exactly the inputs reported accepted, waiting for the   *)
(* next (advance and inspect with the transactions of this class).         *)
(***************************************************************************)
AllOrNothing == ~noRollback /\ NothingOpen => machine = Expected

(***************************************************************************)
(* Every event and verdict a caller gets for a request comes from the      *)
(* guest serving that very request, never from an earlier one.             *)
(***************************************************************************)
OwnVerdict == ~noRollback => \A r \in Requests : heard[r] \subseteq {r}

(***************************************************************************)
(* An input reported accepted has been delivered to the guest.             *)
(***************************************************************************)
AcceptedWasServed ==
    \A r \in Requests : Outcome[r] = "accepted" => r \in heard[r]

(***************************************************************************)
(* What the caller stores is a machine that is waiting for a request and   *)
(* holds only inputs that were accepted: it can be resumed from.           *)
(***************************************************************************)
StoredImageIsResumable ==
    ~noRollback /\ Usable(image) =>
        /\ image.yield = "accepted"
        /\ \E n \in 0..Len(ledger) : image.handled = SubSeq(ledger, 1, n)

(***************************************************************************)
(* Directories do not pile up: besides the one the object would roll back  *)
(* to, each copy left on disk was left by a request that failed with an    *)
(* error, one copy at most for each; whatever callers do.                  *)
(***************************************************************************)
Leftovers == {r \in Requests : Usable(disk[r]) /\ snapshot # r}

LeftoversAreFailures ==
    Cardinality(Leftovers) <= Cardinality({r \in Requests : Outcome[r] = "error"})

(***************************************************************************)
(* An accepted input that took effect is never undone, not even by the     *)
(* rollback of a request that was started before or overlaps with it; only *)
(* a load that fails loses it, together with the whole machine.            *)
(***************************************************************************)
TookEffect(i) == Outcome[i] = "accepted" /\ Holds(machine, i)

AcceptedIsDurable ==
    [][\A i \in Inputs : TookEffect(i) /\ Usable(machine') => TookEffect(i)']_vars

---------------------------------------------------------------------------

(* The application's state: what a rollback would restore while a copy is  *)
(* kept, the machine itself otherwise.                                     *)
HasCopy == snapshot # None /\ Usable(disk[snapshot])

CommittedState == IF HasCopy THEN disk[snapshot].handled ELSE machine.handled

Ledger == INSTANCE RollupsLedger WITH state <- CommittedState, outcome <- Outcome

(* The local rollups machine implements the ledger.                        *)
ImplementsLedger == Ledger!Spec
=============================================================================
