--------------------------- MODULE RemoteRollups ---------------------------
(***************************************************************************)
(* RemoteRollupsMachineImpl (rollups.ts): the rollups machine over a       *)
(* machine that lives in a server process.  A transaction forks the server *)
(* and runs the request on the fork; commit shuts the original down and    *)
(* puts the fork in its place, rollback shuts the fork down.               *)
(*                                                                         *)
(* A server is named after the request it was forked for; Root is the one  *)
(* the object was constructed with.  Gone is a server that was never       *)
(* started or was shut down.                                               *)
(***************************************************************************)
EXTENDS RollupsRequest, FiniteSets

CONSTANT NoRollbackChoices  \* the values of the noRollback option to explore

ASSUME NoRollbackAssumption == NoRollbackChoices \subseteq BOOLEAN

Root == "root"
ASSUME RootIsNoRequest == Root \notin Requests

Servers == Requests \cup {Root}

VARIABLES
    servers,    \* the machine in each server process
    machine,    \* the machine field: the server requests are forked from
    target,     \* the server each request's generator works on
    image,      \* what the caller last stored, Gone before it did
    noRollback  \* the option the object was constructed with

remoteVars == <<servers, machine, target, image, noRollback>>
vars == <<requestVars, remoteVars>>

TypeOK ==
    /\ RequestTypeOK
    /\ servers \in [Servers -> Machine]
    /\ machine \in Servers
    /\ target \in [Requests -> Servers]
    /\ image \in Machine
    /\ noRollback \in BOOLEAN

Init ==
    /\ RequestInit
    /\ servers = [s \in Servers |-> IF s = Root THEN Fresh ELSE Gone]
    /\ machine = Root
    /\ target = [r \in Requests |-> Root]
    /\ image = Gone
    /\ noRollback \in NoRollbackChoices

Alive(s) == Usable(servers[s])

(* A call to server s throws if the server is not there, or for a reason   *)
(* of its own: before the server did anything, or after it did, when it is *)
(* the answer that is lost.                                                *)
MayThrow(call, s) == call \in Faults \/ ~Alive(s)

---------------------------------------------------------------------------
(* startTransaction, at the first next() of the generator.                 *)

BeginDirect(r) ==
    /\ pc[r] = "new" /\ MayCall
    /\ noRollback
    /\ target' = [target EXCEPT ![r] = machine]
    /\ Started(r)
    /\ UNCHANGED <<servers, machine, image, noRollback>>

(* Seeded fault: the request runs on the object's own server.              *)
BeginOnBase(r) ==
    /\ pc[r] = "new" /\ MayCall
    /\ ~noRollback
    /\ Alive(machine)
    /\ target' = [target EXCEPT ![r] = machine]
    /\ Started(r)
    /\ UNCHANGED <<servers, machine, image, noRollback>>

Begin(r) ==
    /\ pc[r] = "new" /\ MayCall
    /\ ~noRollback
    /\ Alive(machine)
    /\ servers' = [servers EXCEPT ![r] = servers[machine]]
    /\ target' = [target EXCEPT ![r] = r]
    /\ Started(r)
    /\ UNCHANGED <<machine, image, noRollback>>

BeginThrows(r) ==
    /\ pc[r] = "new" /\ MayCall
    /\ ~noRollback
    /\ MayThrow("fork", machine)
    /\ servers' \in {servers, [servers EXCEPT ![r] = servers[machine]]}
    /\ Throw(r)
    /\ UNCHANGED <<machine, target, image, noRollback>>

---------------------------------------------------------------------------
(* The machine calls of the loop, on the machine startTransaction returned. *)

Send(r) ==
    /\ pc[r] = "send"
    /\ Alive(target[r])
    /\ servers' = [servers EXCEPT ![target[r]] = AfterResponse(@, r)]
    /\ Sent(r)
    /\ UNCHANGED <<machine, target, image, noRollback>>

Run(r) ==
    /\ pc[r] = "run"
    /\ Alive(target[r])
    /\ LET m == servers[target[r]] IN
        \E break \in CanBreak(m) :
            /\ servers' = [servers EXCEPT ![target[r]] = AfterRun(m, break)]
            /\ Event(r, m, break) \/ Ending(r, m, break)
    /\ UNCHANGED <<machine, target, image, noRollback>>

CallThrows(r) ==
    /\ pc[r] \in {"send", "run"}
    /\ MayThrow(pc[r], target[r])
    /\ Throw(r)
    /\ UNCHANGED remoteVars

---------------------------------------------------------------------------
(* commitTransaction and rollbackTransaction.                              *)

(* Seeded fault: the fork is shut down, as in a rollback.                  *)
CommitShutsFork(r) ==
    /\ pc[r] = "commit"
    /\ ~noRollback
    /\ Alive(machine)
    /\ servers' = [servers EXCEPT ![target[r]] = Gone]
    /\ Settled(r)
    /\ UNCHANGED <<machine, target, image, noRollback>>

(* Seeded fault: the replaced server is left running.                      *)
CommitLeaksBase(r) ==
    /\ pc[r] = "commit"
    /\ ~noRollback
    /\ Alive(machine)
    /\ machine' = target[r]
    /\ Settled(r)
    /\ UNCHANGED <<servers, target, image, noRollback>>

Commit(r) ==
    /\ pc[r] = "commit"
    /\ ~noRollback
    /\ Alive(machine)
    /\ servers' = [servers EXCEPT ![machine] = Gone]
    /\ machine' = target[r]
    /\ Settled(r)
    /\ UNCHANGED <<target, image, noRollback>>

Rollback(r) ==
    /\ pc[r] = "rollback"
    /\ ~noRollback
    /\ Alive(target[r])
    /\ servers' = [servers EXCEPT ![target[r]] = Gone]
    /\ Settled(r)
    /\ UNCHANGED <<machine, target, image, noRollback>>

CloseDirect(r) ==
    /\ pc[r] \in {"commit", "rollback"}
    /\ noRollback
    /\ Settled(r)
    /\ UNCHANGED remoteVars

(* The server that commit or rollback shuts down.                          *)
Victim(r) == IF pc[r] = "commit" THEN machine ELSE target[r]

CloseThrows(r) ==
    /\ pc[r] \in {"commit", "rollback"}
    /\ ~noRollback
    /\ MayThrow("shutdown", Victim(r))
    /\ servers' \in {servers, [servers EXCEPT ![Victim(r)] = Gone]}
    /\ Throw(r)
    /\ UNCHANGED <<machine, target, image, noRollback>>

---------------------------------------------------------------------------
(* shutdown and store, called by the owner of the object.                  *)

Shutdown ==
    /\ MayCall
    /\ Alive(machine)
    /\ servers' = [servers EXCEPT ![machine] = Gone]
    /\ UNCHANGED <<requestVars, machine, target, image, noRollback>>

Store ==
    /\ MayCall
    /\ Alive(machine)
    /\ image' = servers[machine]
    /\ UNCHANGED <<requestVars, servers, machine, target, noRollback>>

Caller(r) ==
    /\ Resume(r) \/ Leave(r)
    /\ UNCHANGED remoteVars

Next ==
    \/ \E r \in Requests :
        \/ BeginDirect(r) \/ Begin(r) \/ BeginThrows(r)
        \/ Send(r) \/ Run(r) \/ CallThrows(r)
        \/ Commit(r) \/ Rollback(r) \/ CloseDirect(r) \/ CloseThrows(r)
        \/ Caller(r)
    \/ Shutdown
    \/ Store

Spec == Init /\ [][Next]_vars

---------------------------------------------------------------------------

(* m is waiting for a request and holds only inputs that were accepted.    *)
Committed(m) ==
    /\ m.yield = "accepted"
    /\ \A n \in DOMAIN m.handled : \E k \in DOMAIN ledger : ledger[k] = m.handled[n]

(***************************************************************************)
(* Isolation: however requests overlap, are abandoned or fail, the server  *)
(* the object forks from and the image its owner stores never hold the     *)
(* effects of a request that was not accepted, and always await a request. *)
(***************************************************************************)
BaseIsCommitted ==
    ~noRollback =>
        /\ Alive(machine) => Committed(servers[machine])
        /\ Usable(image) => Committed(image)

(***************************************************************************)
(* Every event and verdict a caller gets for a request comes from the      *)
(* guest serving that very request, also when requests overlap.            *)
(***************************************************************************)
OwnVerdict == ~noRollback => \A r \in Requests : heard[r] \subseteq {r}

(***************************************************************************)
(* No server process is left behind: each one that runs is the object's    *)
(* current server, or the fork of a request that is open, was abandoned or *)
(* ended because a machine call threw.                                     *)
(***************************************************************************)
LeftoversAreAbandoned ==
    \A s \in Servers : Alive(s) =>
        \/ s = machine
        \/ s \in Requests /\ (IsOpen(s) \/ pc[s] = "abandoned" \/ Outcome[s] = "error")

---------------------------------------------------------------------------

(* The application's state: the inputs the current server holds; once it   *)
(* was shut down, those it held.                                           *)
CommittedState == IF Alive(machine) THEN servers[machine].handled ELSE ledger

Ledger == INSTANCE RollupsLedger WITH state <- CommittedState, outcome <- Outcome

(* The remote rollups machine implements the ledger, also when requests    *)
(* are abandoned and machine calls throw, as long as they do not overlap.  *)
ImplementsLedger == Ledger!Spec
=============================================================================
