------------------------ MODULE LocalRollups_proofs ------------------------
(***************************************************************************)
(* Theorems about LocalRollups, for every set of requests.                 *)
(***************************************************************************)
EXTENDS LocalRollups, FiniteSetTheorems, SequenceTheorems, TLAPS

---------------------------------------------------------------------------
(* Values of machines.                                                     *)

(* A fresh, an absent and an expected machine are machines.                *)
LEMMA MachineValues ==
    /\ Fresh \in Machine
    /\ Gone \in Machine
    /\ ~Usable(Gone)
BY DEF Fresh, Gone, Machine, Usable, FixedPoints, ManualYields

(* Delivering a response and running keep a machine a machine, and cannot  *)
(* make it go away.                                                        *)
LEMMA MachineSteps ==
    ASSUME NEW m \in Machine, Usable(m)
    PROVE  /\ \A r \in Requests :
                AfterResponse(m, r) \in Machine /\ Usable(AfterResponse(m, r))
           /\ \A break \in CanBreak(m) :
                AfterRun(m, break) \in Machine /\ Usable(AfterRun(m, break))
           /\ \A break : AfterRun(m, break).handled = m.handled
<1>1. \A r \in Requests :
        AfterResponse(m, r) \in Machine /\ Usable(AfterResponse(m, r))
  BY DEF AfterResponse, Delivers, Machine, Usable
<1>2. \A break \in CanBreak(m) :
        AfterRun(m, break) \in Machine /\ Usable(AfterRun(m, break))
  BY DEF AfterRun, CanBreak, Machine, Usable, FixedPoints, ManualYields
<1>3. \A break : AfterRun(m, break).handled = m.handled
  BY DEF AfterRun, Machine
<1>4. QED BY <1>1, <1>2, <1>3

(* The request a machine is serving is a request, if there is one.         *)
LEMMA ServingType ==
    ASSUME NEW m \in Machine
    PROVE  Serving(m) \in Requests \cup {None}
BY DEF Serving, Machine

(* Which requests a machine holds effects of, after a response and a run.  *)
LEMMA HoldsAfter ==
    ASSUME NEW m \in Machine, NEW r \in Requests, NEW i \in Requests
    PROVE  /\ Holds(m, i) => Holds(AfterResponse(m, r), i)
           /\ i # r /\ Holds(AfterResponse(m, r), i) => Holds(m, i)
           /\ \A break : Holds(AfterRun(m, break), i) <=> Holds(m, i)
<1> USE DEF Holds, Machine
<1>1. Holds(m, i) => Holds(AfterResponse(m, r), i)
  BY DEF AfterResponse
<1>2. i # r /\ Holds(AfterResponse(m, r), i) => Holds(m, i)
  BY DEF AfterResponse
<1>3. \A break : Holds(AfterRun(m, break), i) <=> Holds(m, i)
  BY DEF AfterRun
<1>4. QED BY <1>1, <1>2, <1>3

---------------------------------------------------------------------------
(* The generators' bookkeeping.                                            *)

(* Initially the bookkeeping of the generators is well typed.              *)
LEMMA RequestTypeInit == RequestInit => RequestTypeOK
BY DEF RequestInit, RequestTypeOK, Results

(* The steps of a generator's body keep its bookkeeping well typed.        *)
LEMMA RequestTypeSteps ==
    ASSUME RequestTypeOK, NEW r \in Requests
    PROVE  /\ Throw(r) => RequestTypeOK'
           /\ Started(r) => RequestTypeOK'
           /\ Sent(r) => RequestTypeOK'
           /\ Resume(r) => RequestTypeOK'
           /\ Leave(r) => RequestTypeOK'
<1> USE DEF RequestTypeOK, OnStack, Results, Goto
<1>1. Throw(r) => RequestTypeOK' BY DEF Throw
<1>2. Started(r) => RequestTypeOK' BY DEF Started
<1>3. Sent(r) => RequestTypeOK' BY DEF Sent
<1>4. Resume(r) => RequestTypeOK' BY DEF Resume
<1>5. Leave(r) => RequestTypeOK' BY DEF Leave
<1>6. QED BY <1>1, <1>2, <1>3, <1>4, <1>5

(* A break of run, an event or an ending, keeps it well typed.             *)
LEMMA RequestTypeRun ==
    ASSUME RequestTypeOK, NEW r \in Requests, NEW m \in Machine, NEW break
    PROVE  Event(r, m, break) \/ Ending(r, m, break) => RequestTypeOK'
<1> USE ServingType DEF RequestTypeOK, Goto
<1>1. Event(r, m, break) => RequestTypeOK' BY DEF Event, OnStack
<1>2. Ending(r, m, break) => RequestTypeOK'
  BY DEF Ending, Verdict, OnStack, Results
<1>3. QED BY <1>1, <1>2

(* Only inputs are ever accepted.                                          *)
OnlyInputsAccepted == \A r \in Requests : result[r] = "accepted" => r \in Inputs

(* Closing a transaction keeps it well typed: only inputs enter the ledger.*)
LEMMA RequestTypeSettled ==
    ASSUME RequestTypeOK, OnlyInputsAccepted, NEW r \in Requests
    PROVE  Settled(r) => RequestTypeOK'
BY DEF Settled, RequestTypeOK, OnlyInputsAccepted, OnStack, Goto

---------------------------------------------------------------------------
(* What callers learn.                                                     *)

Answered(r, why) ==
    /\ Outcome[r] = "none"
    /\ Outcome' = [Outcome EXCEPT ![r] = why]

(* A request is answered when its generator ends, and only then.           *)
LEMMA OutcomeSteps ==
    ASSUME RequestTypeOK, NEW r \in Requests, pc[r] # "settled"
    PROVE  /\ Throw(r) => Answered(r, "error") /\ ledger' = ledger
           /\ Settled(r) => Answered(r, result[r])
           /\ Started(r) \/ Sent(r) \/ Resume(r) \/ Leave(r)
              => UNCHANGED <<ledger, Outcome>>
           /\ \A m, break : Event(r, m, break) \/ Ending(r, m, break)
                            => UNCHANGED <<ledger, Outcome>>
<1> USE DEF RequestTypeOK, Goto, Outcome
<1>1. Throw(r) => Answered(r, "error") /\ ledger' = ledger BY DEF Throw, Answered
<1>2. Settled(r) => Answered(r, result[r]) BY DEF Settled, Answered
<1>3. Started(r) \/ Sent(r) \/ Resume(r) \/ Leave(r) => UNCHANGED <<ledger, Outcome>>
  BY DEF Started, Sent, Resume, Leave
<1>4. \A m, break : Event(r, m, break) => UNCHANGED <<ledger, Outcome>>
  BY DEF Event
<1>5. \A m, break : Ending(r, m, break) => UNCHANGED <<ledger, Outcome>>
  BY DEF Ending
<1>6. QED BY <1>1, <1>2, <1>3, <1>4, <1>5

---------------------------------------------------------------------------
(* Type correctness, for all uses.                                         *)

(* Outcomes are "accepted" for inputs only.                                *)
LEMMA OnlyInputsAcceptedStep ==
    ASSUME TypeOK, OnlyInputsAccepted, [Next]_vars
    PROVE  OnlyInputsAccepted'
<1> USE DEF TypeOK, RequestTypeOK, OnlyInputsAccepted
<1>1. CASE UNCHANGED result BY <1>1
<1>2. ASSUME NEW r \in Requests, Throw(r) PROVE OnlyInputsAccepted'
  BY <1>2 DEF Throw
<1>3. ASSUME NEW r \in Requests, NEW break, Ending(r, machine, break)
      PROVE  OnlyInputsAccepted'
  BY <1>3 DEF Ending, Verdict
<1>4. QED
  BY <1>1, <1>2, <1>3 DEF Next, vars, requestVars, BeginDirect, Begin, BeginThrows,
     Send, Run, CallThrows, Commit, CommitThrows, RollbackNothing, Rollback,
     RollbackThrows, Caller, Shutdown, Store, Started, Sent, Event, Settled,
     Resume, Leave

(* Each step keeps every variable in its type.                             *)
LEMMA TypeOKStep ==
    ASSUME TypeOK, OnlyInputsAccepted, [Next]_vars
    PROVE  TypeOK'
<1> USE MachineValues, MachineSteps, RequestTypeSteps, RequestTypeRun, RequestTypeSettled DEF TypeOK
<1> DEFINE LocalTypeOK ==
      /\ machine \in Machine
      /\ snapshot \in Requests \cup {None}
      /\ disk \in [Requests -> Machine]
      /\ image \in Machine
      /\ noRollback \in BOOLEAN
<1>d. Discarded \in [Requests -> Machine] BY DEF Discarded
<1>1. ASSUME NEW r \in Requests,
             BeginDirect(r) \/ Begin(r) \/ BeginThrows(r)
      PROVE  TypeOK'
  BY <1>1, <1>d DEF BeginDirect, Begin, BeginThrows, DiscardThrows, localVars
<1>2. ASSUME NEW r \in Requests, Send(r) \/ CallThrows(r) PROVE TypeOK'
  BY <1>2 DEF Send, CallThrows, localVars
<1>3. ASSUME NEW r \in Requests, Run(r) PROVE TypeOK'
  BY <1>3 DEF Run
<1>4. ASSUME NEW r \in Requests, Commit(r) \/ CommitThrows(r) PROVE TypeOK'
  BY <1>4, <1>d DEF Commit, CommitThrows, DiscardSnapshot, DiscardThrows
<1>5. ASSUME NEW r \in Requests,
             RollbackNothing(r) \/ Rollback(r) \/ RollbackThrows(r)
      PROVE  TypeOK'
  BY <1>5, <1>d DEF RollbackNothing, Rollback, RollbackThrows, DiscardSnapshot, localVars
<1>6. ASSUME NEW r \in Requests, Caller(r) PROVE TypeOK'
  BY <1>6 DEF Caller, localVars
<1>7. CASE Shutdown \/ Store
  BY <1>7, <1>d DEF Shutdown, Store, DiscardSnapshot, requestVars, RequestTypeOK
<1>8. CASE UNCHANGED vars
  BY <1>8 DEF vars, localVars, requestVars, RequestTypeOK
<1>9. QED BY <1>1, <1>2, <1>3, <1>4, <1>5, <1>6, <1>7, <1>8 DEF Next

(* Every variable keeps its type whatever callers do and whichever calls   *)
(* throw.                                                                  *)
THEOREM TypeCorrect == Spec => [](TypeOK /\ OnlyInputsAccepted)
<1>1. Init => TypeOK /\ OnlyInputsAccepted
  BY RequestTypeInit, MachineValues, NoRollbackAssumption
     DEF Init, TypeOK, RequestInit, OnlyInputsAccepted
<1>2. TypeOK /\ OnlyInputsAccepted /\ [Next]_vars => (TypeOK /\ OnlyInputsAccepted)'
  BY TypeOKStep, OnlyInputsAcceptedStep
<1>3. QED BY <1>1, <1>2, PTL DEF Spec

---------------------------------------------------------------------------
(* Accepted inputs are durable, for all uses.                              *)

(* What makes durability inductive: the copy a rollback would restore      *)
(* holds every accepted input that the machine itself holds.               *)
CopyIsUpToDate ==
    \A i \in Inputs : HasCopy /\ TookEffect(i) => Holds(disk[snapshot], i)

DurableInv ==
    /\ \A r \in Requests : pc[r] = "new" => ~Usable(disk[r])
    /\ \A r \in Requests : pc[r] = "rollback" => result[r] # "accepted"
    /\ CopyIsUpToDate

(* Only a commit, or closing a transaction that was never begun, makes an  *)
(* outcome "accepted".                                                     *)
LEMMA NewlyAccepted ==
    ASSUME TypeOK, DurableInv, NEW i \in Requests, [Next]_vars,
           Outcome[i] # "accepted", Outcome'[i] = "accepted"
    PROVE  Commit(i)
<1> USE DEF Outcome, TypeOK, RequestTypeOK, Goto
<1>1. ASSUME NEW r \in Requests,
             BeginDirect(r) \/ Begin(r) \/ BeginThrows(r) \/ Send(r) \/ CallThrows(r)
             \/ CommitThrows(r) \/ RollbackThrows(r) \/ Caller(r)
      PROVE  FALSE
  BY <1>1 DEF BeginDirect, Begin, BeginThrows, Send, CallThrows, CommitThrows,
     RollbackThrows, Caller, Started, Sent, Throw, Resume, Leave
<1>2. ASSUME NEW r \in Requests, Run(r) PROVE FALSE
  BY <1>2 DEF Run, Event, Ending
<1>3. ASSUME NEW r \in Requests, RollbackNothing(r) \/ Rollback(r) PROVE FALSE
  BY <1>3 DEF RollbackNothing, Rollback, Settled, DurableInv
<1>4. ASSUME NEW r \in Requests, Commit(r) PROVE r = i
  BY <1>4 DEF Commit, Settled
<1>5. CASE Shutdown \/ Store \/ UNCHANGED vars
  BY <1>5 DEF Shutdown, Store, vars, requestVars
<1>6. QED BY <1>1, <1>2, <1>3, <1>4, <1>5 DEF Next

(* An outcome, once decided, is final.                                     *)
LEMMA OutcomeIsFinal ==
    ASSUME TypeOK, NEW i \in Requests, [Next]_vars, pc[i] = "settled"
    PROVE  pc'[i] = "settled" /\ result'[i] = result[i]
<1> USE DEF TypeOK, RequestTypeOK, Goto
<1>1. ASSUME NEW r \in Requests,
             BeginDirect(r) \/ Begin(r) \/ BeginThrows(r) \/ Send(r) \/ CallThrows(r)
             \/ CommitThrows(r) \/ RollbackThrows(r) \/ Caller(r)
      PROVE  pc'[i] = "settled" /\ result'[i] = result[i]
  BY <1>1 DEF BeginDirect, Begin, BeginThrows, Send, CallThrows, CommitThrows,
     RollbackThrows, Caller, Started, Sent, Throw, Resume, Leave
<1>2. ASSUME NEW r \in Requests, Run(r)
      PROVE  pc'[i] = "settled" /\ result'[i] = result[i]
  BY <1>2 DEF Run, Event, Ending
<1>3. ASSUME NEW r \in Requests, RollbackNothing(r) \/ Rollback(r) \/ Commit(r)
      PROVE  pc'[i] = "settled" /\ result'[i] = result[i]
  BY <1>3 DEF RollbackNothing, Rollback, Commit, Settled
<1>4. CASE Shutdown \/ Store \/ UNCHANGED vars
  BY <1>4 DEF Shutdown, Store, vars, requestVars
<1>5. QED BY <1>1, <1>2, <1>3, <1>4 DEF Next

(* One step of a durable machine, seen from an accepted input i.           *)
LEMMA DurableStep ==
    ASSUME TypeOK, DurableInv, [Next]_vars, NEW i \in Inputs
    PROVE  /\ TookEffect(i) /\ Usable(machine') => TookEffect(i)'
           /\ HasCopy' /\ TookEffect(i)' => Holds(disk'[snapshot'], i)
<1> DEFINE Goal ==
      /\ TookEffect(i) /\ Usable(machine') => TookEffect(i)'
      /\ HasCopy' /\ TookEffect(i)' => Holds(disk'[snapshot'], i)
<1>r. i \in Requests BY DEF Requests
<1>f. Outcome[i] = "accepted" => Outcome'[i] = "accepted"
  BY <1>r, OutcomeIsFinal DEF Outcome
<1>g. HasCopy' /\ Outcome'[i] = "accepted" => Outcome[i] = "accepted"
  BY <1>r, NewlyAccepted DEF Commit, DiscardSnapshot, HasCopy
<1>c. HasCopy /\ TookEffect(i) => Holds(disk[snapshot], i)
  BY DEF DurableInv, CopyIsUpToDate
<1>n. None \notin Requests BY NoneIsNoRequest
<1>d. /\ Discarded \in [Requests -> Machine]
      /\ \A q \in Requests : Discarded[q] = Gone \/ Discarded[q] = disk[q]
  BY MachineValues DEF Discarded, TypeOK
<1> USE <1>r, <1>f, <1>g, <1>n DEF TookEffect, TypeOK
<1>1. ASSUME NEW r \in Requests, Begin(r) PROVE Goal
  BY <1>1, <1>d DEF Begin, HasCopy
<1>2. ASSUME NEW r \in Requests, BeginThrows(r) PROVE Goal
  <2>1. CASE UNCHANGED <<snapshot, disk>> /\ UNCHANGED machine
    BY <2>1, <1>c DEF HasCopy
  <2>2. CASE snapshot' = r /\ disk' = Discarded /\ UNCHANGED machine
    <3>1. ~Usable(disk'[r])
      BY <1>2, <2>2, <1>d, MachineValues DEF BeginThrows, DurableInv
    <3>2. QED BY <3>1, <2>2 DEF HasCopy
  <2>3. QED BY <1>2, <2>1, <2>2 DEF BeginThrows, DiscardThrows
<1>3. ASSUME NEW r \in Requests,
             BeginDirect(r) \/ CallThrows(r) \/ CommitThrows(r) \/ RollbackNothing(r)
             \/ Caller(r)
      PROVE  Goal
  <2>1. UNCHANGED <<machine, snapshot, disk>>
    BY <1>3 DEF BeginDirect, CallThrows, CommitThrows, RollbackNothing, Caller,
       DiscardThrows, localVars
  <2>2. QED BY <2>1, <1>c DEF HasCopy
<1>4. ASSUME NEW r \in Requests, Send(r) PROVE Goal
  <2>1. i # r \/ Outcome'[i] # "accepted"
    BY <1>4 DEF Send, Sent, Goto, RequestTypeOK, Outcome
  <2>2. QED BY <2>1, <1>4, <1>c, HoldsAfter DEF Send, HasCopy
<1>5. ASSUME NEW r \in Requests, Run(r) PROVE Goal
  <2>1. Holds(machine, i) <=> Holds(machine', i)
    BY <1>5, HoldsAfter DEF Run
  <2>2. QED BY <2>1, <1>5, <1>c DEF Run, HasCopy
<1>6. ASSUME NEW r \in Requests, Commit(r) PROVE Goal
  BY <1>6 DEF Commit, DiscardSnapshot, HasCopy
<1>7. ASSUME NEW r \in Requests, Rollback(r) PROVE Goal
  BY <1>7, <1>c DEF Rollback, DiscardSnapshot, HasCopy
<1>8. ASSUME NEW r \in Requests, RollbackThrows(r) PROVE Goal
  BY <1>8, <1>c, MachineValues DEF RollbackThrows, HasCopy
<1>9. CASE Shutdown
  BY <1>9 DEF Shutdown, DiscardSnapshot, HasCopy
<1>10. CASE Store \/ UNCHANGED vars
  <2>1. UNCHANGED <<machine, snapshot, disk>>
    BY <1>10 DEF Store, vars, localVars
  <2>2. QED BY <2>1, <1>c DEF HasCopy
<1>11. QED
  BY <1>1, <1>2, <1>3, <1>4, <1>5, <1>6, <1>7, <1>8, <1>9, <1>10 DEF Next

(* Each step preserves the invariant that durability rests on.             *)
LEMMA DurableInvStep ==
    ASSUME TypeOK, DurableInv, [Next]_vars
    PROVE  DurableInv'
<1>1. CopyIsUpToDate' BY DurableStep DEF CopyIsUpToDate
<1>2. \A r \in Requests : pc'[r] = "rollback" => result'[r] # "accepted"
  <2> USE DEF TypeOK, RequestTypeOK, DurableInv, Goto
  <2>1. ASSUME NEW q \in Requests, Run(q)
        PROVE  \A r \in Requests : pc'[r] = "rollback" => result'[r] # "accepted"
    BY <2>1 DEF Run, Event, Ending, Verdict
  <2>2. ASSUME NEW q \in Requests, ~Run(q), NEW r \in Requests,
               pc'[r] = "rollback",
               BeginDirect(q) \/ Begin(q) \/ BeginThrows(q) \/ Send(q) \/ CallThrows(q)
               \/ Commit(q) \/ CommitThrows(q) \/ RollbackNothing(q) \/ Rollback(q)
               \/ RollbackThrows(q) \/ Caller(q)
        PROVE  result'[r] # "accepted"
    BY <2>2 DEF BeginDirect, Begin, BeginThrows, Send, CallThrows, Commit, CommitThrows,
       RollbackNothing, Rollback, RollbackThrows, Caller, Started, Sent, Throw,
       Settled, Resume, Leave
  <2>3. CASE Shutdown \/ Store \/ UNCHANGED vars
    BY <2>3 DEF Shutdown, Store, vars, requestVars
  <2>4. QED BY <2>1, <2>2, <2>3 DEF Next
<1>3. ASSUME NEW r \in Requests, pc'[r] = "new" PROVE ~Usable(disk'[r])
  <2> USE DEF TypeOK, RequestTypeOK, Goto
  <2>d. \A q \in Requests : Discarded[q] = Gone \/ Discarded[q] = disk[q]
    BY MachineValues DEF Discarded
  <2>1. ASSUME NEW q \in Requests,
               BeginDirect(q) \/ Begin(q) \/ BeginThrows(q) \/ Send(q) \/ Run(q)
               \/ CallThrows(q) \/ Commit(q) \/ CommitThrows(q) \/ RollbackNothing(q)
               \/ Rollback(q) \/ RollbackThrows(q) \/ Caller(q)
        PROVE  pc[r] = "new" /\ (disk'[r] = disk[r] \/ disk'[r] = Gone)
    <3>1. CASE Begin(q)
      <4>1. Discarded \in [Requests -> Machine] BY MachineValues DEF Discarded
      <4>2. q # r BY <3>1, <1>3 DEF Begin, Started
      <4>3. QED BY <3>1, <4>1, <4>2, <2>d, <1>3 DEF Begin, Started
    <3>2. CASE Run(q)
      BY <3>2, <1>3 DEF Run, Event, Ending
    <3>3. CASE BeginDirect(q) \/ BeginThrows(q) \/ Send(q) \/ CallThrows(q)
      BY <3>3, <1>3, <2>d DEF BeginDirect, BeginThrows, Send, CallThrows, Started,
         Sent, Throw, DiscardThrows, localVars
    <3>4. CASE Commit(q) \/ CommitThrows(q) \/ RollbackNothing(q) \/ Rollback(q)
               \/ RollbackThrows(q) \/ Caller(q)
      BY <3>4, <1>3, <2>d DEF Commit, CommitThrows, RollbackNothing, Rollback,
         RollbackThrows, Caller, Throw, Settled, Resume, Leave, DiscardSnapshot,
         DiscardThrows, localVars
    <3>5. QED BY <2>1, <3>1, <3>2, <3>3, <3>4
  <2>2. CASE Shutdown \/ Store \/ UNCHANGED vars
    BY <2>2, <1>3, <2>d, MachineValues
       DEF Shutdown, Store, DiscardSnapshot, vars, requestVars, localVars, DurableInv
  <2>3. QED BY <2>1, <2>2, MachineValues DEF Next, DurableInv
<1>4. QED BY <1>1, <1>2, <1>3 DEF DurableInv

(* The invariant that durability rests on holds in every use.              *)
LEMMA DurableInvariant == Spec => []DurableInv
<1>1. Init => DurableInv
  BY MachineValues DEF Init, RequestInit, DurableInv, CopyIsUpToDate, HasCopy
<1>2. TypeOK /\ DurableInv /\ [Next]_vars => DurableInv'
  BY DurableInvStep
<1>3. QED BY <1>1, <1>2, TypeCorrect, PTL DEF Spec

(* Whatever callers do and whichever machine calls throw, an accepted      *)
(* input that took effect is never undone by a rollback.                   *)
THEOREM Durability == Spec => AcceptedIsDurable
<1>1. TypeOK /\ DurableInv /\ [Next]_vars
      => [\A i \in Inputs : TookEffect(i) /\ Usable(machine') => TookEffect(i)']_vars
  BY DurableStep
<1>2. QED BY <1>1, TypeCorrect, DurableInvariant, PTL DEF Spec, AcceptedIsDurable

---------------------------------------------------------------------------
(* All or nothing, for a caller that ends each request before the next one *)
(* and a machine whose run, load and removeStored do not throw.            *)

CarefulUse ==
    /\ ~Overlap /\ ~Abandon
    /\ Faults \cap {"load", "remove", "run"} = {}
    /\ Oversized \cap Inputs = {}

(* Where the one open request r and the machine stand together.            *)
Progress(r) ==
    /\ snapshot = r /\ disk[r] = Expected
    /\ pc[r] = "send" => machine = Expected
    /\ pc[r] \in {"run", "suspended"} =>
        /\ Usable(machine)
        /\ r \in Inputs => machine = [handled |-> Append(ledger, r), yield |-> "running"]
    /\ pc[r] = "commit" =>
        /\ r \in Inputs /\ result[r] = "accepted"
        /\ machine = [handled |-> Append(ledger, r), yield |-> "accepted"]
    /\ pc[r] = "rollback" => result[r] \in {"answered", "rejected", "fatal"}

TransactionInv ==
    /\ \A r, q \in Requests : IsOpen(r) /\ IsOpen(q) => r = q
    /\ \A r \in Requests : IsOpen(r) => Progress(r)
    /\ NothingOpen => machine = Expected /\ (HasCopy => disk[snapshot] = Expected)

(* The machine a careful caller expects is a machine.                      *)
LEMMA ExpectedMachine ==
    ASSUME RequestTypeOK
    PROVE  Expected \in Machine /\ Usable(Expected) /\ Expected # Gone
BY DEF Expected, Machine, Usable, Gone, RequestTypeOK, FixedPoints, ManualYields, Requests

(* A step that closes the only open request leaves none open.              *)
LEMMA Closing ==
    ASSUME TypeOK, TransactionInv, NEW r \in Requests, IsOpen(r), Goto(r, "settled")
    PROVE  NothingOpen' /\ \A q \in Requests : ~IsOpen(q)'
BY DEF TypeOK, RequestTypeOK, TransactionInv, IsOpen, NothingOpen, Goto, OnStack

(* A step that moves the only open request on leaves it the only one.      *)
LEMMA Moving ==
    ASSUME TypeOK, NEW r \in Requests, NEW to \in OnStack \cup {"suspended"},
           \A q \in Requests : IsOpen(q) => q = r, Goto(r, to)
    PROVE  /\ IsOpen(r)' /\ ~NothingOpen' /\ pc'[r] = to
           /\ \A q \in Requests : IsOpen(q)' => q = r
BY DEF TypeOK, RequestTypeOK, IsOpen, NothingOpen, Goto

(* The open request makes one step and stays open.                         *)
LEMMA Advancing ==
    ASSUME TypeOK, NEW r \in Requests, NEW to \in OnStack \cup {"suspended"},
           \A q \in Requests : IsOpen(q) => q = r, Goto(r, to), Progress(r)'
    PROVE  TransactionInv'
BY Moving DEF TransactionInv

(* Each step of a careful use preserves the transaction invariant.         *)
LEMMA TransactionStep ==
    ASSUME TypeOK, DurableInv, TransactionInv, CarefulUse, ~noRollback, [Next]_vars
    PROVE  TransactionInv'
<1> USE DEF TypeOK
<1>n. None \notin Requests BY NoneIsNoRequest
<1>e. Expected \in Machine /\ Usable(Expected) /\ Expected # Gone
  BY ExpectedMachine
<1>m. MayCall => NothingOpen /\ machine = Expected /\ (HasCopy => disk[snapshot] = Expected)
  BY DEF MayCall, CarefulUse, TransactionInv
<1>d. Discarded \in [Requests -> Machine] BY MachineValues DEF Discarded
<1>o. ASSUME NEW r \in Requests, IsOpen(r)
      PROVE  Progress(r) /\ \A q \in Requests : IsOpen(q) => q = r
  BY <1>o DEF TransactionInv
<1>i. \A r \in Requests : pc[r] \in OnStack \cup {"suspended"} <=> IsOpen(r)
  BY DEF IsOpen
<1>1. ASSUME NEW r \in Requests, BeginDirect(r) PROVE FALSE
  BY <1>1 DEF BeginDirect
<1>2. ASSUME NEW r \in Requests, Begin(r) PROVE TransactionInv'
  <2>1. Goto(r, "send") /\ machine' = Expected /\ ledger' = ledger
    BY <1>2, <1>m DEF Begin, Started
  <2>2. snapshot' = r /\ disk'[r] = Expected
    BY <1>2, <1>m, <1>d DEF Begin
  <2>3. pc'[r] = "send" BY <2>1 DEF Goto, RequestTypeOK
  <2>4. Progress(r)' BY <2>1, <2>2, <2>3 DEF Progress, Expected
  <2>5. \A q \in Requests : IsOpen(q) => q = r BY <1>2, <1>m DEF Begin, NothingOpen
  <2>6. QED BY <2>1, <2>4, <2>5, Advancing DEF OnStack
<1>3. ASSUME NEW r \in Requests, BeginThrows(r) PROVE TransactionInv'
  <2>1. \A q \in Requests : ~IsOpen(q)'
    BY <1>3, <1>m DEF BeginThrows, Throw, Goto, RequestTypeOK, IsOpen, NothingOpen, OnStack
  <2>2. machine' = Expected /\ ledger' = ledger
    BY <1>3, <1>m DEF BeginThrows, Throw
  <2>3. HasCopy' => disk'[snapshot'] = Expected
    <3>1. CASE DiscardThrows
      BY <3>1, <1>3, <1>m DEF BeginThrows, DiscardThrows, HasCopy
    <3>2. CASE snapshot' = r /\ disk' = Discarded
      <4>1. ~Usable(disk[r]) BY <1>3 DEF BeginThrows, DurableInv
      <4>2. ~Usable(disk'[r]) BY <4>1, <3>2, MachineValues DEF Discarded
      <4>3. QED BY <4>2, <3>2 DEF HasCopy
    <3>3. QED BY <1>3, <3>1, <3>2 DEF BeginThrows
  <2>4. QED BY <2>1, <2>2, <2>3 DEF TransactionInv, NothingOpen, Expected
<1>4. ASSUME NEW r \in Requests, Send(r) PROVE TransactionInv'
  <2>1. IsOpen(r) /\ machine = Expected BY <1>4, <1>o, <1>i DEF Send, Progress, OnStack
  <2>2. /\ Goto(r, "run") /\ pc'[r] = "run"
        /\ UNCHANGED <<ledger, snapshot, disk, result>>
    BY <1>4 DEF Send, Sent, Goto, RequestTypeOK
  <2>3. Usable(machine') BY <1>4, MachineSteps DEF Send
  <2>4. r \in Inputs => machine' = [handled |-> Append(ledger, r), yield |-> "running"]
    BY <1>4, <2>1 DEF Send, AfterResponse, Delivers, Expected, CarefulUse, ManualYields
  <2>5. Progress(r)' BY <2>1, <2>2, <2>3, <2>4, <1>o DEF Progress, Expected
  <2>6. QED BY <2>1, <2>2, <2>5, <1>o, Advancing DEF OnStack
<1>5. ASSUME NEW r \in Requests, Run(r) PROVE TransactionInv'
  <2>1. PICK break \in CanBreak(machine) :
          /\ machine' = AfterRun(machine, break)
          /\ Event(r, machine, break) \/ Ending(r, machine, break)
    BY <1>5 DEF Run
  <2>2. IsOpen(r) /\ pc[r] = "run" BY <1>5, <1>i DEF Run, OnStack
  <2>3. /\ Progress(r) /\ Usable(machine')
        /\ UNCHANGED <<ledger, snapshot, disk>>
    BY <1>5, <1>o, <2>1, <2>2, MachineSteps DEF Run, Event, Ending
  <2>4. CASE Event(r, machine, break)
    <3>1. break \notin FixedPoints
      BY <2>4 DEF Event, AutomaticYields, FixedPoints, ManualYields
    <3>2. machine' = machine BY <3>1, <2>1 DEF AfterRun
    <3>3. PICK to \in {"run", "suspended"} : Goto(r, to)
      BY <2>4, <2>2 DEF Event, Goto, RequestTypeOK
    <3>4. pc'[r] \in {"run", "suspended"} BY <3>3 DEF Goto, RequestTypeOK
    <3>5. Progress(r)' BY <2>2, <2>3, <3>2, <3>4 DEF Progress, Expected
    <3>6. QED BY <2>2, <3>3, <3>5, <1>o, Advancing DEF OnStack
  <2>5. CASE Ending(r, machine, break)
    <3>1. PICK to \in {"commit", "rollback"} :
            /\ Goto(r, to)
            /\ to = "commit" <=> Verdict(r, break) = "accepted"
      BY <2>5 DEF Ending
    <3>2. pc'[r] = to /\ result'[r] = Verdict(r, break)
      BY <2>5, <3>1 DEF Ending, Goto, RequestTypeOK
    <3>3. Verdict(r, break) = "accepted" =>
            /\ r \in Inputs
            /\ machine' = [handled |-> Append(ledger, r), yield |-> "accepted"]
      <4>1. SUFFICES ASSUME Verdict(r, break) = "accepted"
            PROVE  /\ r \in Inputs
                   /\ machine' = [handled |-> Append(ledger, r), yield |-> "accepted"]
        OBVIOUS
      <4>2. r \in Inputs /\ break = "accepted" BY <4>1 DEF Verdict
      <4>3. machine = [handled |-> Append(ledger, r), yield |-> "running"]
        BY <4>2, <2>2, <2>3 DEF Progress
      <4>4. machine' = [machine EXCEPT !.yield = "accepted"]
        BY <4>2, <2>1 DEF AfterRun, FixedPoints, ManualYields
      <4>5. QED BY <4>2, <4>3, <4>4
    <3>4. Verdict(r, break) # "accepted" => Verdict(r, break) \in {"answered", "rejected", "fatal"}
      BY DEF Verdict
    <3>5. Progress(r)' BY <2>3, <3>1, <3>2, <3>3, <3>4 DEF Progress, Expected
    <3>6. QED BY <2>2, <3>1, <3>5, <1>o, Advancing DEF OnStack
  <2>6. QED BY <2>1, <2>4, <2>5
<1>6. ASSUME NEW r \in Requests, CallThrows(r) PROVE TransactionInv'
  <2>1. IsOpen(r) /\ Progress(r) BY <1>6, <1>i, <1>o DEF CallThrows, OnStack
  <2>2. pc[r] = "send" BY <1>6, <2>1 DEF CallThrows, CarefulUse, Progress
  <2>3. Goto(r, "settled") /\ ledger' = ledger /\ UNCHANGED <<machine, snapshot, disk>>
    BY <1>6 DEF CallThrows, Throw, localVars
  <2>4. \A q \in Requests : ~IsOpen(q)' BY <2>1, <2>3, Closing
  <2>5. QED BY <2>1, <2>2, <2>3, <2>4 DEF TransactionInv, Progress, Expected, HasCopy
<1>7. ASSUME NEW r \in Requests, Commit(r) PROVE TransactionInv'
  <2>1. IsOpen(r) /\ Progress(r) BY <1>7, <1>i, <1>o DEF Commit, OnStack
  <2>2. \A q \in Requests : ~IsOpen(q)' BY <1>7, <2>1, Closing DEF Commit, Settled
  <2>3. ledger' = Append(ledger, r) BY <1>7, <2>1 DEF Commit, Settled, Progress
  <2>4. machine' = Expected' BY <1>7, <2>1, <2>3 DEF Commit, Progress, Expected
  <2>5. QED BY <1>7, <2>2, <2>4 DEF Commit, DiscardSnapshot, TransactionInv, HasCopy
<1>8. ASSUME NEW r \in Requests, CommitThrows(r) \/ RollbackThrows(r) \/ RollbackNothing(r)
      PROVE  FALSE
  <2>1. IsOpen(r) /\ Progress(r)
    BY <1>8, <1>i, <1>o DEF CommitThrows, RollbackThrows, RollbackNothing, OnStack
  <2>2. Usable(disk[snapshot]) /\ snapshot # None BY <2>1, <1>e, <1>n DEF Progress
  <2>3. QED
    BY <1>8, <2>2 DEF CommitThrows, RollbackThrows, RollbackNothing, DiscardThrows, CarefulUse
<1>9. ASSUME NEW r \in Requests, Rollback(r) PROVE TransactionInv'
  <2>1. IsOpen(r) /\ Progress(r) BY <1>9, <1>i, <1>o DEF Rollback, OnStack
  <2>2. \A q \in Requests : ~IsOpen(q)' BY <1>9, <2>1, Closing DEF Rollback, Settled
  <2>3. ledger' = ledger BY <1>9, <2>1 DEF Rollback, Settled, Progress
  <2>4. machine' = Expected' BY <1>9, <2>1, <2>3 DEF Rollback, Progress, Expected
  <2>5. QED BY <1>9, <2>2, <2>4 DEF Rollback, DiscardSnapshot, TransactionInv, HasCopy
<1>10. ASSUME NEW r \in Requests, Caller(r) PROVE TransactionInv'
  <2>1. Resume(r) /\ UNCHANGED <<machine, snapshot, disk, ledger>>
    BY <1>10 DEF Caller, Leave, Resume, CarefulUse, localVars
  <2>2. IsOpen(r) /\ pc[r] = "suspended" /\ Goto(r, "run")
    BY <2>1, <1>i DEF Resume
  <2>3. pc'[r] = "run" BY <2>2 DEF Goto, RequestTypeOK
  <2>4. Progress(r)' BY <2>1, <2>2, <2>3, <1>o DEF Progress, Expected
  <2>5. QED BY <2>2, <2>4, <1>o, Advancing DEF OnStack
<1>11. CASE Shutdown
  <2>1. machine = Expected /\ UNCHANGED <<pc, result, ledger, machine>> /\ NothingOpen
    BY <1>11, <1>m DEF Shutdown, requestVars
  <2>2. ~HasCopy' BY <1>11 DEF Shutdown, DiscardSnapshot, HasCopy
  <2>3. QED BY <2>1, <2>2 DEF TransactionInv, NothingOpen, IsOpen, Expected
<1>12. CASE Store \/ UNCHANGED vars
  <2>1. UNCHANGED <<pc, result, ledger, machine, snapshot, disk>>
    BY <1>12 DEF Store, vars, requestVars, localVars
  <2>2. QED
    BY <2>1 DEF TransactionInv, NothingOpen, IsOpen, Expected, Progress, HasCopy
<1>13. QED
  BY <1>1, <1>2, <1>3, <1>4, <1>5, <1>6, <1>7, <1>8, <1>9, <1>10, <1>11, <1>12 DEF Next

(* The transaction invariant holds initially.                              *)
LEMMA TransactionInit == Init => TransactionInv
BY DEF Init, RequestInit, TransactionInv, IsOpen, NothingOpen, OnStack, HasCopy,
   Expected, Fresh

(* The noRollback option never changes.                                    *)
LEMMA NoRollbackIsConstant == Next => UNCHANGED noRollback
BY DEF Next, BeginDirect, Begin, BeginThrows, Send, Run, CallThrows, Commit,
   CommitThrows, RollbackNothing, Rollback, RollbackThrows, Caller, Shutdown,
   Store, localVars

(* A careful caller finds the machine, whenever no request is open, as its *)
(* accepted inputs left it.                                                *)
THEOREM AllOrNothingHolds ==
    ASSUME CarefulUse
    PROVE  Spec => []AllOrNothing
<1> DEFINE Inv == noRollback \/ TransactionInv
<1>1. Init => Inv BY TransactionInit
<1>2. TypeOK /\ DurableInv /\ Inv /\ [Next]_vars => Inv'
  BY TransactionStep, NoRollbackIsConstant DEF vars, localVars
<1>3. Inv => AllOrNothing BY DEF TransactionInv, AllOrNothing
<1>4. QED BY <1>1, <1>2, <1>3, TypeCorrect, DurableInvariant, PTL DEF Spec

---------------------------------------------------------------------------
(* The local rollups machine implements the ledger.                        *)

(* Initial states are initial states of the ledger.                        *)
LEMMA LedgerInit == Init => Ledger!Init
BY DEF Init, RequestInit, Ledger!Init, CommittedState, HasCopy, Outcome, Fresh,
   Requests, Ledger!Requests

(* While the transaction invariant holds the committed state is the ledger *)
(* of accepted inputs.                                                     *)
LEMMA CommittedIsLedger ==
    ASSUME TypeOK, TransactionInv
    PROVE  CommittedState = ledger
<1>n. None \notin Requests BY NoneIsNoRequest
<1>e. Usable(Expected) BY ExpectedMachine DEF TypeOK
<1>1. CASE NothingOpen
  BY <1>1 DEF TransactionInv, CommittedState, Expected
<1>2. ASSUME NEW r \in Requests, IsOpen(r) PROVE CommittedState = ledger
  <2>1. snapshot = r /\ disk[snapshot] = Expected
    BY <1>2 DEF TransactionInv, Progress
  <2>2. HasCopy BY <2>1, <1>n, <1>e DEF HasCopy
  <2>3. QED BY <2>1, <2>2 DEF CommittedState, Expected
<1>3. QED BY <1>1, <1>2 DEF NothingOpen

(* How one step changes the outcomes and the ledger.                       *)
LEMMA LedgerStep ==
    ASSUME TypeOK, TransactionInv, CarefulUse, ~noRollback, [Next]_vars
    PROVE  \/ UNCHANGED <<ledger, Outcome>>
           \/ \E r \in Requests :
                /\ Outcome[r] = "none"
                /\ \/ /\ r \in Inputs
                      /\ Outcome' = [Outcome EXCEPT ![r] = "accepted"]
                      /\ ledger' = Append(ledger, r)
                   \/ /\ \E why \in Ledger!Refusals :
                            Outcome' = [Outcome EXCEPT ![r] = why]
                      /\ ledger' = ledger
<1> DEFINE Goal ==
      \/ UNCHANGED <<ledger, Outcome>>
      \/ \E r \in Requests :
           /\ Outcome[r] = "none"
           /\ \/ /\ r \in Inputs
                 /\ Outcome' = [Outcome EXCEPT ![r] = "accepted"]
                 /\ ledger' = Append(ledger, r)
              \/ /\ \E why \in Ledger!Refusals :
                       Outcome' = [Outcome EXCEPT ![r] = why]
                 /\ ledger' = ledger
<1> USE DEF TypeOK, RequestTypeOK
<1>1. ASSUME NEW r \in Requests, Throw(r), pc[r] # "settled" PROVE Goal
  <2>1. Outcome[r] = "none" BY <1>1 DEF Outcome
  <2>2. Outcome' = [Outcome EXCEPT ![r] = "error"] BY <1>1 DEF Throw, Goto, Outcome
  <2>3. ledger' = ledger BY <1>1 DEF Throw
  <2>4. "error" \in Ledger!Refusals BY DEF Ledger!Refusals
  <2>5. QED BY <2>1, <2>2, <2>3, <2>4
<1>2. ASSUME NEW r \in Requests, NEW to, to # "settled", pc[r] # "settled",
             Goto(r, to), UNCHANGED <<result, ledger>>
      PROVE  Goal
  <2>1. Outcome' = Outcome BY <1>2 DEF Goto, Outcome
  <2>2. QED BY <1>2, <2>1
<1>3. ASSUME NEW r \in Requests, Settled(r), pc[r] # "settled",
             result[r] = "accepted", r \in Inputs
      PROVE  Goal
  <2>1. Outcome[r] = "none" BY <1>3 DEF Outcome
  <2>2. Outcome' = [Outcome EXCEPT ![r] = "accepted"] BY <1>3 DEF Settled, Goto, Outcome
  <2>3. ledger' = Append(ledger, r) BY <1>3 DEF Settled
  <2>4. QED BY <1>3, <2>1, <2>2, <2>3
<1>4. ASSUME NEW r \in Requests, Settled(r), pc[r] # "settled",
             result[r] \in {"answered", "rejected", "fatal"}
      PROVE  Goal
  <2>1. Outcome[r] = "none" BY <1>4 DEF Outcome
  <2>2. Outcome' = [Outcome EXCEPT ![r] = result[r]] BY <1>4 DEF Settled, Goto, Outcome
  <2>3. ledger' = ledger BY <1>4 DEF Settled
  <2>4. result[r] \in Ledger!Refusals BY <1>4 DEF Ledger!Refusals
  <2>5. QED BY <2>1, <2>2, <2>3, <2>4
<1>5. ASSUME NEW r \in Requests,
             BeginThrows(r) \/ CallThrows(r) \/ CommitThrows(r) \/ RollbackThrows(r)
      PROVE  Goal
  BY <1>1, <1>5 DEF BeginThrows, CallThrows, CommitThrows, RollbackThrows
<1>6. ASSUME NEW r \in Requests, BeginDirect(r) \/ Begin(r) \/ Send(r) \/ Caller(r)
      PROVE  Goal
  BY <1>2, <1>6 DEF BeginDirect, Begin, Send, Caller, Started, Sent, Resume, Leave
<1>7. ASSUME NEW r \in Requests, Run(r) PROVE Goal
  <2>1. PICK break : Event(r, machine, break) \/ Ending(r, machine, break)
    BY <1>7 DEF Run
  <2>2. CASE Event(r, machine, break)
    BY <2>2, <1>7, <1>2 DEF Event, Run, Outcome
  <2>3. CASE Ending(r, machine, break)
    <3>1. Outcome' = Outcome /\ ledger' = ledger
      BY <2>3, <1>7 DEF Ending, Run, Goto, Outcome
    <3>2. QED BY <3>1
  <2>4. QED BY <2>1, <2>2, <2>3
<1>8. ASSUME NEW r \in Requests, Commit(r) PROVE Goal
  <2>1. Progress(r) BY <1>8 DEF Commit, TransactionInv, IsOpen, OnStack
  <2>2. QED BY <1>8, <1>3, <2>1 DEF Commit, Progress
<1>9. ASSUME NEW r \in Requests, RollbackNothing(r) \/ Rollback(r) PROVE Goal
  <2>1. Progress(r) /\ pc[r] = "rollback"
    BY <1>9 DEF RollbackNothing, Rollback, TransactionInv, IsOpen, OnStack
  <2>2. QED BY <1>9, <1>4, <2>1 DEF RollbackNothing, Rollback, Progress
<1>10. CASE Shutdown \/ Store \/ UNCHANGED vars
  BY <1>10 DEF Shutdown, Store, vars, requestVars, Outcome
<1>11. QED
  BY <1>5, <1>6, <1>7, <1>8, <1>9, <1>10 DEF Next

(* For a careful caller, the local rollups machine behaves as the ledger:  *)
(* accepted inputs are applied atomically, everything else leaves no       *)
(* trace.                                                                  *)
THEOREM LedgerImplemented ==
    ASSUME CarefulUse, NoRollbackChoices = {FALSE}
    PROVE  Spec => ImplementsLedger
<1> DEFINE Inv == TransactionInv /\ ~noRollback
<1>1. Init => Inv BY TransactionInit DEF Init
<1>2. TypeOK /\ DurableInv /\ Inv /\ [Next]_vars => Inv'
  BY TransactionStep, NoRollbackIsConstant DEF vars, localVars
<1> DEFINE Same == CommittedState = ledger
<1>s. TypeOK /\ Inv => Same BY CommittedIsLedger
<1>3. TypeOK /\ Inv /\ Same /\ Same' /\ [Next]_vars => [Ledger!Next]_Ledger!vars
  <2> SUFFICES ASSUME TypeOK, Inv, Same, Same', [Next]_vars
      PROVE  [Ledger!Next]_Ledger!vars
    OBVIOUS
  <2>1. CommittedState = ledger /\ CommittedState' = ledger'
    OBVIOUS
  <2>2. CASE UNCHANGED <<ledger, Outcome>>
    BY <2>1, <2>2 DEF Ledger!vars
  <2>3. ASSUME NEW r \in Requests, Outcome[r] = "none", r \in Inputs,
               Outcome' = [Outcome EXCEPT ![r] = "accepted"],
               ledger' = Append(ledger, r)
        PROVE  Ledger!Next
    BY <2>1, <2>3 DEF Ledger!Next, Ledger!Accept
  <2>4. ASSUME NEW r \in Requests, Outcome[r] = "none",
               NEW why \in Ledger!Refusals, Outcome' = [Outcome EXCEPT ![r] = why],
               ledger' = ledger
        PROVE  Ledger!Next
    BY <2>1, <2>4 DEF Ledger!Next, Ledger!Refuse, Requests, Ledger!Requests
  <2>5. QED BY <2>2, <2>3, <2>4, LedgerStep
<1>4. QED
  BY <1>1, <1>2, <1>s, <1>3, TypeCorrect, DurableInvariant, LedgerInit, PTL
     DEF Spec, ImplementsLedger, Ledger!Spec

---------------------------------------------------------------------------
(* A careful caller hears of its own request only.                         *)

(* What callers have heard, and whom the machine serves while one waits.   *)
OwnInv ==
    \A r \in Requests :
        /\ heard[r] \subseteq {r}
        /\ pc[r] \in {"run", "suspended"} => Serving(machine) = r

(* Delivering a response that the machine waits for makes it serve the     *)
(* request; running does not change whom it serves.                        *)
LEMMA ServingAfter ==
    ASSUME NEW m \in Machine, NEW r \in Requests
    PROVE  /\ Delivers(m, r) => Serving(AfterResponse(m, r)) = r
           /\ \A break : Serving(AfterRun(m, break)) = Serving(m)
<1>1. Delivers(m, r) => Serving(AfterResponse(m, r)) = r
  <2> DEFINE s == m.handled
  <2>1. s \in Seq(Requests) BY DEF Machine
  <2> HIDE DEF s
  <2>2. /\ Append(s, r) # << >>
        /\ Len(Append(s, r)) = Len(s) + 1
        /\ Append(s, r)[Len(s) + 1] = r
    BY <2>1, AppendProperties
  <2>3. QED BY <2>2 DEF Serving, AfterResponse, s
<1>2. \A break : Serving(AfterRun(m, break)) = Serving(m)
  BY MachineSteps DEF Serving, AfterRun, Machine
<1>3. QED BY <1>1, <1>2

(* Each step of a careful use keeps callers hearing of their own request.  *)
LEMMA OwnStep ==
    ASSUME TypeOK, TransactionInv, OwnInv, CarefulUse, Oversized = {},
           ~noRollback, [Next]_vars
    PROVE  OwnInv'
<1> USE DEF TypeOK, RequestTypeOK, Goto
<1>m. MayCall => NothingOpen BY DEF MayCall, CarefulUse
<1>0. ASSUME NEW r \in Requests, NEW to, Goto(r, to), heard' = heard,
             UNCHANGED machine \/ \A q \in Requests \ {r} : ~IsOpen(q),
             to \in {"run", "suspended"} => Serving(machine') = r
      PROVE  OwnInv'
  BY <1>0 DEF OwnInv, Serving, IsOpen, OnStack
<1>1. ASSUME NEW r \in Requests, BeginDirect(r) \/ Begin(r) \/ BeginThrows(r)
      PROVE  OwnInv'
  BY <1>0, <1>1 DEF BeginDirect, Begin, BeginThrows, Started, Throw, localVars
<1>2. ASSUME NEW r \in Requests, Send(r) PROVE OwnInv'
  <2>1. IsOpen(r) /\ machine = Expected /\ \A q \in Requests : IsOpen(q) => q = r
    BY <1>2 DEF Send, TransactionInv, Progress, IsOpen, OnStack
  <2>2. Delivers(machine, r)
    BY <2>1 DEF Delivers, Expected, ManualYields
  <2>3. Serving(machine') = r BY <1>2, <2>2, ServingAfter DEF Send
  <2>4. QED BY <1>0, <1>2, <2>1, <2>3 DEF Send, Sent
<1>3. ASSUME NEW r \in Requests, Run(r) PROVE OwnInv'
  <2>1. PICK break \in CanBreak(machine) :
          /\ machine' = AfterRun(machine, break)
          /\ Event(r, machine, break) \/ Ending(r, machine, break)
    BY <1>3 DEF Run
  <2>2. Serving(machine) = r /\ pc[r] = "run" BY <1>3 DEF Run, OwnInv
  <2>3. Serving(machine') = r BY <2>1, <2>2, ServingAfter
  <2>4. ASSUME NEW q \in Requests PROVE heard'[q] \subseteq {q}
    BY <2>1, <2>2 DEF Event, Ending, OwnInv
  <2>5. ASSUME NEW q \in Requests, pc'[q] \in {"run", "suspended"}
        PROVE  Serving(machine') = q
    BY <2>1, <2>2, <2>3, <2>5 DEF Event, Ending, OwnInv
  <2>6. QED BY <2>4, <2>5 DEF OwnInv, Serving
<1>4. ASSUME NEW r \in Requests,
             CallThrows(r) \/ Commit(r) \/ CommitThrows(r) \/ RollbackNothing(r)
      PROVE  OwnInv'
  BY <1>0, <1>4 DEF CallThrows, Commit, CommitThrows, RollbackNothing, Throw, Settled,
     localVars
<1>5. ASSUME NEW r \in Requests, Rollback(r) \/ RollbackThrows(r) PROVE OwnInv'
  <2>1. \A q \in Requests \ {r} : ~IsOpen(q)
    BY <1>5 DEF Rollback, RollbackThrows, TransactionInv, IsOpen, OnStack
  <2>2. QED BY <1>0, <1>5, <2>1 DEF Rollback, RollbackThrows, Settled, Throw
<1>6. ASSUME NEW r \in Requests, Caller(r) PROVE OwnInv'
  <2>1. Resume(r) /\ UNCHANGED machine
    BY <1>6 DEF Caller, Leave, CarefulUse, localVars
  <2>2. Serving(machine') = r BY <2>1 DEF Resume, OwnInv, Serving
  <2>3. QED BY <1>0, <2>1, <2>2 DEF Resume
<1>7. CASE Shutdown \/ Store \/ UNCHANGED vars
  BY <1>7 DEF Shutdown, Store, vars, requestVars, localVars, OwnInv, Serving
<1>8. QED BY <1>1, <1>2, <1>3, <1>4, <1>5, <1>6, <1>7 DEF Next

(* With a machine that takes every request, each event and verdict a       *)
(* careful caller gets comes from the guest serving that very request.     *)
THEOREM OwnVerdictHolds ==
    ASSUME CarefulUse, Oversized = {}
    PROVE  Spec => []OwnVerdict
<1> DEFINE Inv == noRollback \/ (TransactionInv /\ OwnInv)
<1>1. Init => Inv
  <2>1. Init => OwnInv BY DEF Init, RequestInit, OwnInv
  <2>2. QED BY <2>1, TransactionInit
<1>2. TypeOK /\ DurableInv /\ Inv /\ [Next]_vars => Inv'
  <2>1. [Next]_vars => UNCHANGED noRollback
    BY NoRollbackIsConstant DEF vars, localVars
  <2>2. QED BY <2>1, TransactionStep, OwnStep
<1>3. Inv => OwnVerdict BY DEF OwnInv, OwnVerdict
<1>4. QED BY <1>1, <1>2, <1>3, TypeCorrect, DurableInvariant, PTL DEF Spec

---------------------------------------------------------------------------
(* What a careful caller stores can be resumed from.                       *)

(* The stored image is the machine after some of the accepted inputs.      *)
ImageInv ==
    Usable(image) =>
        /\ image.yield = "accepted"
        /\ \E n \in 0..Len(ledger) : image.handled = SubSeq(ledger, 1, n)

(* Whatever was a prefix of the ledger stays one when an input is added.   *)
LEMMA PrefixOfLonger ==
    ASSUME NEW l \in Seq(Inputs), NEW r \in Inputs, NEW n \in 0..Len(l)
    PROVE  n \in 0..Len(Append(l, r)) /\ SubSeq(Append(l, r), 1, n) = SubSeq(l, 1, n)
<1>1. /\ Append(l, r) \in Seq(Inputs)
      /\ Len(Append(l, r)) = Len(l) + 1
      /\ \A i \in 1..Len(l) : Append(l, r)[i] = l[i]
  BY AppendProperties
<1>2. Len(l) \in Nat BY LenProperties
<1>3. \A i \in 1..n : Append(l, r)[i] = l[i] /\ l[i] \in Inputs
  BY <1>1, <1>2, ElementOfSeq
<1>4. /\ SubSeq(l, 1, n) \in Seq(Inputs)
      /\ Len(SubSeq(l, 1, n)) = n
      /\ \A i \in 1..n : SubSeq(l, 1, n)[i] = l[i]
  BY <1>2, <1>3, SubSeqProperties
<1>5. /\ SubSeq(Append(l, r), 1, n) \in Seq(Inputs)
      /\ Len(SubSeq(Append(l, r), 1, n)) = n
      /\ \A i \in 1..n : SubSeq(Append(l, r), 1, n)[i] = l[i]
  BY <1>2, <1>3, SubSeqProperties
<1>6. SubSeq(Append(l, r), 1, n) = SubSeq(l, 1, n)
  BY <1>4, <1>5, SeqEqual
<1>7. QED BY <1>1, <1>2, <1>6

(* Each step of a careful use keeps the stored image resumable.            *)
LEMMA ImageStep ==
    ASSUME TypeOK, TransactionInv, ImageInv, CarefulUse, ~noRollback, [Next]_vars
    PROVE  ImageInv'
<1>1. CASE Store
  <2>1. machine = Expected
    BY <1>1 DEF Store, MayCall, CarefulUse, TransactionInv
  <2>2. image' = Expected /\ ledger' = ledger
    BY <1>1, <2>1 DEF Store, requestVars
  <2>3. ledger \in Seq(Inputs) BY DEF TypeOK, RequestTypeOK
  <2>4. Len(ledger) \in 0..Len(ledger) /\ SubSeq(ledger, 1, Len(ledger)) = ledger
    BY <2>3, SubSeqFull, LenProperties
  <2>5. image'.yield = "accepted" /\ image'.handled = ledger
    BY <2>2 DEF Expected
  <2>6. \E n \in 0..Len(ledger') : image'.handled = SubSeq(ledger', 1, n)
    BY <2>2, <2>4, <2>5, Zenon
  <2>7. QED BY <2>5, <2>6 DEF ImageInv
<1>2. CASE ~Store
  <2>1. image' = image
    BY <1>2 DEF Next, BeginDirect, Begin, BeginThrows, Send, Run, CallThrows, Commit,
       CommitThrows, RollbackNothing, Rollback, RollbackThrows, Caller, Shutdown,
       localVars, vars
  <2>2. ledger' = ledger \/ \E r \in Inputs : ledger' = Append(ledger, r)
    BY LedgerStep
  <2>3. CASE ledger' = ledger BY <2>1, <2>3 DEF ImageInv, Usable
  <2>4. ASSUME NEW r \in Inputs, ledger' = Append(ledger, r) PROVE ImageInv'
    <3>1. SUFFICES ASSUME Usable(image')
          PROVE  /\ image'.yield = "accepted"
                 /\ \E n \in 0..Len(ledger') : image'.handled = SubSeq(ledger', 1, n)
      BY DEF ImageInv
    <3>2. image.yield = "accepted" BY <2>1, <3>1 DEF ImageInv
    <3>3. PICK n \in 0..Len(ledger) : image.handled = SubSeq(ledger, 1, n)
      BY <2>1, <3>1 DEF ImageInv
    <3>4. n \in 0..Len(ledger') /\ SubSeq(ledger', 1, n) = SubSeq(ledger, 1, n)
      BY <2>4, PrefixOfLonger DEF TypeOK, RequestTypeOK
    <3>5. QED BY <2>1, <3>2, <3>3, <3>4
  <2>5. QED BY <2>2, <2>3, <2>4
<1>3. QED BY <1>1, <1>2

(* An image a careful caller stores is waiting for a request and holds     *)
(* accepted inputs only, in the order in which they were accepted.         *)
THEOREM StoredImageHolds ==
    ASSUME CarefulUse
    PROVE  Spec => []StoredImageIsResumable
<1> DEFINE Inv == noRollback \/ (TransactionInv /\ ImageInv)
<1>1. Init => Inv
  <2>1. Init => ImageInv BY MachineValues DEF Init, ImageInv
  <2>2. QED BY <2>1, TransactionInit
<1>2. TypeOK /\ DurableInv /\ Inv /\ [Next]_vars => Inv'
  <2>1. [Next]_vars => UNCHANGED noRollback
    BY NoRollbackIsConstant DEF vars, localVars
  <2>2. QED BY <2>1, TransactionStep, ImageStep
<1>3. Inv => StoredImageIsResumable BY DEF ImageInv, StoredImageIsResumable
<1>4. QED BY <1>1, <1>2, <1>3, TypeCorrect, DurableInvariant, PTL DEF Spec

---------------------------------------------------------------------------
(* Directories do not pile up, for all uses.                               *)

Failures == {r \in Requests : Outcome[r] = "error"}

LeftoverInv ==
    /\ IsFiniteSet(Leftovers)
    /\ IsFiniteSet(Failures)
    /\ Cardinality(Leftovers) <= Cardinality(Failures)

(* A request that closes its transaction has not failed.                   *)
DecidedInv ==
    \A r \in Requests : pc[r] \in {"commit", "rollback"} => result[r] # "error"

(* Each step keeps the requests that close their transactions decided.     *)
LEMMA DecidedStep ==
    ASSUME TypeOK, DecidedInv, [Next]_vars
    PROVE  DecidedInv'
<1> USE DEF TypeOK, RequestTypeOK, DecidedInv, Goto
<1>1. ASSUME NEW r \in Requests, Run(r) PROVE DecidedInv'
  BY <1>1 DEF Run, Event, Ending, Verdict
<1>2. ASSUME NEW r \in Requests,
             BeginDirect(r) \/ Begin(r) \/ BeginThrows(r) \/ Send(r) \/ CallThrows(r)
             \/ Caller(r)
      PROVE  DecidedInv'
  BY <1>2 DEF BeginDirect, Begin, BeginThrows, Send, CallThrows, Caller, Started,
     Sent, Throw, Resume, Leave
<1>3. ASSUME NEW r \in Requests,
             Commit(r) \/ CommitThrows(r) \/ RollbackNothing(r) \/ Rollback(r)
             \/ RollbackThrows(r)
      PROVE  DecidedInv'
  BY <1>3 DEF Commit, CommitThrows, RollbackNothing, Rollback, RollbackThrows, Throw,
     Settled
<1>4. CASE Shutdown \/ Store \/ UNCHANGED vars
  BY <1>4 DEF Shutdown, Store, vars, requestVars
<1>5. QED BY <1>1, <1>2, <1>3, <1>4 DEF Next

(* A step leaves no new copy behind, or it is the one new failure.         *)
LEMMA LeftoverChanges ==
    ASSUME TypeOK, DecidedInv, [Next]_vars
    PROVE  \/ /\ Leftovers' \subseteq Leftovers
              /\ Failures' = Failures
           \/ \E r \in Requests \ Failures :
                /\ Failures' = Failures \cup {r}
                /\ \E q : Leftovers' \subseteq Leftovers \cup {q}
<1> DEFINE Kept == Leftovers' \subseteq Leftovers
           Quiet == Failures' = Failures
           Goal == \/ Kept /\ Quiet
                   \/ \E r \in Requests \ Failures :
                        /\ Failures' = Failures \cup {r}
                        /\ \E q : Leftovers' \subseteq Leftovers \cup {q}
<1> USE DEF TypeOK
<1>n. None \notin Requests BY NoneIsNoRequest
<1>g. ~Usable(Gone) BY MachineValues
<1>d. Discarded \in [Requests -> Machine] BY MachineValues DEF Discarded
<1>q. UNCHANGED Outcome => Quiet BY DEF Failures
<1>k. UNCHANGED <<snapshot, disk>> => Kept BY DEF Leftovers
<1>x. snapshot' = None /\ disk' = Discarded => Kept
  BY <1>n, <1>g, <1>d DEF Leftovers, Discarded
<1>t. ASSUME NEW r \in Requests, pc[r] # "settled", Throw(r)
      PROVE  r \notin Failures /\ Failures' = Failures \cup {r}
  <2>1. Outcome[r] = "none" /\ Outcome' = [Outcome EXCEPT ![r] = "error"]
    BY <1>t, OutcomeSteps DEF Answered
  <2>2. QED BY <2>1 DEF Failures, Outcome
<1>s. ASSUME NEW r \in Requests, pc[r] # "settled", Settled(r), result[r] # "error"
      PROVE  Quiet
  <2>1. Outcome[r] = "none" /\ Outcome' = [Outcome EXCEPT ![r] = result[r]]
    BY <1>s, OutcomeSteps DEF Answered
  <2>2. QED BY <1>s, <2>1 DEF Failures, Outcome
<1>1. ASSUME NEW r \in Requests, BeginDirect(r) \/ Caller(r) PROVE Goal
  BY <1>1, <1>q, <1>k, OutcomeSteps DEF BeginDirect, Caller, Resume, Leave, localVars
<1>2. ASSUME NEW r \in Requests, Begin(r) PROVE Goal
  <2>1. Quiet BY <1>2, <1>q, OutcomeSteps DEF Begin
  <2>2. snapshot' = r /\ disk' = [Discarded EXCEPT ![r] = machine] BY <1>2 DEF Begin
  <2>3. Kept BY <2>2, <1>n, <1>g, <1>d DEF Leftovers, Discarded
  <2>4. QED BY <2>1, <2>3
<1>3. ASSUME NEW r \in Requests, BeginThrows(r) PROVE Goal
  <2>1. r \notin Failures /\ Failures' = Failures \cup {r}
    BY <1>3, <1>t DEF BeginThrows
  <2>2. CASE DiscardThrows
    BY <2>1, <2>2, <1>k DEF DiscardThrows
  <2>3. CASE snapshot' = r /\ disk' = Discarded
    <3>1. Kept BY <2>3, <1>n, <1>g, <1>d DEF Leftovers, Discarded
    <3>2. QED BY <2>1, <3>1
  <2>4. QED BY <1>3, <2>2, <2>3 DEF BeginThrows
<1>4. ASSUME NEW r \in Requests, Send(r) PROVE Goal
  BY <1>4, <1>q, <1>k, OutcomeSteps DEF Send
<1>5. ASSUME NEW r \in Requests, Run(r) PROVE Goal
  BY <1>5, <1>q, <1>k, OutcomeSteps DEF Run
<1>6. ASSUME NEW r \in Requests, CallThrows(r) \/ CommitThrows(r) PROVE Goal
  BY <1>6, <1>t, <1>k DEF CallThrows, CommitThrows, DiscardThrows, localVars
<1>7. ASSUME NEW r \in Requests, Commit(r) PROVE Goal
  BY <1>7, <1>s, <1>x DEF Commit, DiscardSnapshot, DecidedInv
<1>8. ASSUME NEW r \in Requests, RollbackNothing(r) PROVE Goal
  BY <1>8, <1>s, <1>k DEF DecidedInv, RollbackNothing, localVars
<1>9. ASSUME NEW r \in Requests, Rollback(r) PROVE Goal
  BY <1>9, <1>s, <1>x DEF Rollback, DiscardSnapshot, DecidedInv
<1>10. ASSUME NEW r \in Requests, RollbackThrows(r) PROVE Goal
  <2>1. r \notin Failures /\ Failures' = Failures \cup {r}
    BY <1>10, <1>t DEF RollbackThrows
  <2>2. Leftovers' \subseteq Leftovers \cup {snapshot}
    BY <1>10 DEF RollbackThrows, Leftovers
  <2>3. QED BY <2>1, <2>2
<1>11. CASE Shutdown
  BY <1>11, <1>q, <1>x DEF Shutdown, DiscardSnapshot, requestVars, Outcome
<1>12. CASE Store \/ UNCHANGED vars
  BY <1>12, <1>q, <1>k DEF Store, vars, requestVars, localVars, Outcome
<1>13. QED
  BY <1>1, <1>2, <1>3, <1>4, <1>5, <1>6, <1>7, <1>8, <1>9, <1>10, <1>11, <1>12 DEF Next

(* Whatever callers do and whichever calls throw, at most one directory is *)
(* left behind for each request that failed with an error.                 *)
THEOREM LeftoversHold == Spec => []LeftoversAreFailures
<1>1. Init => LeftoverInv /\ DecidedInv
  <2>1. Init => Leftovers = {} /\ Failures = {}
    BY MachineValues DEF Init, RequestInit, Leftovers, Failures, Outcome
  <2>2. Init => DecidedInv BY DEF Init, RequestInit, DecidedInv
  <2>3. QED BY <2>1, <2>2, FS_EmptySet DEF LeftoverInv
<1>2. TypeOK /\ DecidedInv /\ LeftoverInv /\ [Next]_vars => (LeftoverInv /\ DecidedInv)'
  <2> SUFFICES ASSUME TypeOK, DecidedInv, LeftoverInv, [Next]_vars
      PROVE  LeftoverInv'
    BY DecidedStep
  <2>c. Cardinality(Leftovers) \in Nat /\ Cardinality(Failures) \in Nat
    BY FS_CardinalityType DEF LeftoverInv
  <2>1. CASE Leftovers' \subseteq Leftovers /\ Failures' = Failures
    <3>1. /\ IsFiniteSet(Leftovers')
          /\ Cardinality(Leftovers') <= Cardinality(Leftovers)
      BY <2>1, FS_Subset DEF LeftoverInv
    <3>2. Cardinality(Leftovers') \in Nat BY <3>1, FS_CardinalityType
    <3>3. QED BY <2>1, <2>c, <3>1, <3>2 DEF LeftoverInv
  <2>2. ASSUME NEW r \in Requests \ Failures, Failures' = Failures \cup {r},
               NEW q, Leftovers' \subseteq Leftovers \cup {q}
        PROVE  LeftoverInv'
    <3>1. /\ IsFiniteSet(Failures')
          /\ Cardinality(Failures') = Cardinality(Failures) + 1
      BY <2>2, FS_AddElement DEF LeftoverInv
    <3>2. /\ IsFiniteSet(Leftovers \cup {q})
          /\ Cardinality(Leftovers \cup {q}) \in {Cardinality(Leftovers), Cardinality(Leftovers) + 1}
      BY FS_AddElement DEF LeftoverInv
    <3>3. /\ IsFiniteSet(Leftovers')
          /\ Cardinality(Leftovers') <= Cardinality(Leftovers \cup {q})
      BY <2>2, <3>2, FS_Subset
    <3>4. Cardinality(Leftovers') \in Nat BY <3>3, FS_CardinalityType
    <3>5. QED BY <2>c, <3>1, <3>2, <3>3, <3>4 DEF LeftoverInv
  <2>3. QED BY <2>1, <2>2, LeftoverChanges
<1>3. LeftoverInv => LeftoversAreFailures
  BY DEF LeftoverInv, LeftoversAreFailures, Failures
<1>4. QED BY <1>1, <1>2, <1>3, TypeCorrect, PTL DEF Spec
=============================================================================
