------------------------ MODULE RemoteRollups_proofs -----------------------
(***************************************************************************)
(* Theorems about RemoteRollups, for every set of requests, any interleaving*)
(* of callers and any choice of calls that throw.                          *)
(***************************************************************************)
EXTENDS RemoteRollups, TLAPS

---------------------------------------------------------------------------
(* Values of machines.                                                     *)

(* A fresh, an absent and an expected machine are machines.                *)
LEMMA MachineValues ==
    /\ Fresh \in Machine
    /\ Gone \in Machine
    /\ ~Usable(Gone)
BY DEF Fresh, Gone, Machine, Usable, FixedPoints, ManualYields

(* Delivering a response and running keep a machine a machine, and cannot  *)
(* make it go away.                                                        *)
LEMMA MachineSteps ==
    ASSUME NEW m \in Machine, Usable(m)
    PROVE  /\ \A r \in Requests :
                AfterResponse(m, r) \in Machine /\ Usable(AfterResponse(m, r))
           /\ \A break \in CanBreak(m) :
                AfterRun(m, break) \in Machine /\ Usable(AfterRun(m, break))
           /\ \A break : AfterRun(m, break).handled = m.handled
<1>1. \A r \in Requests :
        AfterResponse(m, r) \in Machine /\ Usable(AfterResponse(m, r))
  BY DEF AfterResponse, Delivers, Machine, Usable
<1>2. \A break \in CanBreak(m) :
        AfterRun(m, break) \in Machine /\ Usable(AfterRun(m, break))
  BY DEF AfterRun, CanBreak, Machine, Usable, FixedPoints, ManualYields
<1>3. \A break : AfterRun(m, break).handled = m.handled
  BY DEF AfterRun, Machine
<1>4. QED BY <1>1, <1>2, <1>3

(* The request a machine is serving is a request, if there is one.         *)
LEMMA ServingType ==
    ASSUME NEW m \in Machine
    PROVE  Serving(m) \in Requests \cup {None}
BY DEF Serving, Machine

---------------------------------------------------------------------------
(* The generators' bookkeeping.                                            *)

(* Initially the bookkeeping of the generators is well typed.              *)
LEMMA RequestTypeInit == RequestInit => RequestTypeOK
BY DEF RequestInit, RequestTypeOK, Results

(* The steps of a generator's body keep its bookkeeping well typed.        *)
LEMMA RequestTypeSteps ==
    ASSUME RequestTypeOK, NEW r \in Requests
    PROVE  /\ Throw(r) => RequestTypeOK'
           /\ Started(r) => RequestTypeOK'
           /\ Sent(r) => RequestTypeOK'
           /\ Resume(r) => RequestTypeOK'
           /\ Leave(r) => RequestTypeOK'
<1> USE DEF RequestTypeOK, OnStack, Results, Goto
<1>1. Throw(r) => RequestTypeOK' BY DEF Throw
<1>2. Started(r) => RequestTypeOK' BY DEF Started
<1>3. Sent(r) => RequestTypeOK' BY DEF Sent
<1>4. Resume(r) => RequestTypeOK' BY DEF Resume
<1>5. Leave(r) => RequestTypeOK' BY DEF Leave
<1>6. QED BY <1>1, <1>2, <1>3, <1>4, <1>5

(* A break of run, an event or an ending, keeps it well typed.             *)
LEMMA RequestTypeRun ==
    ASSUME RequestTypeOK, NEW r \in Requests, NEW m \in Machine, NEW break
    PROVE  Event(r, m, break) \/ Ending(r, m, break) => RequestTypeOK'
<1> USE ServingType DEF RequestTypeOK, Goto
<1>1. Event(r, m, break) => RequestTypeOK' BY DEF Event, OnStack
<1>2. Ending(r, m, break) => RequestTypeOK'
  BY DEF Ending, Verdict, OnStack, Results
<1>3. QED BY <1>1, <1>2

(* Only inputs are ever accepted.                                          *)
OnlyInputsAccepted == \A r \in Requests : result[r] = "accepted" => r \in Inputs

(* Closing a transaction keeps it well typed: only inputs enter the ledger.*)
LEMMA RequestTypeSettled ==
    ASSUME RequestTypeOK, OnlyInputsAccepted, NEW r \in Requests
    PROVE  Settled(r) => RequestTypeOK'
BY DEF Settled, RequestTypeOK, OnlyInputsAccepted, OnStack, Goto

---------------------------------------------------------------------------
(* What callers learn.                                                     *)

Answered(r, why) ==
    /\ Outcome[r] = "none"
    /\ Outcome' = [Outcome EXCEPT ![r] = why]

(* A request is answered when its generator ends, and only then.           *)
LEMMA OutcomeSteps ==
    ASSUME RequestTypeOK, NEW r \in Requests, pc[r] # "settled"
    PROVE  /\ Throw(r) => Answered(r, "error") /\ ledger' = ledger
           /\ Settled(r) => Answered(r, result[r])
           /\ Started(r) \/ Sent(r) \/ Resume(r) \/ Leave(r)
              => UNCHANGED <<ledger, Outcome>>
           /\ \A m, break : Event(r, m, break) \/ Ending(r, m, break)
                            => UNCHANGED <<ledger, Outcome>>
<1> USE DEF RequestTypeOK, Goto, Outcome
<1>1. Throw(r) => Answered(r, "error") /\ ledger' = ledger BY DEF Throw, Answered
<1>2. Settled(r) => Answered(r, result[r]) BY DEF Settled, Answered
<1>3. Started(r) \/ Sent(r) \/ Resume(r) \/ Leave(r) => UNCHANGED <<ledger, Outcome>>
  BY DEF Started, Sent, Resume, Leave
<1>4. \A m, break : Event(r, m, break) => UNCHANGED <<ledger, Outcome>>
  BY DEF Event
<1>5. \A m, break : Ending(r, m, break) => UNCHANGED <<ledger, Outcome>>
  BY DEF Ending
<1>6. QED BY <1>1, <1>2, <1>3, <1>4, <1>5

---------------------------------------------------------------------------
(* Type correctness, for all uses.                                         *)

(* Outcomes are "accepted" for inputs only.                                *)
LEMMA OnlyInputsAcceptedStep ==
    ASSUME TypeOK, OnlyInputsAccepted, [Next]_vars
    PROVE  OnlyInputsAccepted'
<1> USE DEF TypeOK, RequestTypeOK, OnlyInputsAccepted
<1>1. CASE UNCHANGED result BY <1>1
<1>2. ASSUME NEW r \in Requests, Throw(r) PROVE OnlyInputsAccepted'
  BY <1>2 DEF Throw
<1>3. ASSUME NEW r \in Requests, NEW m, NEW break, Ending(r, m, break)
      PROVE  OnlyInputsAccepted'
  BY <1>3 DEF Ending, Verdict
<1>4. QED
  BY <1>1, <1>2, <1>3 DEF Next, vars, requestVars, BeginDirect, Begin, BeginThrows,
     Send, Run, CallThrows, Commit, Rollback, CloseDirect, CloseThrows, Caller,
     Shutdown, Store, Started, Sent, Event, Settled, Resume, Leave

(* Each step keeps every variable in its type.                             *)
LEMMA TypeOKStep ==
    ASSUME TypeOK, OnlyInputsAccepted, [Next]_vars
    PROVE  TypeOK'
<1> USE MachineValues, RequestTypeSteps, RequestTypeSettled DEF TypeOK
<1>s. \A s \in Servers : servers[s] \in Machine OBVIOUS
<1>1. ASSUME NEW r \in Requests,
             BeginDirect(r) \/ Begin(r) \/ BeginThrows(r)
      PROVE  TypeOK'
  BY <1>1, <1>s DEF BeginDirect, Begin, BeginThrows, remoteVars, Servers
<1>2. ASSUME NEW r \in Requests, Send(r) PROVE TypeOK'
  <2>1. AfterResponse(servers[target[r]], r) \in Machine
    BY <1>2, <1>s, MachineSteps DEF Send, Alive
  <2>2. QED BY <1>2, <2>1 DEF Send
<1>3. ASSUME NEW r \in Requests, Run(r) PROVE TypeOK'
  <2>1. PICK break \in CanBreak(servers[target[r]]) :
          /\ servers' = [servers EXCEPT ![target[r]] = AfterRun(servers[target[r]], break)]
          /\ Event(r, servers[target[r]], break) \/ Ending(r, servers[target[r]], break)
    BY <1>3 DEF Run
  <2>2. AfterRun(servers[target[r]], break) \in Machine
    BY <1>3, <1>s, MachineSteps DEF Run, Alive
  <2>3. RequestTypeOK' BY <2>1, <1>s, RequestTypeRun
  <2>4. QED BY <1>3, <2>1, <2>2, <2>3 DEF Run
<1>4. ASSUME NEW r \in Requests,
             CallThrows(r) \/ Commit(r) \/ Rollback(r) \/ CloseDirect(r)
      PROVE  TypeOK'
  BY <1>4 DEF CallThrows, Commit, Rollback, CloseDirect, remoteVars
<1>5. ASSUME NEW r \in Requests, CloseThrows(r) PROVE TypeOK'
  BY <1>5 DEF CloseThrows
<1>6. ASSUME NEW r \in Requests, Caller(r) PROVE TypeOK'
  BY <1>6 DEF Caller, remoteVars
<1>7. CASE Shutdown \/ Store
  BY <1>7, <1>s DEF Shutdown, Store, requestVars, RequestTypeOK
<1>8. CASE UNCHANGED vars
  BY <1>8 DEF vars, remoteVars, requestVars, RequestTypeOK
<1>9. QED BY <1>1, <1>2, <1>3, <1>4, <1>5, <1>6, <1>7, <1>8 DEF Next

(* Every variable keeps its type whatever callers do and whichever calls   *)
(* throw.                                                                  *)
THEOREM TypeCorrect == Spec => [](TypeOK /\ OnlyInputsAccepted)
<1>1. Init => TypeOK /\ OnlyInputsAccepted
  BY RequestTypeInit, MachineValues, NoRollbackAssumption
     DEF Init, TypeOK, RequestInit, OnlyInputsAccepted, Servers
<1>2. TypeOK /\ OnlyInputsAccepted /\ [Next]_vars => (TypeOK /\ OnlyInputsAccepted)'
  BY TypeOKStep, OnlyInputsAcceptedStep
<1>3. QED BY <1>1, <1>2, PTL DEF Spec

---------------------------------------------------------------------------
(* Isolation, own verdicts and accountable servers, for all uses.          *)

InLedger(x) == \E k \in DOMAIN ledger : ledger[k] = x

(* What holds of the fork an open request works on.                        *)
Fork(r) ==
    /\ target[r] = r
    /\ \A n \in DOMAIN servers[r].handled :
          servers[r].handled[n] = r \/ InLedger(servers[r].handled[n])
    /\ pc[r] = "send" => Committed(servers[r])
    /\ pc[r] = "commit" => servers[r].yield = "accepted" /\ result[r] = "accepted"
    /\ pc[r] = "rollback" => result[r] \in {"answered", "rejected", "fatal"}
    /\ pc[r] \in {"run", "suspended"} /\ r \notin Oversized => Serving(servers[r]) = r

(* The server the object forks from is never one that a request is being   *)
(* served on, and a fork exists only once its request has begun.           *)
ServersInv ==
    /\ noRollback => machine = Root /\ \A r \in Requests : ~Alive(r) /\ target[r] = Root
    /\ machine \in Requests => pc[machine] = "settled"
    /\ \A r \in Requests : pc[r] = "new" => ~Alive(r)
    /\ LeftoversAreAbandoned

IsolationInv ==
    /\ ServersInv
    /\ ~noRollback => \A r \in Requests : IsOpen(r) => Fork(r)
    /\ BaseIsCommitted

(* What a step says of the requests it is not about.                       *)
OthersQuiet(r) ==
    \A q \in Requests \ {r} : pc'[q] = pc[q] /\ result'[q] = result[q]

LedgerGrew == ledger' = ledger \/ \E i \in Inputs : ledger' = Append(ledger, i)

(* The steps of a generator's body are about one request.                  *)
LEMMA StepsAreQuiet ==
    ASSUME TypeOK, OnlyInputsAccepted, NEW r \in Requests
    PROVE  /\ Throw(r) => OthersQuiet(r) /\ ledger' = ledger
                          /\ pc'[r] = "settled" /\ result'[r] = "error"
           /\ Started(r) => OthersQuiet(r) /\ ledger' = ledger /\ pc'[r] = "send"
           /\ Sent(r) => OthersQuiet(r) /\ ledger' = ledger /\ pc'[r] = "run"
           /\ Resume(r) => OthersQuiet(r) /\ ledger' = ledger
                           /\ pc[r] = "suspended" /\ pc'[r] = "run"
           /\ Leave(r) => OthersQuiet(r) /\ ledger' = ledger /\ pc'[r] = "abandoned"
           /\ Settled(r) => OthersQuiet(r) /\ LedgerGrew /\ pc'[r] = "settled"
           /\ \A m, break : Event(r, m, break) \/ Ending(r, m, break)
                            => OthersQuiet(r) /\ ledger' = ledger
<1> USE DEF TypeOK, RequestTypeOK, OthersQuiet, Goto
<1>1. /\ Throw(r) => OthersQuiet(r) /\ ledger' = ledger
                     /\ pc'[r] = "settled" /\ result'[r] = "error"
      /\ Started(r) => OthersQuiet(r) /\ ledger' = ledger /\ pc'[r] = "send"
      /\ Sent(r) => OthersQuiet(r) /\ ledger' = ledger /\ pc'[r] = "run"
  BY DEF Throw, Started, Sent
<1>2. /\ Resume(r) => OthersQuiet(r) /\ ledger' = ledger
                      /\ pc[r] = "suspended" /\ pc'[r] = "run"
      /\ Leave(r) => OthersQuiet(r) /\ ledger' = ledger /\ pc'[r] = "abandoned"
  BY DEF Resume, Leave
<1>3. Settled(r) => OthersQuiet(r) /\ LedgerGrew /\ pc'[r] = "settled"
  BY DEF Settled, LedgerGrew, OnlyInputsAccepted
<1>4. \A m, break : Event(r, m, break) \/ Ending(r, m, break)
                    => OthersQuiet(r) /\ ledger' = ledger
  BY DEF Event, Ending
<1>5. QED BY <1>1, <1>2, <1>3, <1>4

(* What a growing ledger confirmed it still confirms.                      *)
LEMMA LedgerGrows ==
    ASSUME TypeOK, LedgerGrew
    PROVE  /\ \A x : InLedger(x) => InLedger(x)'
           /\ \A i \in Inputs : ledger' = Append(ledger, i) => InLedger(i)'
BY DEF InLedger, LedgerGrew, TypeOK, RequestTypeOK

(* A committed machine stays one while the ledger grows.                   *)
LEMMA CommittedGrows ==
    ASSUME TypeOK, LedgerGrew, NEW m, Committed(m)
    PROVE  Committed(m)'
BY DEF LedgerGrew, Committed, TypeOK, RequestTypeOK

(* A step about request r, seen from the forks of the open requests.       *)
LEMMA ForksStep ==
    ASSUME TypeOK, NEW r \in Requests, OthersQuiet(r), LedgerGrew,
           \A q \in Requests : IsOpen(q) => Fork(q),
           \A q \in Requests \ {r} : IsOpen(q) =>
                servers'[q] = servers[q] /\ target'[q] = target[q],
           IsOpen(r)' => Fork(r)'
    PROVE  \A q \in Requests : IsOpen(q)' => Fork(q)'
<1> SUFFICES ASSUME NEW q \in Requests, q # r, IsOpen(q)' PROVE Fork(q)'
  OBVIOUS
<1>1. IsOpen(q) /\ Fork(q) /\ pc'[q] = pc[q] /\ result'[q] = result[q]
  BY DEF OthersQuiet, IsOpen
<1>2. servers'[q] = servers[q] /\ target'[q] = target[q] BY <1>1
<1>3. pc'[q] = "send" => Committed(servers[q])'
  BY <1>1, <1>2, CommittedGrows DEF Fork, Committed
<1>4. ASSUME NEW n \in DOMAIN servers'[q].handled
      PROVE  servers'[q].handled[n] = q \/ InLedger(servers[q].handled[n])'
  <2>1. servers[q].handled[n] = q \/ InLedger(servers[q].handled[n])
    BY <1>1, <1>2 DEF Fork
  <2>2. CASE servers[q].handled[n] = q BY <1>2, <2>2
  <2>3. CASE InLedger(servers[q].handled[n])
    <3>1. PICK x : x = servers[q].handled[n] OBVIOUS
    <3>2. InLedger(x)' BY <3>1, <2>3, LedgerGrows
    <3>3. QED BY <3>1, <3>2, <1>2 DEF InLedger
  <2>4. QED BY <2>1, <2>2, <2>3
<1>5. QED BY <1>1, <1>2, <1>3, <1>4 DEF Fork, Serving, InLedger

(* A step about request r, seen from the servers.                          *)
LEMMA ServersStep ==
    ASSUME TypeOK, ServersInv, ~noRollback, ~noRollback',
           NEW r \in Requests, OthersQuiet(r), pc'[r] # "new",
           machine' \in {machine, r},
           machine' = r => pc'[r] = "settled",
           machine' # machine => ~Usable(servers'[machine]),
           \A s \in Servers \ {r} : servers'[s] = servers[s] \/ ~Alive(s)',
           Alive(r)' => \/ r = machine' \/ IsOpen(r)' \/ pc'[r] = "abandoned"
                        \/ pc'[r] = "settled" /\ result'[r] = "error"
    PROVE  ServersInv'
<1>1. machine' \in Requests => pc'[machine'] = "settled"
  BY DEF ServersInv, OthersQuiet
<1>2. \A q \in Requests : pc'[q] = "new" => ~Alive(q)'
  BY DEF ServersInv, OthersQuiet, Alive, Servers
<1>3. ASSUME NEW s \in Servers, Alive(s)'
      PROVE  \/ s = machine'
             \/ s \in Requests /\ (IsOpen(s)' \/ pc'[s] = "abandoned" \/ Outcome'[s] = "error")
  <2>1. CASE s = r BY <1>3, <2>1 DEF Outcome
  <2>2. CASE s # r
    <3>1. servers'[s] = servers[s] /\ Alive(s) BY <1>3, <2>2 DEF Alive
    <3>2. s = machine \/ (s \in Requests /\ (IsOpen(s) \/ pc[s] = "abandoned" \/ Outcome[s] = "error"))
      BY <3>1 DEF ServersInv, LeftoversAreAbandoned
    <3>3. s = machine => s = machine' BY <1>3 DEF Alive
    <3>4. QED BY <2>2, <3>2, <3>3 DEF OthersQuiet, IsOpen, Outcome
  <2>3. QED BY <2>1, <2>2
<1>4. QED BY <1>1, <1>2, <1>3 DEF ServersInv, LeftoversAreAbandoned

(* A step about request r that leaves the base alone, seen from the base.  *)
LEMMA BaseStep ==
    ASSUME TypeOK, BaseIsCommitted, ~noRollback, LedgerGrew,
           machine' = machine, image' = image,
           servers'[machine] = servers[machine] \/ ~Usable(servers'[machine])
    PROVE  BaseIsCommitted'
<1>1. Alive(machine)' => Committed(servers[machine])'
  <2> SUFFICES ASSUME Alive(machine)' PROVE Committed(servers[machine])'
    OBVIOUS
  <2>1. servers'[machine] = servers[machine] /\ Alive(machine) BY DEF Alive
  <2>2. PICK m : m = servers[machine] OBVIOUS
  <2>3. Committed(m)' BY <2>1, <2>2, CommittedGrows DEF BaseIsCommitted
  <2>4. QED BY <2>1, <2>2, <2>3 DEF Committed
<1>2. Usable(image)' => Committed(image)'
  <2> SUFFICES ASSUME Usable(image) PROVE Committed(image)'
    OBVIOUS
  <2>1. PICK m : m = image OBVIOUS
  <2>2. Committed(m)' BY <2>1, CommittedGrows DEF BaseIsCommitted
  <2>3. QED BY <2>1, <2>2 DEF Committed
<1>3. QED BY <1>1, <1>2 DEF BaseIsCommitted

(* The steps of an object that forks.                                      *)
LEMMA IsolationStep ==
    ASSUME TypeOK, TypeOK', OnlyInputsAccepted, IsolationInv, ~noRollback, [Next]_vars
    PROVE  IsolationInv'
<1> USE DEF IsolationInv, TypeOK
<1>n. Root \notin Requests /\ None \notin Requests BY RootIsNoRequest, NoneIsNoRequest
<1>g. ~Usable(Gone) BY MachineValues
<1>f. \A r \in Requests : IsOpen(r) => Fork(r) /\ target[r] = r /\ machine # r
  BY DEF Fork, ServersInv, IsOpen, OnStack
<1>o. \A r \in Requests : pc[r] \in OnStack \cup {"suspended"} => IsOpen(r)
  BY DEF IsOpen
<1>1. ASSUME NEW r \in Requests, Begin(r) PROVE IsolationInv'
  <2>1. /\ OthersQuiet(r) /\ ledger' = ledger /\ pc'[r] = "send" /\ ~noRollback'
        /\ machine' = machine /\ image' = image /\ machine # r
        /\ servers' = [servers EXCEPT ![r] = servers[machine]]
        /\ target' = [target EXCEPT ![r] = r]
    BY <1>1, StepsAreQuiet DEF Begin, ServersInv
  <2>2. Fork(r)'
    <3>1. Committed(servers[machine]) BY <1>1 DEF Begin, BaseIsCommitted
    <3>2. servers'[r] = servers[machine] /\ target'[r] = r
      BY <2>1 DEF Servers
    <3>3. QED BY <2>1, <3>1, <3>2 DEF Fork, Committed, InLedger
  <2>3. BaseIsCommitted' BY <2>1, BaseStep DEF LedgerGrew
  <2>4. ServersInv'
    BY <2>1, ServersStep DEF IsOpen, OnStack
  <2>5. \A q \in Requests : IsOpen(q)' => Fork(q)'
    BY <2>1, <2>2, ForksStep, <1>f DEF LedgerGrew
  <2>6. QED BY <2>3, <2>4, <2>5
<1>2. ASSUME NEW r \in Requests, BeginThrows(r) \/ CallThrows(r) \/ CloseThrows(r)
      PROVE  IsolationInv'
  <2>1. /\ OthersQuiet(r) /\ ledger' = ledger /\ ~noRollback'
        /\ pc'[r] = "settled" /\ result'[r] = "error"
        /\ machine' = machine /\ image' = image /\ target' = target
    BY <1>2, StepsAreQuiet DEF BeginThrows, CallThrows, CloseThrows, remoteVars
  <2>2. /\ \A s \in Servers \ {r} : servers'[s] = servers[s]
                                    \/ (s = machine /\ ~Usable(servers'[s]))
        /\ machine # r
    BY <1>2, <1>f, <1>o, <1>g
       DEF BeginThrows, CallThrows, CloseThrows, Victim, remoteVars, ServersInv, OnStack
  <2>3. BaseIsCommitted' BY <2>1, <2>2, BaseStep DEF LedgerGrew
  <2>4. ServersInv' BY <2>1, <2>2, ServersStep DEF Alive
  <2>5. ~IsOpen(r)' BY <2>1 DEF IsOpen, OnStack
  <2>6. \A q \in Requests : IsOpen(q)' => Fork(q)'
    BY <2>1, <2>2, <2>5, ForksStep, <1>f DEF LedgerGrew, Servers
  <2>7. QED BY <2>3, <2>4, <2>6
<1>3. ASSUME NEW r \in Requests, Send(r) PROVE IsolationInv'
  <2>1. IsOpen(r) /\ Fork(r) /\ target[r] = r /\ machine # r /\ pc[r] = "send"
    BY <1>3, <1>f, <1>o DEF Send, OnStack
  <2>2. /\ OthersQuiet(r) /\ ledger' = ledger /\ pc'[r] = "run" /\ ~noRollback'
        /\ machine' = machine /\ image' = image /\ target' = target
        /\ servers' = [servers EXCEPT ![r] = AfterResponse(servers[r], r)]
    BY <1>3, <2>1, StepsAreQuiet DEF Send
  <2>3. Fork(r)'
    <3>1. servers[r] \in Machine /\ servers'[r] = AfterResponse(servers[r], r)
      BY <2>2 DEF Servers
    <3>2. r \notin Oversized => servers'[r].handled = Append(servers[r].handled, r)
      BY <2>1, <3>1 DEF Fork, Committed, AfterResponse, Delivers, ManualYields
    <3>3. r \in Oversized => servers'[r].handled = servers[r].handled
      BY <3>1 DEF AfterResponse, Delivers
    <3>4. servers[r].handled \in Seq(Requests) BY <3>1 DEF Machine
    <3>5. r \notin Oversized => Serving(servers'[r]) = r
      BY <3>2, <3>4 DEF Serving
    <3>6. ASSUME NEW n \in DOMAIN servers'[r].handled
          PROVE  servers'[r].handled[n] = r \/ \E k \in DOMAIN ledger : ledger[k] = servers'[r].handled[n]
      <4>1. \A k \in DOMAIN servers[r].handled :
              servers[r].handled[k] = r \/ InLedger(servers[r].handled[k])
        BY <2>1 DEF Fork
      <4>2. CASE r \in Oversized BY <3>3, <3>6, <4>1, <4>2 DEF InLedger
      <4>3. CASE r \notin Oversized
        <5>1. \/ n \in DOMAIN servers[r].handled
                 /\ servers'[r].handled[n] = servers[r].handled[n]
              \/ servers'[r].handled[n] = r
          BY <3>2, <3>4, <3>6, <4>3
        <5>2. QED BY <4>1, <5>1 DEF InLedger
      <4>4. QED BY <4>2, <4>3
    <3>7. QED BY <2>1, <2>2, <3>5, <3>6 DEF Fork, Serving, InLedger
  <2>4. BaseIsCommitted' BY <2>1, <2>2, BaseStep DEF LedgerGrew
  <2>5. IsOpen(r)' BY <2>2 DEF IsOpen, OnStack
  <2>6. ServersInv' BY <2>1, <2>2, <2>5, ServersStep
  <2>7. \A q \in Requests : IsOpen(q)' => Fork(q)'
    BY <2>1, <2>2, <2>3, ForksStep, <1>f DEF LedgerGrew
  <2>8. QED BY <2>4, <2>6, <2>7
<1>4. ASSUME NEW r \in Requests, Run(r) PROVE IsolationInv'
  <2>1. IsOpen(r) /\ Fork(r) /\ target[r] = r /\ machine # r /\ pc[r] = "run"
    BY <1>4, <1>f, <1>o DEF Run, OnStack
  <2>2. PICK break \in CanBreak(servers[r]) :
          /\ servers' = [servers EXCEPT ![r] = AfterRun(servers[r], break)]
          /\ Event(r, servers[r], break) \/ Ending(r, servers[r], break)
    BY <1>4, <2>1 DEF Run
  <2>3. /\ OthersQuiet(r) /\ ledger' = ledger /\ ~noRollback'
        /\ machine' = machine /\ image' = image /\ target' = target
    BY <1>4, <2>2, StepsAreQuiet DEF Run
  <2>4. /\ servers'[r] = AfterRun(servers[r], break)
        /\ servers'[r].handled = servers[r].handled
    BY <1>4, <2>1, <2>2, MachineSteps DEF Servers, Run, Alive
  <2>5. /\ pc'[r] \in {"run", "suspended", "commit", "rollback"}
        /\ pc'[r] = "commit" => break = "accepted" /\ result'[r] = "accepted"
        /\ pc'[r] = "rollback" => result'[r] \in {"answered", "rejected", "fatal"}
    <3>1. CASE Event(r, servers[r], break)
      BY <2>1, <3>1 DEF Event, Goto, RequestTypeOK
    <3>2. CASE Ending(r, servers[r], break)
      BY <3>2 DEF Ending, Goto, RequestTypeOK, Verdict
    <3>3. QED BY <2>2, <3>1, <3>2
  <2>6. IsOpen(r)' BY <2>5 DEF IsOpen, OnStack
  <2>7. Fork(r)'
    <3>1. pc'[r] = "commit" => servers'[r].yield = "accepted"
      BY <2>4, <2>5 DEF AfterRun, FixedPoints, ManualYields, Servers, Machine
    <3>2. QED BY <2>1, <2>3, <2>4, <2>5, <3>1 DEF Fork, Serving, InLedger
  <2>8. BaseIsCommitted' BY <2>1, <2>2, <2>3, BaseStep DEF LedgerGrew
  <2>9. ServersInv' BY <2>1, <2>2, <2>3, <2>5, <2>6, ServersStep
  <2>10. \A q \in Requests : IsOpen(q)' => Fork(q)'
    BY <2>2, <2>3, <2>7, ForksStep, <1>f DEF LedgerGrew
  <2>11. QED BY <2>8, <2>9, <2>10
<1>5. ASSUME NEW r \in Requests, Commit(r) PROVE IsolationInv'
  <2>1. /\ IsOpen(r) /\ Fork(r) /\ target[r] = r /\ machine # r
        /\ servers[r].yield = "accepted" /\ r \in Inputs
    BY <1>5, <1>f, <1>o DEF Commit, OnStack, Fork, OnlyInputsAccepted
  <2>2. /\ OthersQuiet(r) /\ LedgerGrew /\ ledger' = Append(ledger, r)
        /\ pc'[r] = "settled" /\ ~noRollback'
        /\ machine' = r /\ image' = image /\ target' = target
        /\ servers' = [servers EXCEPT ![machine] = Gone]
    BY <1>5, <2>1, StepsAreQuiet DEF Commit, Settled, Fork
  <2>3. ~IsOpen(r)' BY <2>2 DEF IsOpen, OnStack
  <2>4. ServersInv'
    BY <2>1, <2>2, <1>g, ServersStep DEF Alive
  <2>5. \A q \in Requests : IsOpen(q)' => Fork(q)'
    BY <2>2, <2>3, ForksStep, <1>f
  <2>6. Committed(servers[r])'
    <3>1. servers'[r] = servers[r] BY <2>1, <2>2 DEF Servers
    <3>2. ASSUME NEW n \in DOMAIN servers[r].handled
          PROVE  InLedger(servers[r].handled[n])'
      <4>1. PICK x : x = servers[r].handled[n] OBVIOUS
      <4>2. x = r \/ InLedger(x) BY <2>1, <4>1 DEF Fork, InLedger
      <4>3. InLedger(x)' BY <2>1, <2>2, <4>2, LedgerGrows
      <4>4. QED BY <3>1, <4>1, <4>3 DEF InLedger
    <3>3. QED BY <2>1, <3>1, <3>2 DEF Committed, InLedger
  <2>7. Usable(image)' => Committed(image)'
    <3>1. PICK m : m = image OBVIOUS
    <3>2. Usable(image) => Committed(m)' BY <2>2, <3>1, CommittedGrows DEF BaseIsCommitted
    <3>3. QED BY <2>2, <3>1, <3>2 DEF Committed
  <2>8. BaseIsCommitted' BY <2>2, <2>6, <2>7 DEF BaseIsCommitted, Committed
  <2>9. QED BY <2>4, <2>5, <2>8
<1>6. ASSUME NEW r \in Requests, Rollback(r) PROVE IsolationInv'
  <2>1. IsOpen(r) /\ target[r] = r /\ machine # r
    BY <1>6, <1>f, <1>o DEF Rollback, OnStack
  <2>2. /\ OthersQuiet(r) /\ LedgerGrew /\ pc'[r] = "settled" /\ ~noRollback'
        /\ machine' = machine /\ image' = image /\ target' = target
        /\ servers' = [servers EXCEPT ![r] = Gone]
    BY <1>6, <2>1, StepsAreQuiet DEF Rollback
  <2>3. BaseIsCommitted' BY <2>1, <2>2, BaseStep
  <2>4. ~Alive(r)' BY <2>2, <1>g DEF Alive, Servers
  <2>5. ServersInv' BY <2>1, <2>2, <2>4, ServersStep
  <2>6. ~IsOpen(r)' BY <2>2 DEF IsOpen, OnStack
  <2>7. \A q \in Requests : IsOpen(q)' => Fork(q)'
    BY <2>2, <2>6, ForksStep, <1>f
  <2>8. QED BY <2>3, <2>5, <2>7
<1>7. ASSUME NEW r \in Requests, BeginDirect(r) \/ CloseDirect(r) PROVE FALSE
  BY <1>7 DEF BeginDirect, CloseDirect
<1>8. ASSUME NEW r \in Requests, Caller(r) PROVE IsolationInv'
  <2>1. /\ OthersQuiet(r) /\ ledger' = ledger /\ pc'[r] \in {"run", "abandoned"}
        /\ pc[r] = "suspended" /\ result' = result /\ UNCHANGED remoteVars
    BY <1>8, StepsAreQuiet DEF Caller, Resume, Leave
  <2>2. IsOpen(r) /\ Fork(r) /\ machine # r BY <2>1, <1>f, <1>o
  <2>3. BaseIsCommitted' BY <2>1, BaseStep DEF LedgerGrew, remoteVars
  <2>4. ServersInv'
    BY <2>1, <2>2, ServersStep DEF remoteVars, IsOpen, OnStack
  <2>5. IsOpen(r)' => Fork(r)'
    BY <2>1, <2>2 DEF Fork, IsOpen, OnStack, InLedger, remoteVars
  <2>6. \A q \in Requests : IsOpen(q)' => Fork(q)'
    BY <2>1, <2>5, ForksStep, <1>f DEF LedgerGrew, remoteVars
  <2>7. QED BY <2>3, <2>4, <2>6
<1>9. CASE Shutdown
  <2>1. /\ UNCHANGED <<pc, result, ledger, machine, target, image, noRollback>>
        /\ servers' = [servers EXCEPT ![machine] = Gone]
    BY <1>9 DEF Shutdown, requestVars
  <2>s. \A s \in Servers : servers'[s] = IF s = machine THEN Gone ELSE servers[s]
    BY <2>1
  <2>2. BaseIsCommitted' BY <2>1, <1>g, BaseStep DEF LedgerGrew
  <2>3. ServersInv'
    <3>1. \A s \in Servers : Alive(s)' => Alive(s) BY <2>s, <1>g DEF Alive
    <3>2. LeftoversAreAbandoned'
      BY <2>1, <3>1 DEF ServersInv, LeftoversAreAbandoned, IsOpen, Outcome
    <3>3. QED BY <2>1, <3>1, <3>2 DEF ServersInv, Servers
  <2>4. ASSUME NEW q \in Requests, IsOpen(q)' PROVE Fork(q)'
    <3>1. IsOpen(q) /\ Fork(q) /\ servers'[q] = servers[q]
      BY <2>1, <2>4, <1>f DEF IsOpen, Servers
    <3>2. QED BY <2>1, <3>1 DEF Fork, Serving, Committed, InLedger
  <2>5. QED BY <2>2, <2>3, <2>4
<1>10. CASE Store \/ UNCHANGED vars
  <2>1. /\ UNCHANGED <<pc, result, ledger, servers, machine, target, noRollback>>
        /\ image' = image \/ (image' = servers[machine] /\ Alive(machine))
    BY <1>10 DEF Store, vars, requestVars, remoteVars
  <2>2. BaseIsCommitted' BY <2>1 DEF BaseIsCommitted, Alive, Committed
  <2>3. ServersInv'
    BY <2>1 DEF ServersInv, LeftoversAreAbandoned, Alive, IsOpen, Outcome
  <2>4. ASSUME NEW q \in Requests, IsOpen(q)' PROVE Fork(q)'
    BY <2>1, <2>4 DEF Fork, Serving, Committed, InLedger, IsOpen
  <2>5. QED BY <2>1, <2>2, <2>3, <2>4
<1>11. QED
  BY <1>1, <1>2, <1>3, <1>4, <1>5, <1>6, <1>7, <1>8, <1>9, <1>10 DEF Next

(* The steps of an object that works on its one server directly.           *)
LEMMA DirectStep ==
    ASSUME TypeOK, IsolationInv, noRollback, [Next]_vars
    PROVE  IsolationInv' /\ noRollback'
<1> USE DEF IsolationInv, TypeOK
<1>1. /\ machine = Root /\ Root \notin Requests /\ ~Usable(Gone)
      /\ \A r \in Requests : ~Alive(r) /\ target[r] = Root
  BY RootIsNoRequest, MachineValues DEF ServersInv
<1> SUFFICES /\ noRollback' /\ machine' = Root
             /\ \A r \in Requests : ~Alive(r)' /\ target'[r] = Root
  BY <1>1 DEF ServersInv, LeftoversAreAbandoned, Servers, BaseIsCommitted
<1>2. ASSUME NEW r \in Requests,
             BeginDirect(r) \/ CallThrows(r) \/ CloseDirect(r) \/ Caller(r)
      PROVE  UNCHANGED <<servers, machine, noRollback>>
             /\ \A q \in Requests : target'[q] = Root
  BY <1>1, <1>2 DEF BeginDirect, CallThrows, CloseDirect, Caller, remoteVars
<1>3. ASSUME NEW r \in Requests, Send(r) \/ Run(r)
      PROVE  UNCHANGED <<machine, target, noRollback>>
             /\ \A q \in Requests : servers'[q] = servers[q]
  BY <1>1, <1>3 DEF Send, Run, Servers
<1>4. CASE Shutdown \/ Store \/ UNCHANGED vars
  BY <1>1, <1>4 DEF Shutdown, Store, vars, remoteVars, Alive, Servers
<1>5. ASSUME NEW r \in Requests,
             Begin(r) \/ BeginThrows(r) \/ Commit(r) \/ Rollback(r) \/ CloseThrows(r)
      PROVE  FALSE
  BY <1>5 DEF Begin, BeginThrows, Commit, Rollback, CloseThrows
<1>6. QED BY <1>1, <1>2, <1>3, <1>4, <1>5 DEF Next, Alive

(* The isolation invariant holds in every use.                             *)
LEMMA IsolationInvariant == Spec => []IsolationInv
<1>1. Init => IsolationInv
  <2> SUFFICES ASSUME Init PROVE IsolationInv
    OBVIOUS
  <2>1. /\ \A r \in Requests : pc[r] = "new" /\ ~Alive(r) /\ target[r] = Root
        /\ machine = Root /\ servers[Root] = Fresh /\ image = Gone
    BY MachineValues, RootIsNoRequest DEF Init, RequestInit, Servers, Alive
  <2>2. Committed(Fresh) BY DEF Committed, Fresh
  <2>3. ServersInv
    BY <2>1, RootIsNoRequest DEF ServersInv, LeftoversAreAbandoned, Servers
  <2>4. QED
    BY <2>1, <2>2, <2>3, MachineValues DEF IsolationInv, BaseIsCommitted, IsOpen, OnStack
<1>2. TypeOK /\ TypeOK' /\ OnlyInputsAccepted /\ IsolationInv /\ [Next]_vars
      => IsolationInv'
  BY IsolationStep, DirectStep
<1>3. QED BY <1>1, <1>2, TypeCorrect, PTL DEF Spec

(* However requests overlap, are abandoned or fail, the server the object  *)
(* forks from and the stored image hold accepted inputs only.              *)
THEOREM Isolation == Spec => []BaseIsCommitted
<1>1. IsolationInv => BaseIsCommitted BY DEF IsolationInv
<1>2. QED BY <1>1, IsolationInvariant, PTL

(* Each server process left running is accounted for.                      *)
THEOREM Accountability == Spec => []LeftoversAreAbandoned
<1>1. IsolationInv => LeftoversAreAbandoned BY DEF IsolationInv, ServersInv
<1>2. QED BY <1>1, IsolationInvariant, PTL

(* If every request fits the rx buffer, what a caller hears of a request   *)
(* comes from the guest serving it, however requests overlap.              *)
THEOREM OwnVerdicts ==
    ASSUME Oversized = {}
    PROVE  Spec => []OwnVerdict
<1>1. Init => OwnVerdict BY DEF Init, RequestInit, OwnVerdict
<1>2. TypeOK /\ IsolationInv /\ OwnVerdict /\ [Next]_vars => OwnVerdict'
  <2> SUFFICES ASSUME TypeOK, IsolationInv, OwnVerdict, [Next]_vars, ~noRollback'
      PROVE  \A q \in Requests : heard'[q] \subseteq {q}
    BY DEF OwnVerdict
  <2>0. ~noRollback BY DirectStep
  <2>1. CASE UNCHANGED heard BY <2>0, <2>1 DEF OwnVerdict
  <2>2. ASSUME NEW r \in Requests, Run(r)
        PROVE  \A q \in Requests : heard'[q] \subseteq {q}
    <3>1. target[r] = r /\ Serving(servers[r]) = r
      BY <2>0, <2>2 DEF Run, IsolationInv, IsOpen, OnStack, Fork
    <3>2. PICK break : Event(r, servers[r], break) \/ Ending(r, servers[r], break)
      BY <2>2, <3>1 DEF Run
    <3>3. heard' = heard \/ heard' = [heard EXCEPT ![r] = @ \cup {r}]
      BY <3>1, <3>2 DEF Event, Ending
    <3>4. QED BY <2>0, <3>3 DEF OwnVerdict, TypeOK, RequestTypeOK
  <2>3. QED
    BY <2>1, <2>2 DEF Next, vars, requestVars, BeginDirect, Begin, BeginThrows, Send,
       CallThrows, Commit, Rollback, CloseDirect, CloseThrows, Caller, Shutdown,
       Store, Started, Sent, Throw, Settled, Resume, Leave
<1>3. QED BY <1>1, <1>2, TypeCorrect, IsolationInvariant, PTL DEF Spec

---------------------------------------------------------------------------
(* The remote rollups machine implements the ledger, when its requests do  *)
(* not overlap and its inputs fit the rx buffer.                           *)

OneAtATime == ~Overlap /\ Oversized \cap Inputs = {}

(* The base is the ledger, and a fork is one input ahead of it.            *)
SequentialInv ==
    /\ \A r, q \in Requests : IsOpen(r) /\ IsOpen(q) => r = q
    /\ Alive(machine) => servers[machine].handled = ledger
    /\ \A r \in Requests : IsOpen(r) =>
         /\ pc[r] = "send" => servers[r].handled = ledger
         /\ pc[r] # "send" /\ r \in Inputs => servers[r].handled = Append(ledger, r)

(* A step that ends the one open request, or a request that had not begun. *)
LEMMA EndingStep ==
    ASSUME TypeOK, SequentialInv, NEW r \in Requests, OthersQuiet(r), ~IsOpen(r)',
           NothingOpen \/ IsOpen(r)
    PROVE  \A q \in Requests : ~IsOpen(q)'
BY DEF SequentialInv, OthersQuiet, IsOpen, NothingOpen

(* A step after which r is the one open request.                           *)
LEMMA OpenStep ==
    ASSUME TypeOK, SequentialInv, NEW r \in Requests, OthersQuiet(r),
           NothingOpen \/ IsOpen(r)
    PROVE  \A q \in Requests : IsOpen(q)' => q = r
BY DEF SequentialInv, OthersQuiet, IsOpen, NothingOpen

(* Each step of a sequential use preserves the sequential invariant.       *)
LEMMA SequentialStep ==
    ASSUME TypeOK, OnlyInputsAccepted, IsolationInv, SequentialInv, OneAtATime,
           ~noRollback, [Next]_vars
    PROVE  SequentialInv'
<1> USE DEF TypeOK
<1>g. ~Usable(Gone) BY MachineValues
<1>f. \A r \in Requests : IsOpen(r) => Fork(r) /\ target[r] = r /\ machine # r
  BY DEF IsolationInv, Fork, ServersInv, IsOpen, OnStack
<1>o. \A r \in Requests : pc[r] \in OnStack \cup {"suspended"} => IsOpen(r)
  BY DEF IsOpen
<1>1. ASSUME NEW r \in Requests, Begin(r) PROVE SequentialInv'
  <2>1. /\ OthersQuiet(r) /\ ledger' = ledger /\ pc'[r] = "send" /\ machine' = machine
        /\ machine # r /\ NothingOpen
        /\ servers' = [servers EXCEPT ![r] = servers[machine]]
    BY <1>1, StepsAreQuiet DEF Begin, IsolationInv, ServersInv, MayCall, OneAtATime
  <2>2. servers'[machine] = servers[machine] /\ servers'[r] = servers[machine]
    BY <2>1 DEF Servers
  <2>3. \A q \in Requests : IsOpen(q)' => q = r BY <2>1, OpenStep
  <2>4. servers[machine].handled = ledger BY <1>1 DEF Begin, SequentialInv
  <2>5. QED BY <2>1, <2>2, <2>3, <2>4 DEF SequentialInv, Alive
<1>2. ASSUME NEW r \in Requests, BeginThrows(r) \/ CallThrows(r) \/ CloseThrows(r)
      PROVE  SequentialInv'
  <2>1. /\ OthersQuiet(r) /\ ledger' = ledger /\ pc'[r] = "settled"
        /\ machine' = machine
    BY <1>2, StepsAreQuiet DEF BeginThrows, CallThrows, CloseThrows, remoteVars
  <2>2. NothingOpen \/ IsOpen(r)
    BY <1>2, <1>o DEF BeginThrows, CallThrows, CloseThrows, MayCall, OneAtATime, OnStack
  <2>3. \A q \in Requests : ~IsOpen(q)'
    <3>1. ~IsOpen(r)' BY <2>1 DEF IsOpen, OnStack
    <3>2. QED BY <2>1, <2>2, <3>1, EndingStep
  <2>4. servers'[machine] = servers[machine] \/ ~Usable(servers'[machine])
    BY <1>2, <1>f, <1>o, <1>g
       DEF BeginThrows, CallThrows, CloseThrows, Victim, remoteVars, IsolationInv,
           ServersInv, OnStack
  <2>5. QED BY <2>1, <2>3, <2>4 DEF SequentialInv, Alive
<1>3. ASSUME NEW r \in Requests, Send(r) PROVE SequentialInv'
  <2>1. IsOpen(r) /\ Fork(r) /\ target[r] = r /\ machine # r /\ pc[r] = "send"
    BY <1>3, <1>f, <1>o DEF Send, OnStack
  <2>2. /\ OthersQuiet(r) /\ ledger' = ledger /\ pc'[r] = "run" /\ machine' = machine
        /\ servers' = [servers EXCEPT ![r] = AfterResponse(servers[r], r)]
    BY <1>3, <2>1, StepsAreQuiet DEF Send
  <2>3. \A q \in Requests : IsOpen(q)' => q = r BY <2>1, <2>2, OpenStep
  <2>4. servers'[machine] = servers[machine] /\ servers'[r] = AfterResponse(servers[r], r)
    BY <2>1, <2>2 DEF Servers
  <2>5. servers[r].handled = ledger BY <2>1 DEF SequentialInv
  <2>6. r \in Inputs => servers'[r].handled = Append(ledger, r)
    BY <2>1, <2>4, <2>5 DEF OneAtATime, Fork, Committed, AfterResponse, Delivers, ManualYields
  <2>7. QED BY <2>2, <2>3, <2>4, <2>6 DEF SequentialInv, Alive
<1>4. ASSUME NEW r \in Requests, Run(r) PROVE SequentialInv'
  <2>1. IsOpen(r) /\ target[r] = r /\ machine # r /\ pc[r] = "run"
    BY <1>4, <1>f, <1>o DEF Run, OnStack
  <2>2. PICK break \in CanBreak(servers[r]) :
          /\ servers' = [servers EXCEPT ![r] = AfterRun(servers[r], break)]
          /\ Event(r, servers[r], break) \/ Ending(r, servers[r], break)
    BY <1>4, <2>1 DEF Run
  <2>3. OthersQuiet(r) /\ ledger' = ledger /\ machine' = machine /\ pc'[r] # "send"
    BY <1>4, <2>1, <2>2, StepsAreQuiet DEF Run, Event, Ending, Goto, RequestTypeOK
  <2>4. /\ servers'[r].handled = servers[r].handled
        /\ servers'[machine] = servers[machine]
    BY <1>4, <2>1, <2>2, MachineSteps DEF Servers, Run, Alive
  <2>5. \A q \in Requests : IsOpen(q)' => q = r BY <2>1, <2>3, OpenStep
  <2>6. QED BY <2>1, <2>3, <2>4, <2>5 DEF SequentialInv, Alive
<1>5. ASSUME NEW r \in Requests, Commit(r) PROVE SequentialInv'
  <2>1. /\ IsOpen(r) /\ target[r] = r /\ machine # r
        /\ result[r] = "accepted" /\ r \in Inputs
    BY <1>5, <1>f, <1>o DEF Commit, OnStack, Fork, OnlyInputsAccepted
  <2>2. /\ OthersQuiet(r) /\ ledger' = Append(ledger, r) /\ pc'[r] = "settled"
        /\ machine' = r /\ servers' = [servers EXCEPT ![machine] = Gone]
    BY <1>5, <2>1, StepsAreQuiet DEF Commit, Settled
  <2>3. ~IsOpen(r)' BY <2>2 DEF IsOpen, OnStack
  <2>4. \A q \in Requests : ~IsOpen(q)' BY <2>1, <2>2, <2>3, EndingStep
  <2>5. servers'[r] = servers[r] BY <2>1, <2>2 DEF Servers
  <2>6. servers[r].handled = Append(ledger, r) BY <1>5, <2>1 DEF Commit, SequentialInv
  <2>7. QED BY <2>2, <2>4, <2>5, <2>6 DEF SequentialInv
<1>6. ASSUME NEW r \in Requests, Rollback(r) PROVE SequentialInv'
  <2>1. IsOpen(r) /\ Fork(r) /\ target[r] = r /\ machine # r
    BY <1>6, <1>f, <1>o DEF Rollback, OnStack
  <2>2. /\ OthersQuiet(r) /\ ledger' = ledger /\ pc'[r] = "settled"
        /\ machine' = machine /\ servers' = [servers EXCEPT ![r] = Gone]
    BY <1>6, <2>1, StepsAreQuiet DEF Rollback, Settled, Fork
  <2>3. ~IsOpen(r)' BY <2>2 DEF IsOpen, OnStack
  <2>4. \A q \in Requests : ~IsOpen(q)' BY <2>1, <2>2, <2>3, EndingStep
  <2>5. QED BY <2>1, <2>2, <2>4 DEF SequentialInv, Alive
<1>7. ASSUME NEW r \in Requests, BeginDirect(r) \/ CloseDirect(r) PROVE FALSE
  BY <1>7 DEF BeginDirect, CloseDirect
<1>8. ASSUME NEW r \in Requests, Caller(r) PROVE SequentialInv'
  <2>1. /\ OthersQuiet(r) /\ ledger' = ledger /\ pc'[r] \in {"run", "abandoned"}
        /\ pc[r] = "suspended" /\ UNCHANGED remoteVars
    BY <1>8, StepsAreQuiet DEF Caller, Resume, Leave
  <2>2. IsOpen(r) BY <2>1, <1>o
  <2>3. \A q \in Requests : IsOpen(q)' => q = r BY <2>1, <2>2, OpenStep
  <2>4. QED BY <2>1, <2>2, <2>3 DEF SequentialInv, Alive, remoteVars
<1>9. CASE Shutdown
  <2>1. /\ UNCHANGED <<pc, ledger, machine>> /\ NothingOpen
        /\ servers' = [servers EXCEPT ![machine] = Gone]
    BY <1>9 DEF Shutdown, requestVars, MayCall, OneAtATime
  <2>2. QED BY <2>1, <1>g DEF SequentialInv, NothingOpen, IsOpen, Alive
<1>10. CASE Store \/ UNCHANGED vars
  <2>1. UNCHANGED <<pc, ledger, machine, servers>>
    BY <1>10 DEF Store, vars, requestVars, remoteVars
  <2>2. QED BY <2>1 DEF SequentialInv, IsOpen, Alive
<1>11. QED
  BY <1>1, <1>2, <1>3, <1>4, <1>5, <1>6, <1>7, <1>8, <1>9, <1>10 DEF Next

(* The noRollback option never changes.                                    *)
LEMMA NoRollbackIsConstant == Next => UNCHANGED noRollback
BY DEF Next, BeginDirect, Begin, BeginThrows, Send, Run, CallThrows, Commit,
   Rollback, CloseDirect, CloseThrows, Caller, Shutdown, Store, remoteVars

(* How one step changes the outcomes and the ledger.                       *)
LEMMA LedgerStep ==
    ASSUME TypeOK, OnlyInputsAccepted, IsolationInv, ~noRollback, [Next]_vars
    PROVE  \/ UNCHANGED <<ledger, Outcome>>
           \/ \E i \in Inputs : Answered(i, "accepted") /\ ledger' = Append(ledger, i)
           \/ \E r \in Requests, why \in Ledger!Refusals :
                Answered(r, why) /\ ledger' = ledger
<1> USE OutcomeSteps DEF TypeOK
<1>f. \A r \in Requests : IsOpen(r) => Fork(r) BY DEF IsolationInv
<1>1. ASSUME NEW r \in Requests, BeginThrows(r) \/ CallThrows(r) \/ CloseThrows(r)
      PROVE  Answered(r, "error") /\ ledger' = ledger
  BY <1>1 DEF BeginThrows, CallThrows, CloseThrows
<1>2. ASSUME NEW r \in Requests, Begin(r) \/ Send(r) \/ Run(r) \/ Caller(r)
      PROVE  UNCHANGED <<ledger, Outcome>>
  BY <1>2 DEF Begin, Send, Run, Caller, Resume, Leave
<1>3. ASSUME NEW r \in Requests, Commit(r)
      PROVE  r \in Inputs /\ Answered(r, "accepted") /\ ledger' = Append(ledger, r)
  BY <1>3, <1>f DEF Commit, IsOpen, OnStack, Fork, OnlyInputsAccepted, Settled
<1>4. ASSUME NEW r \in Requests, Rollback(r)
      PROVE  /\ ledger' = ledger
             /\ Answered(r, result[r]) /\ result[r] \in Ledger!Refusals
  BY <1>4, <1>f
     DEF Rollback, IsOpen, OnStack, Fork, Settled, Ledger!Refusals
<1>5. ASSUME NEW r \in Requests, BeginDirect(r) \/ CloseDirect(r) PROVE FALSE
  BY <1>5 DEF BeginDirect, CloseDirect
<1>6. CASE Shutdown \/ Store \/ UNCHANGED vars
  BY <1>6 DEF Shutdown, Store, vars, requestVars, Outcome
<1>7. "error" \in Ledger!Refusals BY DEF Ledger!Refusals
<1>8. QED BY <1>1, <1>2, <1>3, <1>4, <1>5, <1>6, <1>7 DEF Next

(* With requests one at a time, abandoned or failing as they may, accepted *)
(* inputs are applied atomically and nothing else leaves a trace.          *)
THEOREM LedgerImplemented ==
    ASSUME OneAtATime, NoRollbackChoices = {FALSE}
    PROVE  Spec => ImplementsLedger
<1> DEFINE Inv == SequentialInv /\ ~noRollback
<1>1. Init => Inv
  BY DEF Init, RequestInit, SequentialInv, IsOpen, OnStack, Fresh, Servers
<1>2. TypeOK /\ OnlyInputsAccepted /\ IsolationInv /\ Inv /\ [Next]_vars => Inv'
  BY SequentialStep, NoRollbackIsConstant DEF vars, remoteVars
<1> DEFINE Same == CommittedState = ledger
<1>s. Inv => Same BY DEF SequentialInv, CommittedState
<1>3. TypeOK /\ OnlyInputsAccepted /\ IsolationInv /\ Inv /\ Same /\ Same' /\ [Next]_vars
      => [Ledger!Next]_Ledger!vars
  <2> SUFFICES ASSUME TypeOK, OnlyInputsAccepted, IsolationInv, Inv, Same, Same', [Next]_vars
      PROVE  [Ledger!Next]_Ledger!vars
    OBVIOUS
  <2>1. CommittedState = ledger /\ CommittedState' = ledger'
    OBVIOUS
  <2>2. CASE UNCHANGED <<ledger, Outcome>>
    BY <2>1, <2>2 DEF Ledger!vars
  <2>3. ASSUME NEW i \in Inputs, Answered(i, "accepted"), ledger' = Append(ledger, i)
        PROVE  Ledger!Next
    BY <2>1, <2>3 DEF Answered, Ledger!Next, Ledger!Accept
  <2>4. ASSUME NEW r \in Requests, NEW why \in Ledger!Refusals, Answered(r, why),
               ledger' = ledger
        PROVE  Ledger!Next
    BY <2>1, <2>4 DEF Answered, Ledger!Next, Ledger!Refuse, Requests, Ledger!Requests
  <2>5. QED BY <2>2, <2>3, <2>4, LedgerStep
<1>4. Init => Ledger!Init
  BY MachineValues DEF Init, RequestInit, Ledger!Init, CommittedState, Outcome, Fresh,
     Requests, Ledger!Requests, Servers
<1>5. QED
  BY <1>1, <1>2, <1>s, <1>3, <1>4, TypeCorrect, IsolationInvariant, PTL
     DEF Spec, ImplementsLedger, Ledger!Spec
=============================================================================
