-------------------------- MODULE WorkerFacade_proofs -----------------------
(***************************************************************************)
(* Theorems about WorkerFacade, for any number of requests.                *)
(***************************************************************************)
EXTENDS WorkerFacade, SequenceTheorems, TLAPS

-----------------------------------------------------------------------------
(* The worker receives requests in the order of their ids: what is under   *)
(* way to it are the last ones the page issued.                            *)
Received == Len(requests) - Len(toWorker)

Queued ==
    /\ Len(toWorker) <= Len(requests)
    /\ \A n \in 1 .. Len(toWorker) : toWorker[n] = Received + n

(* The page calls methods on what it was given, and it was given nothing   *)
(* that the worker did not hold.                                           *)
Addressed ==
    /\ \A k \in 1 .. Len(requests) :
           /\ requests[k].on <= Len(held)
           /\ requests[k].on = 0 <=> requests[k].method = "create"
    /\ \A k \in 1 .. Len(promises) : promises[k].handle <= Len(held)
    /\ \A n \in 1 .. Len(toPage) : toPage[n].answer.handle <= Len(held)

(* Calls that wait for a module are calls of the module, since nothing can *)
(* be held before there is one.                                            *)
Early ==
    /\ cartesi = 0 => held = << >>
    /\ \A id \in waiting : id <= Received /\ id <= Len(requests) /\ requests[id].on = 0

(* A request that the worker has not answered is pending, and so is one    *)
(* whose only answer is under way.                                         *)
Open(id) == id \in 1 .. Len(requests) /\ (id > Received \/ id \in waiting)

AnswersUnderWay(n) ==
    /\ toPage[n].id <= Received /\ toPage[n].id \notin waiting
    /\ promises[toPage[n].id] = Pending
    /\ \A m \in 1 .. Len(toPage) : toPage[m].id = toPage[n].id => m = n

AnsweredOnce ==
    /\ \A id \in 1 .. Len(requests) : Open(id) => promises[id] = Pending
    /\ \A n \in 1 .. Len(toPage) : AnswersUnderWay(n)

(* A handle is out of use from the moment its release is received.         *)
Releases(rs, k, h) == rs[k] = [method |-> "release", on |-> h]

Released == \A h \in 1 .. Len(held) :
                held[h] = 0 <=> \E k \in 1 .. Received : Releases(requests, k, h)

(* An answer that agrees with the order of the requests rs.                *)
Right(rs, id, answer) ==
    answer # Pending /\ rs[id].method \notin {"create", "release"} =>
        (answer.kind = "released" <=> \E k \in 1 .. id - 1 : Releases(rs, k, rs[id].on))

Told ==
    /\ \A id \in 1 .. Len(promises) : Right(requests, id, promises[id])
    /\ \A n \in 1 .. Len(toPage) : Right(requests, toPage[n].id, toPage[n].answer)

Past == \A n \in 1 .. Len(served) : served[n].id <= Received

PageInv == Queued /\ Addressed /\ Early /\ AnsweredOnce /\ Told
WorkerInv == Released /\ Past /\ HeldIsReachable /\ CallsKeepOrder

FacadeInv == TypeOK /\ PageInv /\ WorkerInv

-----------------------------------------------------------------------------
(* Answers, by their kinds.                                                *)
LEMMA AnswerFacts ==
    /\ Pending \in Answers
    /\ \A a \in Answers : a.handle \in Nat /\ (a = Pending <=> a.kind = "pending")
    /\ \A kind \in {"data", "error", "released"} :
           /\ Answer(kind) \in Answers \ {Pending}
           /\ Answer(kind).handle = 0 /\ Answer(kind).kind = kind
    /\ \A h \in Nat \ {0} : [kind |-> "handle", handle |-> h] \in Answers \ {Pending}
BY DEF Answers, Answer, Pending

(* What the types say of the elements of the sequences.                    *)
LEMMA Elements ==
    ASSUME TypeOK
    PROVE  /\ \A k \in 1 .. Len(requests) : requests[k].method \in Methods /\ requests[k].on \in Nat
           /\ \A k \in 1 .. Len(promises) : promises[k] \in Answers
           /\ \A n \in 1 .. Len(toWorker) : toWorker[n] \in Ids
           /\ \A n \in 1 .. Len(toPage) :
                  toPage[n].id \in Ids /\ toPage[n].answer \in Answers \ {Pending}
           /\ \A h \in 1 .. Len(held) : held[h] \in 0 .. Len(objects)
           /\ \A n \in 1 .. Len(served) : served[n].id \in Ids /\ served[n].object \in 0 .. Len(objects)
           /\ {Len(requests), Len(promises), Len(toWorker), Len(toPage), Len(held),
               Len(objects), Len(served)} \subseteq Nat
<1>1. /\ \A k \in 1 .. Len(requests) : requests[k] \in [method : Methods, on : Nat]
      /\ \A n \in 1 .. Len(toPage) : toPage[n] \in [id : Ids, answer : Answers \ {Pending}]
      /\ \A n \in 1 .. Len(served) : served[n] \in [id : Ids, object : 0 .. Len(objects)]
  BY ElementOfSeq DEF TypeOK
<1>2. /\ \A k \in 1 .. Len(promises) : promises[k] \in Answers
      /\ \A n \in 1 .. Len(toWorker) : toWorker[n] \in Ids
      /\ \A h \in 1 .. Len(held) : held[h] \in 0 .. Len(objects)
  BY ElementOfSeq DEF TypeOK
<1>3. {Len(requests), Len(promises), Len(toWorker), Len(toPage), Len(held),
       Len(objects), Len(served)} \subseteq Nat
  BY LenProperties DEF TypeOK
<1>4. QED BY <1>1, <1>2, <1>3

(* The handles the page knows, and those it will.                          *)
LEMMA HandleFacts ==
    ASSUME TypeOK
    PROVE  /\ Proxies = {promises[k].handle : k \in 1 .. Len(promises)} \ {0}
           /\ InFlight = {toPage[n].answer.handle : n \in 1 .. Len(toPage)}
<1>1. DOMAIN promises = 1 .. Len(promises) /\ DOMAIN toPage = 1 .. Len(toPage)
  BY LenProperties DEF TypeOK
<1>2. QED BY <1>1 DEF Proxies, InFlight

(* Whether an answer is right depends on the requests up to its own only.  *)
LEMMA RightIsStable ==
    ASSUME NEW rs, NEW more, NEW id \in Nat, NEW a,
           \A k \in 1 .. id : more[k] = rs[k], id > 0
    PROVE  Right(rs, id, a) <=> Right(more, id, a)
<1>1. more[id] = rs[id] OBVIOUS
<1>2. \A k \in 1 .. id - 1 : more[k] = rs[k] OBVIOUS
<1>3. QED BY <1>1, <1>2 DEF Right, Releases

(* All that was told is right: that is the property.                       *)
LEMMA ToldMeans ==
    ASSUME TypeOK, Told
    PROVE  ReleaseIsOrdered
<1>1. DOMAIN promises = 1 .. Len(promises) BY LenProperties DEF TypeOK
<1>2. QED BY <1>1 DEF Told, Right, ReleaseIsOrdered, ReleasedBefore, Releases

-----------------------------------------------------------------------------
LEMMA FacadeInit ==
    ASSUME Init
    PROVE  FacadeInv
<1> USE DEF Init
<1>1. Len(<< >>) = 0 /\ \A S : << >> \in Seq(S) BY EmptySeq
<1>2. TypeOK
  <2>1. Len(requests) <= MaxRequests /\ Len(promises) = Len(requests)
    BY <1>1, MaxRequestsAssumption
  <2>2. modules \in Nat /\ cartesi \in 0 .. modules OBVIOUS
  <2>3. QED BY <1>1, <2>1, <2>2 DEF TypeOK
<1>3. Received = 0 BY <1>1 DEF Received
<1>4. PageInv
  BY <1>1, <1>3 DEF PageInv, Queued, Addressed, Early, AnsweredOnce, Open, Told
<1>5. WorkerInv
  <2>1. Released /\ Past BY <1>1 DEF Released, Past
  <2>2. HeldIsReachable /\ CallsKeepOrder BY DEF HeldIsReachable, CallsKeepOrder
  <2>3. QED BY <2>1, <2>2 DEF WorkerInv
<1>6. QED BY <1>2, <1>4, <1>5 DEF FacadeInv

(* The page issues a request on a handle that the worker has given out.    *)
LEMMA IssueStep ==
    ASSUME FacadeInv, NEW method \in Methods, NEW h \in 0 .. Len(held),
           h = 0 <=> method = "create", Issue(method, h)
    PROVE  FacadeInv'
<1> DEFINE N == Len(requests)
           W == Len(toWorker)
<1> USE DEF FacadeInv, PageInv, WorkerInv
<1>1. N \in Nat /\ W \in Nat /\ W <= N /\ N = Len(promises) /\ N < MaxRequests
      /\ Len(held) \in Nat /\ Len(toPage) \in Nat
  BY Elements DEF Queued, Issue, TypeOK
<1>2. /\ requests' \in Seq([method : Methods, on : Nat]) /\ Len(requests') = N + 1
      /\ \A k \in 1 .. N : requests'[k] = requests[k]
      /\ requests'[N + 1] = [method |-> method, on |-> h]
  BY <1>1, AppendProperties DEF Issue, TypeOK
<1>3. /\ promises' \in Seq(Answers) /\ Len(promises') = N + 1
      /\ \A k \in 1 .. N : promises'[k] = promises[k]
      /\ promises'[N + 1] = Pending
  BY <1>1, AppendProperties, AnswerFacts DEF Issue, TypeOK
<1>4. /\ toWorker' \in Seq(Ids) /\ Len(toWorker') = W + 1
      /\ \A n \in 1 .. W : toWorker'[n] = toWorker[n]
      /\ toWorker'[W + 1] = N + 1
  <2>1. N + 1 \in Ids BY <1>1, MaxRequestsAssumption DEF Ids
  <2>2. QED BY <2>1, AppendProperties DEF Issue, TypeOK
<1>5. UNCHANGED <<toPage, terminated, cartesi, modules, waiting, objects, held, served>>
  BY DEF Issue, workerVars
<1>6. TypeOK'
  <2>1. Len(requests') <= MaxRequests /\ Len(promises') = Len(requests')
    BY <1>1, <1>2, <1>3, MaxRequestsAssumption
  <2>2. QED BY <2>1, <1>2, <1>3, <1>4, <1>5 DEF TypeOK
<1>7. Received' = Received /\ Received \in Nat /\ Received <= N
  BY <1>1, <1>2, <1>4 DEF Received
<1>8. Queued'
  <2>1. Received + (W + 1) = N + 1 BY <1>1 DEF Received
  <2>2. \A n \in 1 .. W + 1 : toWorker'[n] = Received + n
    <3> TAKE n \in 1 .. W + 1
    <3>1. CASE n = W + 1 BY <3>1, <2>1, <1>4
    <3>2. CASE n \in 1 .. W BY <3>2, <1>4 DEF Queued
    <3>3. QED BY <3>1, <3>2, <1>1
  <2>3. QED BY <2>2, <1>1, <1>2, <1>4, <1>7 DEF Queued
<1>9. Addressed'
  <2>1. \A k \in 1 .. N + 1 :
            /\ requests'[k].on <= Len(held')
            /\ requests'[k].on = 0 <=> requests'[k].method = "create"
    <3> TAKE k \in 1 .. N + 1
    <3>1. CASE k = N + 1 BY <3>1, <1>1, <1>2, <1>5
    <3>2. CASE k \in 1 .. N BY <3>2, <1>2, <1>5 DEF Addressed
    <3>3. QED BY <3>1, <3>2, <1>1
  <2>2. \A k \in 1 .. N + 1 : promises'[k].handle <= Len(held')
    <3> TAKE k \in 1 .. N + 1
    <3>1. CASE k = N + 1 BY <3>1, <1>1, <1>3, <1>5 DEF Pending, Answer
    <3>2. CASE k \in 1 .. N BY <3>2, <1>1, <1>3, <1>5 DEF Addressed
    <3>3. QED BY <3>1, <3>2, <1>1
  <2>3. QED BY <2>1, <2>2, <1>2, <1>3, <1>5 DEF Addressed
<1>10. Early'
  <2>1. \A id \in waiting : id \in 1 .. N BY <1>1 DEF Early, TypeOK, Ids
  <2>2. QED BY <2>1, <1>1, <1>2, <1>5, <1>7 DEF Early
<1>11. AnsweredOnce'
  <2>1. \A n \in 1 .. Len(toPage) : toPage[n].id \in 1 .. N
    BY <1>1, <1>7, Elements DEF AnsweredOnce, AnswersUnderWay, Ids
  <2>2. \A n \in 1 .. Len(toPage) : AnswersUnderWay(n)'
    BY <2>1, <1>3, <1>5, <1>7 DEF AnsweredOnce, AnswersUnderWay
  <2>3. \A id \in 1 .. N + 1 : Open(id)' => promises'[id] = Pending
    <3> SUFFICES ASSUME NEW id \in 1 .. N + 1, Open(id)' PROVE promises'[id] = Pending
      OBVIOUS
    <3>1. CASE id = N + 1 BY <3>1, <1>3
    <3>2. CASE id \in 1 .. N
      <4>1. Open(id) BY <3>2, <1>5, <1>7 DEF Open
      <4>2. QED BY <4>1, <3>2, <1>3 DEF AnsweredOnce
    <3>3. QED BY <3>1, <3>2, <1>1
  <2>4. QED BY <2>2, <2>3, <1>2, <1>5 DEF AnsweredOnce
<1>12. Told'
  <2>1. \A n \in 1 .. Len(toPage) : toPage[n].id \in 1 .. N
    BY <1>1, <1>7, Elements DEF AnsweredOnce, AnswersUnderWay, Ids
  <2>2. \A id \in 1 .. N : \A a : Right(requests, id, a) <=> Right(requests', id, a)
    <3> TAKE id \in 1 .. N
    <3> TAKE a
    <3>1. id \in Nat /\ id > 0 /\ \A k \in 1 .. id : requests'[k] = requests[k]
      BY <1>1, <1>2
    <3>2. QED BY <3>1, RightIsStable
  <2>3. \A id \in 1 .. N + 1 : Right(requests', id, promises'[id])
    <3> TAKE id \in 1 .. N + 1
    <3>1. CASE id = N + 1 BY <3>1, <1>3 DEF Right
    <3>2. CASE id \in 1 .. N BY <3>2, <2>2, <1>1, <1>3 DEF Told
    <3>3. QED BY <3>1, <3>2, <1>1
  <2>4. \A n \in 1 .. Len(toPage) : Right(requests', toPage[n].id, toPage[n].answer)
    BY <2>1, <2>2 DEF Told
  <2>5. QED BY <2>3, <2>4, <1>3, <1>5 DEF Told
<1>13. Released'
  <2>1. \A k \in 1 .. Received : requests'[k] = requests[k] BY <1>1, <1>2, <1>7
  <2>2. QED BY <2>1, <1>5, <1>7 DEF Released, Releases
<1>14. Past' BY <1>5, <1>7 DEF Past
<1>15. HeldIsReachable'
  <2>1. /\ Proxies = {promises[k].handle : k \in 1 .. N} \ {0}
        /\ Proxies' = {promises'[k].handle : k \in 1 .. N + 1} \ {0}
    <3>1. DOMAIN promises = 1 .. N /\ DOMAIN promises' = 1 .. N + 1
      BY <1>1, <1>3, LenProperties DEF TypeOK
    <3>2. QED BY <3>1 DEF Proxies
  <2>2. InFlight' = InFlight BY <1>5 DEF InFlight
  <2>3. Proxies \subseteq Proxies'
    <3>1. \A k \in 1 .. N : k \in 1 .. N + 1 /\ promises'[k] = promises[k] BY <1>1, <1>3
    <3>2. QED BY <2>1, <3>1
  <2>4. QED BY <2>2, <2>3, <1>5 DEF HeldIsReachable
<1>16. CallsKeepOrder' BY <1>5 DEF CallsKeepOrder
<1>17. QED BY <1>6, <1>8, <1>9, <1>10, <1>11, <1>12, <1>13, <1>14, <1>15, <1>16

(* A response settles the promise it is for: it is the only one, and the   *)
(* promise is pending.                                                     *)
LEMMA SettleStep ==
    ASSUME FacadeInv, Settle
    PROVE  FacadeInv'
<1> DEFINE N == Len(requests)
           P == Len(toPage)
           r == Head(toPage)
<1> USE DEF FacadeInv, PageInv, WorkerInv
<1>1. N \in Nat /\ N = Len(promises) /\ P \in Nat /\ Received \in Int /\ Received <= N
      /\ Len(toWorker) \in Nat /\ Len(held) \in Nat
  BY Elements DEF TypeOK, Queued, Received
<1>2. /\ P > 0 /\ r = toPage[1]
      /\ toPage' \in Seq([id : Ids, answer : Answers \ {Pending}]) /\ Len(toPage') = P - 1
      /\ \A n \in 1 .. P - 1 : toPage'[n] = toPage[n + 1]
  <2>1. toPage # << >> /\ toPage' = Tail(toPage) BY DEF Settle
  <2>2. P # 0 BY <2>1, EmptySeq DEF TypeOK
  <2>3. r = toPage[1] OBVIOUS
  <2>4. QED BY <1>1, <2>1, <2>2, <2>3, HeadTailProperties DEF TypeOK
<1>3. /\ r.id \in 1 .. N /\ r.id <= Received /\ r.id \notin waiting
      /\ promises[r.id] = Pending /\ r.answer \in Answers \ {Pending}
      /\ \A m \in 1 .. P : toPage[m].id = r.id => m = 1
  <2>1. 1 \in 1 .. P BY <1>1, <1>2
  <2>2. AnswersUnderWay(1) BY <2>1 DEF AnsweredOnce
  <2>3. r.id \in Nat /\ r.id >= 1 /\ r.answer \in Answers \ {Pending}
    BY <2>1, <1>2, Elements, MaxRequestsAssumption DEF Ids
  <2>4. QED BY <1>1, <1>2, <2>2, <2>3 DEF AnswersUnderWay
<1>4. /\ promises' \in Seq(Answers) /\ Len(promises') = N
      /\ \A k \in 1 .. N : promises'[k] = IF k = r.id THEN r.answer ELSE promises[k]
  <2>1. promises' = [promises EXCEPT ![r.id] = r.answer] BY <1>3 DEF Settle
  <2>2. QED BY <2>1, <1>1, <1>3, ExceptSeq DEF TypeOK
<1>5. UNCHANGED <<requests, toWorker, terminated, cartesi, modules, waiting, objects, held, served>>
  BY DEF Settle, workerVars
<1>6. TypeOK'
  <2>1. Len(requests') <= MaxRequests /\ Len(promises') = Len(requests')
    BY <1>1, <1>4, <1>5 DEF TypeOK
  <2>2. QED BY <2>1, <1>2, <1>4, <1>5 DEF TypeOK
<1>7. Received' = Received BY <1>5 DEF Received
<1>8. Queued' BY <1>5, <1>7 DEF Queued
<1>9. Addressed'
  <2>1. \A n \in 1 .. P - 1 : toPage'[n].answer.handle <= Len(held)
    BY <1>1, <1>2 DEF Addressed
  <2>2. r.answer.handle <= Len(held) BY <1>1, <1>2 DEF Addressed
  <2>3. \A k \in 1 .. N : promises'[k].handle <= Len(held) BY <2>2, <1>1, <1>4 DEF Addressed
  <2>4. QED BY <2>1, <2>3, <1>2, <1>4, <1>5 DEF Addressed
<1>10. Early' BY <1>5, <1>7 DEF Early
<1>11. AnsweredOnce'
  <2>1. \A n \in 1 .. P - 1 : AnswersUnderWay(n)'
    <3> TAKE n \in 1 .. P - 1
    <3>1. n + 1 \in 1 .. P /\ n + 1 # 1 BY <1>1
    <3>2. AnswersUnderWay(n + 1) BY <3>1 DEF AnsweredOnce
    <3>3. toPage'[n] = toPage[n + 1] BY <1>2
    <3>4. toPage[n + 1].id # r.id BY <1>3, <3>1
    <3>5. toPage[n + 1].id \in 1 .. N
      BY <3>1, <3>2, <1>1, Elements, MaxRequestsAssumption DEF AnswersUnderWay, Ids
    <3>6. promises'[toPage'[n].id] = Pending BY <3>2, <3>3, <3>4, <3>5, <1>4 DEF AnswersUnderWay
    <3>7. \A m \in 1 .. P - 1 : toPage'[m].id = toPage'[n].id => m = n
      <4> TAKE m \in 1 .. P - 1
      <4>1. m + 1 \in 1 .. P /\ toPage'[m] = toPage[m + 1] BY <1>1, <1>2
      <4>2. toPage[m + 1].id = toPage[n + 1].id => m + 1 = n + 1
        BY <4>1, <3>2 DEF AnswersUnderWay
      <4>3. QED BY <4>1, <4>2, <3>3, <1>1
    <3>8. QED BY <3>2, <3>3, <3>6, <3>7, <1>2, <1>5, <1>7 DEF AnswersUnderWay
  <2>2. \A id \in 1 .. N : Open(id)' => promises'[id] = Pending
    <3> SUFFICES ASSUME NEW id \in 1 .. N, Open(id)' PROVE promises'[id] = Pending
      OBVIOUS
    <3>1. Open(id) BY <1>5, <1>7 DEF Open
    <3>2. id # r.id BY <3>1, <1>1, <1>3 DEF Open
    <3>3. QED BY <3>1, <3>2, <1>4 DEF AnsweredOnce
  <2>3. QED BY <2>1, <2>2, <1>2, <1>5 DEF AnsweredOnce
<1>12. Told'
  <2>1. Right(requests, r.id, r.answer) BY <1>1, <1>2 DEF Told
  <2>2. \A id \in 1 .. N : Right(requests, id, promises'[id])
    <3> TAKE id \in 1 .. N
    <3>1. CASE id = r.id BY <3>1, <2>1, <1>4
    <3>2. CASE id # r.id BY <3>2, <1>1, <1>4 DEF Told
    <3>3. QED BY <3>1, <3>2
  <2>3. \A n \in 1 .. P - 1 : Right(requests, toPage'[n].id, toPage'[n].answer)
    <3> TAKE n \in 1 .. P - 1
    <3>1. n + 1 \in 1 .. P /\ toPage'[n] = toPage[n + 1] BY <1>1, <1>2
    <3>2. QED BY <3>1 DEF Told
  <2>4. QED BY <2>2, <2>3, <1>2, <1>4, <1>5 DEF Told
<1>13. Released' BY <1>5, <1>7 DEF Released
<1>14. Past' BY <1>5, <1>7 DEF Past
<1>15. HeldIsReachable'
  <2>1. /\ Proxies = {promises[k].handle : k \in 1 .. N} \ {0}
        /\ InFlight = {toPage[n].answer.handle : n \in 1 .. P}
    BY <1>1, HandleFacts
  <2>2. /\ Proxies' = {promises'[k].handle : k \in 1 .. N} \ {0}
        /\ InFlight' = {toPage'[n].answer.handle : n \in 1 .. P - 1}
    <3>1. DOMAIN promises' = 1 .. N /\ DOMAIN toPage' = 1 .. P - 1
      BY <1>2, <1>4, LenProperties
    <3>2. QED BY <3>1 DEF Proxies, InFlight
  <2>3. \A h \in Proxies : h \in Proxies'
    <3> TAKE h \in Proxies
    <3>1. PICK k \in 1 .. N : promises[k].handle = h /\ h # 0 BY <2>1
    <3>2. k # r.id BY <3>1, <1>3 DEF Pending, Answer
    <3>3. promises'[k].handle = h BY <3>1, <3>2, <1>4
    <3>4. QED BY <3>1, <3>3, <2>2
  <2>4. \A h \in InFlight \ {0} : h \in Proxies' \cup InFlight'
    <3> TAKE h \in InFlight \ {0}
    <3>1. PICK n \in 1 .. P : toPage[n].answer.handle = h BY <2>1
    <3>2. CASE n = 1
      <4>1. promises'[r.id].handle = h BY <3>1, <3>2, <1>2, <1>3, <1>4
      <4>2. QED BY <4>1, <1>3, <2>2
    <3>3. CASE n # 1
      <4>1. n - 1 \in 1 .. P - 1 /\ (n - 1) + 1 = n BY <3>3, <1>1
      <4>2. toPage'[n - 1].answer.handle = h BY <4>1, <3>1, <1>2
      <4>3. QED BY <4>1, <4>2, <2>2
    <3>4. QED BY <3>2, <3>3
  <2>5. \A h \in DOMAIN held : h # 0 BY <1>1, LenProperties DEF TypeOK
  <2>6. QED BY <2>3, <2>4, <2>5, <1>5 DEF HeldIsReachable
<1>16. CallsKeepOrder' BY <1>5 DEF CallsKeepOrder
<1>17. QED BY <1>6, <1>8, <1>9, <1>10, <1>11, <1>12, <1>13, <1>14, <1>15, <1>16

(* After the worker was stopped nothing needs to reach the page.           *)
LEMMA TerminateStep ==
    ASSUME FacadeInv, Terminate
    PROVE  FacadeInv'
<1> USE DEF FacadeInv, PageInv, WorkerInv
<1>1. UNCHANGED <<requests, promises, toWorker, cartesi, modules, waiting, objects, held, served>>
      /\ terminated' = TRUE /\ Received' = Received
  BY DEF Terminate, pageVars, workerVars, Received
<1>2. /\ toPage' \in Seq([id : Ids, answer : Answers \ {Pending}])
      /\ toPage' = toPage \/ Len(toPage') = 0
  BY EmptySeq DEF Terminate, TypeOK
<1>3. TypeOK' BY <1>1, <1>2 DEF TypeOK
<1>4. Queued' /\ Early' /\ Released' /\ Past' /\ CallsKeepOrder'
  BY <1>1 DEF Queued, Early, Released, Past, CallsKeepOrder
<1>5. Addressed' /\ Told' BY <1>1, <1>2 DEF Addressed, Told
<1>6. AnsweredOnce'
  <2>1. \A n \in 1 .. Len(toPage') : AnswersUnderWay(n)'
    BY <1>1, <1>2 DEF AnsweredOnce, AnswersUnderWay
  <2>2. \A id \in 1 .. Len(requests) : Open(id)' => Open(id) BY <1>1 DEF Open
  <2>3. QED BY <2>1, <2>2, <1>1 DEF AnsweredOnce
<1>7. HeldIsReachable' BY <1>1 DEF HeldIsReachable
<1>8. QED BY <1>3, <1>4, <1>5, <1>6, <1>7

-----------------------------------------------------------------------------
(* The worker takes its next message: the first request not received yet.  *)
LEMMA TakeFacts ==
    ASSUME FacadeInv, toWorker # << >>, toWorker' = Tail(toWorker), requests' = requests
    PROVE  /\ Received \in Nat
           /\ Head(toWorker) = Received + 1 /\ Head(toWorker) \in 1 .. Len(requests)
           /\ Head(toWorker) \notin waiting
           /\ Received' = Received + 1
           /\ toWorker' \in Seq(Ids) /\ Queued'
<1> DEFINE W == Len(toWorker)
<1> USE DEF FacadeInv, PageInv
<1>1. W \in Nat /\ Len(requests) \in Nat /\ W <= Len(requests) BY Elements DEF Queued
<1>2. W # 0 BY EmptySeq DEF TypeOK
<1>3. Head(toWorker) = toWorker[1] OBVIOUS
<1>4. /\ toWorker' \in Seq(Ids) /\ Len(toWorker') = W - 1
      /\ \A n \in 1 .. W - 1 : toWorker'[n] = toWorker[n + 1]
  BY <1>1, HeadTailProperties DEF TypeOK
<1>5. Received \in Nat /\ Received + W = Len(requests) BY <1>1 DEF Received
<1>6. Head(toWorker) = Received + 1 BY <1>1, <1>2, <1>3 DEF Queued
<1>7. Received' = Received + 1 BY <1>1, <1>4 DEF Received
<1>8. \A n \in 1 .. W - 1 : toWorker'[n] = (Received + 1) + n
  <2> TAKE n \in 1 .. W - 1
  <2>1. n + 1 \in 1 .. W BY <1>1
  <2>2. toWorker[n + 1] = Received + (n + 1) BY <2>1 DEF Queued
  <2>3. QED BY <2>2, <1>4, <1>5
<1>9. Queued' BY <1>1, <1>4, <1>7, <1>8 DEF Queued
<1>10. Received + 1 \notin waiting BY <1>5 DEF Early
<1>11. QED BY <1>1, <1>2, <1>4, <1>5, <1>6, <1>7, <1>9, <1>10

(* What all steps of the worker that answer a request have in common.      *)
Turn(id, answer) ==
    /\ ~terminated
    /\ UNCHANGED <<requests, promises, terminated>>
    /\ toPage' = Append(toPage, [id |-> id, answer |-> answer])
    /\ \/ id \in waiting /\ waiting' = waiting \ {id} /\ toWorker' = toWorker
       \/ /\ toWorker # << >> /\ id = Head(toWorker)
          /\ toWorker' = Tail(toWorker) /\ waiting' = waiting

(* The request was open and is not any more.                               *)
LEMMA TurnFacts ==
    ASSUME FacadeInv, NEW id, NEW answer, Turn(id, answer)
    PROVE  /\ id \in 1 .. Len(requests) /\ id \in Ids /\ Open(id)
           /\ Received \in Nat /\ Received' \in {Received, Received + 1}
           /\ id <= Received' /\ id \notin waiting' /\ waiting' \subseteq waiting
           /\ toWorker' \in Seq(Ids) /\ Queued'
           /\ Received' = Received + 1 => id = Received + 1
           /\ id \in waiting \/ (id = Received + 1 /\ Received' = Received + 1)
<1> USE DEF FacadeInv, PageInv
<1>1. Len(requests) \in Nat /\ Len(requests) <= MaxRequests /\ Len(toWorker) \in Nat
      /\ Len(toWorker) <= Len(requests)
  BY Elements DEF TypeOK, Queued
<1>2. Received \in Nat BY <1>1 DEF Received
<1>3. requests' = requests BY DEF Turn
<1>4. CASE id \in waiting /\ waiting' = waiting \ {id} /\ toWorker' = toWorker
  <2>1. id \in Ids /\ id <= Received /\ id <= Len(requests) BY <1>4 DEF TypeOK, Early
  <2>2. Received' = Received BY <1>3, <1>4 DEF Received
  <2>3. Queued' BY <1>3, <1>4, <2>2 DEF Queued
  <2>4. id \in 1 .. Len(requests) BY <2>1, <1>1, MaxRequestsAssumption DEF Ids
  <2>5. Open(id) BY <1>4, <2>4 DEF Open
  <2>6. toWorker' \in Seq(Ids) BY <1>4 DEF TypeOK
  <2>7. Received' # Received + 1 BY <1>2, <2>2
  <2>8. QED BY <1>2, <1>4, <2>1, <2>2, <2>3, <2>4, <2>5, <2>6, <2>7
<1>5. CASE /\ toWorker # << >> /\ id = Head(toWorker)
           /\ toWorker' = Tail(toWorker) /\ waiting' = waiting
  <2>1. /\ id = Received + 1 /\ id \in 1 .. Len(requests) /\ id \notin waiting
        /\ Received' = Received + 1 /\ toWorker' \in Seq(Ids) /\ Queued'
    BY <1>3, <1>5, TakeFacts
  <2>2. id \in Ids BY <2>1, <1>1, MaxRequestsAssumption DEF Ids
  <2>3. QED BY <1>2, <1>5, <2>1, <2>2 DEF Open
<1>6. QED BY <1>4, <1>5 DEF Turn

(* A turn with the right answer keeps what the page relies on.             *)
LEMMA TurnStep ==
    ASSUME FacadeInv, NEW id, NEW answer \in Answers \ {Pending}, Turn(id, answer),
           Right(requests, id, answer),
           Len(held') \in Nat, Len(held) <= Len(held'), answer.handle <= Len(held'),
           cartesi' = 0 => held' = << >>
    PROVE  /\ PageInv'
           /\ toPage' \in Seq([id : Ids, answer : Answers \ {Pending}])
           /\ waiting' \subseteq Ids
           /\ Past /\ \A n \in 1 .. Len(served) : served[n].id <= Received'
           /\ Proxies' = Proxies
           /\ InFlight' = InFlight \cup {answer.handle}
<1> DEFINE N == Len(requests)
           P == Len(toPage)
           response == [id |-> id, answer |-> answer]
<1> USE DEF FacadeInv, PageInv, WorkerInv
<1>1. N \in Nat /\ N = Len(promises) /\ P \in Nat /\ Len(held) \in Nat
  BY Elements DEF TypeOK
<1>2. /\ id \in 1 .. N /\ id \in Ids /\ Open(id)
      /\ Received \in Nat /\ Received' \in {Received, Received + 1}
      /\ id <= Received' /\ id \notin waiting' /\ waiting' \subseteq waiting
      /\ toWorker' \in Seq(Ids) /\ Queued'
      /\ Received' = Received + 1 => id = Received + 1
      /\ id \in waiting \/ (id = Received + 1 /\ Received' = Received + 1)
  BY TurnFacts
<1>3. UNCHANGED <<requests, promises, terminated>> BY DEF Turn
<1>4. /\ toPage' \in Seq([id : Ids, answer : Answers \ {Pending}]) /\ Len(toPage') = P + 1
      /\ \A n \in 1 .. P : toPage'[n] = toPage[n]
      /\ toPage'[P + 1] = response
  <2>1. response \in [id : Ids, answer : Answers \ {Pending}] BY <1>2
  <2>2. QED BY <2>1, AppendProperties DEF Turn, TypeOK
<1>5. promises[id] = Pending BY <1>2 DEF AnsweredOnce
<1>6. \A n \in 1 .. P : /\ toPage[n].id # id
                        /\ toPage[n].id <= Received /\ toPage[n].id \notin waiting
  <2> TAKE n \in 1 .. P
  <2>1. toPage[n].id <= Received /\ toPage[n].id \notin waiting
    BY DEF AnsweredOnce, AnswersUnderWay
  <2>2. QED BY <2>1, <1>2
<1>7. \A n \in 1 .. P : toPage[n].id \in Nat
  BY Elements, MaxRequestsAssumption DEF Ids
<1>8. Addressed'
  <2>1. \A n \in 1 .. P + 1 : toPage'[n].answer.handle <= Len(held')
    <3> TAKE n \in 1 .. P + 1
    <3>1. CASE n = P + 1 BY <3>1, <1>4
    <3>2. CASE n \in 1 .. P
      <4>1. toPage[n].answer.handle <= Len(held) /\ toPage[n].answer.handle \in Nat
        BY <3>2, Elements, AnswerFacts DEF Addressed
      <4>2. QED BY <4>1, <3>2, <1>1, <1>4
    <3>3. QED BY <3>1, <3>2, <1>1
  <2>2. \A k \in 1 .. N : promises[k].handle <= Len(held')
    <3> TAKE k \in 1 .. N
    <3>1. promises[k].handle <= Len(held) /\ promises[k].handle \in Nat
      BY <1>1, Elements, AnswerFacts DEF Addressed
    <3>2. QED BY <3>1, <1>1
  <2>3. \A k \in 1 .. N : requests[k].on <= Len(held')
    <3> TAKE k \in 1 .. N
    <3>1. requests[k].on <= Len(held) /\ requests[k].on \in Nat BY Elements DEF Addressed
    <3>2. QED BY <3>1, <1>1
  <2>4. QED BY <2>1, <2>2, <2>3, <1>1, <1>3, <1>4 DEF Addressed
<1>9. Early'
  <2>1. \A i \in waiting : i \in Nat BY MaxRequestsAssumption DEF TypeOK, Ids
  <2>2. \A i \in waiting' : i <= Received' /\ i <= N /\ requests[i].on = 0
    BY <2>1, <1>2 DEF Early
  <2>3. QED BY <2>2, <1>3 DEF Early
<1>10. AnsweredOnce'
  <2>1. \A n \in 1 .. P + 1 : AnswersUnderWay(n)'
    <3> TAKE n \in 1 .. P + 1
    <3>1. CASE n = P + 1
      <4>1. \A m \in 1 .. P + 1 : toPage'[m].id = id => m = P + 1
        <5> TAKE m \in 1 .. P + 1
        <5>1. CASE m \in 1 .. P BY <5>1, <1>4, <1>6
        <5>2. QED BY <5>1, <1>1
      <4>2. QED BY <4>1, <3>1, <1>2, <1>3, <1>4, <1>5 DEF AnswersUnderWay
    <3>2. CASE n \in 1 .. P
      <4>1. AnswersUnderWay(n) /\ toPage'[n] = toPage[n] BY <3>2, <1>4 DEF AnsweredOnce
      <4>2. \A m \in 1 .. P + 1 : toPage'[m].id = toPage[n].id => m = n
        <5> TAKE m \in 1 .. P + 1
        <5>1. CASE m \in 1 .. P BY <5>1, <4>1, <1>4 DEF AnswersUnderWay
        <5>2. CASE m = P + 1 BY <5>2, <3>2, <1>4, <1>6
        <5>3. QED BY <5>1, <5>2, <1>1
      <4>3. toPage[n].id <= Received' BY <3>2, <1>2, <1>6, <1>7
      <4>4. toPage[n].id \notin waiting' BY <3>2, <1>2, <1>6
      <4>5. QED BY <4>1, <4>2, <4>3, <4>4, <1>3, <1>4 DEF AnswersUnderWay
    <3>3. QED BY <3>1, <3>2, <1>1
  <2>2. \A i \in 1 .. N : Open(i)' => promises[i] = Pending
    <3> SUFFICES ASSUME NEW i \in 1 .. N, Open(i)' PROVE promises[i] = Pending
      OBVIOUS
    <3>1. Open(i) BY <1>1, <1>2 DEF Open
    <3>2. QED BY <3>1 DEF AnsweredOnce
  <2>3. QED BY <2>1, <2>2, <1>3, <1>4 DEF AnsweredOnce
<1>11. Told'
  <2>1. \A n \in 1 .. P + 1 : Right(requests, toPage'[n].id, toPage'[n].answer)
    <3> TAKE n \in 1 .. P + 1
    <3>1. CASE n = P + 1 BY <3>1, <1>4
    <3>2. CASE n \in 1 .. P BY <3>2, <1>4 DEF Told
    <3>3. QED BY <3>1, <3>2, <1>1
  <2>2. QED BY <2>1, <1>1, <1>3, <1>4 DEF Told
<1>12. \A n \in 1 .. Len(served) : served[n].id <= Received'
  <2> TAKE n \in 1 .. Len(served)
  <2>1. served[n].id <= Received /\ served[n].id \in Nat
    BY Elements, MaxRequestsAssumption DEF Past, Ids
  <2>2. QED BY <2>1, <1>2
<1>13. Proxies' = Proxies BY <1>3 DEF Proxies
<1>14. InFlight' = InFlight \cup {answer.handle}
  <2>1. InFlight = {toPage[n].answer.handle : n \in 1 .. P} BY HandleFacts
  <2>2. InFlight' = {toPage'[n].answer.handle : n \in 1 .. P + 1}
    <3>1. DOMAIN toPage' = 1 .. P + 1 BY <1>4, LenProperties
    <3>2. QED BY <3>1 DEF InFlight
  <2>3. InFlight' \subseteq InFlight \cup {answer.handle}
    <3> SUFFICES ASSUME NEW n \in 1 .. P + 1
                 PROVE  toPage'[n].answer.handle \in InFlight \cup {answer.handle}
      BY <2>2
    <3>1. CASE n = P + 1 BY <3>1, <1>4
    <3>2. CASE n \in 1 .. P BY <3>2, <2>1, <1>4
    <3>3. QED BY <3>1, <3>2, <1>1
  <2>4. InFlight \cup {answer.handle} \subseteq InFlight'
    <3>1. \A n \in 1 .. P : toPage[n].answer.handle \in InFlight'
      <4> TAKE n \in 1 .. P
      <4>1. n \in 1 .. P + 1 BY <1>1
      <4>2. QED BY <4>1, <2>2, <1>4
    <3>2. P + 1 \in 1 .. P + 1 BY <1>1
    <3>3. toPage'[P + 1].answer.handle = answer.handle BY <1>4
    <3>4. answer.handle \in InFlight' BY <3>2, <3>3, <2>2
    <3>5. QED BY <3>1, <3>4, <2>1
  <2>5. QED BY <2>3, <2>4
<1>15. QED BY <1>2, <1>4, <1>8, <1>9, <1>10, <1>11, <1>12, <1>13, <1>14 DEF TypeOK

(* What a call comes to: an answer that agrees with the releases received  *)
(* before it, and at most one new handle, on an object that there is.      *)
Unheld(answer) == UNCHANGED <<objects, held>> /\ answer.handle = 0

NewlyHeld(answer) ==
    /\ \E in \in Nat \ {0} : objects' \in {objects, Append(objects, in)}
    /\ \E o \in 1 .. Len(objects') : held' = Append(held, o)
    /\ answer = HandleAnswer

Subject(id) == IF requests[id].on = 0 THEN 0 ELSE held[requests[id].on]

LEMMA PerformFacts ==
    ASSUME FacadeInv, NEW id \in 1 .. Len(requests), NEW module \in Nat \ {0},
           requests[id].method # "release",
           id \in waiting \/ id = Received + 1,
           Perform(id, module)
    PROVE  \E answer \in Answers \ {Pending} :
               /\ toPage' = Append(toPage, [id |-> id, answer |-> answer])
               /\ Right(requests, id, answer)
               /\ Unheld(answer) \/ NewlyHeld(answer)
               /\ served' \in {served, Append(served, [id |-> id, object |-> Subject(id)])}
<1> DEFINE on == requests[id].on
           late == \E k \in 1 .. id - 1 : Releases(requests, k, on)
<1> USE DEF FacadeInv, PageInv, WorkerInv
<1>1. /\ on \in Nat /\ on <= Len(held) /\ (on = 0 <=> requests[id].method = "create")
      /\ Len(held) \in Nat /\ Len(objects) \in Nat /\ Received \in Int
  BY Elements DEF Addressed, Received
<1>2. on # 0 => held[on] \in 0 .. Len(objects)
  <2>1. on # 0 => on \in 1 .. Len(held) BY <1>1
  <2>2. QED BY <2>1, Elements
<1>3. on # 0 => (held[on] = 0 <=> late)
  <2>1. on # 0 => on \in 1 .. Len(held) /\ id = Received + 1 BY <1>1 DEF Early
  <2>2. on # 0 => id - 1 = Received BY <2>1, <1>1
  <2>3. QED BY <2>1, <2>2 DEF Released
<1>4. CASE on # 0 /\ held[on] = 0
  <2>1. /\ Respond(id, Answer("released"))
        /\ UNCHANGED <<objects, held, served>>
    BY <1>4 DEF Perform
  <2>2. Right(requests, id, Answer("released")) BY <1>3, <1>4, AnswerFacts DEF Right
  <2>3. QED BY <2>1, <2>2, AnswerFacts DEF Respond, Unheld
<1>5. CASE on = 0 \/ held[on] # 0
  <2>1. served' = Append(served, [id |-> id, object |-> Subject(id)])
    BY <1>5 DEF Perform, Subject
  <2>2. \A answer : answer.kind # "released" => Right(requests, id, answer)
    BY <1>1, <1>3, <1>5 DEF Right
  <2>3. ASSUME NEW kind \in {"data", "error"}, Respond(id, Answer(kind)), UNCHANGED <<objects, held>>
        PROVE  \E answer \in Answers \ {Pending} :
                   /\ toPage' = Append(toPage, [id |-> id, answer |-> answer])
                   /\ Right(requests, id, answer) /\ Unheld(answer)
    BY <2>2, <2>3, AnswerFacts DEF Respond, Unheld
  <2>4. HandleAnswer \in Answers \ {Pending} /\ HandleAnswer.kind # "released"
    BY <1>1, AnswerFacts DEF HandleAnswer, NextHandle
  <2>5. ASSUME NEW in \in Nat \ {0}, objects' = Append(objects, in), Hold(Len(objects) + 1),
               Respond(id, HandleAnswer)
        PROVE  \E answer \in Answers \ {Pending} :
                   /\ toPage' = Append(toPage, [id |-> id, answer |-> answer])
                   /\ Right(requests, id, answer) /\ NewlyHeld(answer)
    <3>1. Len(objects') = Len(objects) + 1 BY <2>5, AppendProperties DEF TypeOK
    <3>2. Len(objects) + 1 \in 1 .. Len(objects') BY <3>1, <1>1
    <3>3. NewlyHeld(HandleAnswer) BY <2>5, <3>2 DEF NewlyHeld, Hold
    <3>4. QED BY <2>2, <2>4, <2>5, <3>3 DEF Respond
  <2>6. CASE Respond(id, Answer("error")) /\ UNCHANGED <<objects, held>>
    BY <2>1, <2>3, <2>6
  <2>7. CASE Respond(id, Answer("data")) /\ UNCHANGED <<objects, held>>
    BY <2>1, <2>3, <2>7
  <2>8. CASE /\ objects' = Append(objects, module) /\ Hold(Len(objects) + 1)
             /\ Respond(id, HandleAnswer)
    BY <2>1, <2>5, <2>8
  <2>9. CASE /\ requests[id].method = "wrap"
             /\ objects' = Append(objects, objects[held[on]]) /\ Hold(Len(objects) + 1)
             /\ Respond(id, HandleAnswer)
    <3>1. held[on] \in 1 .. Len(objects) BY <1>1, <1>2, <1>5, <2>9
    <3>2. objects[held[on]] \in Nat \ {0} BY <3>1, ElementOfSeq DEF TypeOK
    <3>3. QED BY <2>1, <2>5, <2>9, <3>2
  <2>10. CASE /\ requests[id].method = "self"
              /\ Hold(held[on]) /\ Respond(id, HandleAnswer) /\ UNCHANGED objects
    <3>1. held[on] \in 1 .. Len(objects) BY <1>1, <1>2, <1>5, <2>10
    <3>2. NewlyHeld(HandleAnswer) BY <2>10, <3>1 DEF NewlyHeld, Hold
    <3>3. QED BY <2>1, <2>2, <2>4, <2>10, <3>2 DEF Respond
  <2>11. QED BY <1>1, <1>5, <2>6, <2>7, <2>8, <2>9, <2>10 DEF Perform
<1>6. QED BY <1>4, <1>5

(* A call that is made keeps the invariant, whatever it comes to.          *)
LEMMA CallStep ==
    ASSUME FacadeInv, NEW id \in 1 .. Len(requests), NEW answer \in Answers \ {Pending},
           Turn(id, answer), Right(requests, id, answer),
           requests[id].method # "release",
           Unheld(answer) \/ NewlyHeld(answer),
           served' \in {served, Append(served, [id |-> id, object |-> Subject(id)])},
           modules' \in Nat, cartesi' \in 0 .. modules', cartesi' = 0 => held' = << >>
    PROVE  FacadeInv'
<1> DEFINE H == Len(held)
           S == Len(served)
           call == [id |-> id, object |-> Subject(id)]
<1> USE DEF FacadeInv, PageInv, WorkerInv
<1>1. H \in Nat /\ S \in Nat /\ Len(objects) \in Nat BY Elements
<1>2. /\ id \in Ids /\ Received \in Nat /\ Received' \in {Received, Received + 1}
      /\ id <= Received' /\ toWorker' \in Seq(Ids)
      /\ Received' = Received + 1 => id = Received + 1
      /\ id \in waiting \/ (id = Received + 1 /\ Received' = Received + 1)
  BY TurnFacts
<1>3. UNCHANGED <<requests, promises, terminated>> BY DEF Turn
<1>4. /\ objects' \in Seq(Nat \ {0}) /\ Len(objects') \in Nat
      /\ Len(objects) <= Len(objects')
  <2>1. CASE objects' = objects BY <2>1, <1>1 DEF TypeOK
  <2>2. CASE \E in \in Nat \ {0} : objects' = Append(objects, in)
    BY <2>2, <1>1, AppendProperties DEF TypeOK
  <2>3. QED BY <2>1, <2>2 DEF Unheld, NewlyHeld
<1>5. 0 .. Len(objects) \subseteq 0 .. Len(objects') BY <1>1, <1>4
<1>6. held \in Seq(0 .. Len(objects')) /\ served \in Seq([id : Ids, object : 0 .. Len(objects')])
  <2>1. [id : Ids, object : 0 .. Len(objects)] \subseteq [id : Ids, object : 0 .. Len(objects')]
    BY <1>5
  <2>2. QED BY <1>5, <2>1, SeqMonotonic DEF TypeOK
<1>7. /\ held' \in Seq(0 .. Len(objects')) /\ Len(held') \in Nat /\ H <= Len(held')
      /\ answer.handle <= Len(held')
      /\ \A h \in 1 .. H : held'[h] = held[h]
      /\ Len(held') = H \/ (Len(held') = H + 1 /\ held'[H + 1] # 0 /\ answer.handle = H + 1)
  <2>1. CASE Unheld(answer) BY <2>1, <1>1, <1>6 DEF Unheld
  <2>2. CASE NewlyHeld(answer)
    <3>1. PICK o \in 1 .. Len(objects') : held' = Append(held, o) BY <2>2 DEF NewlyHeld
    <3>2. o \in 0 .. Len(objects') /\ o # 0 BY <1>4
    <3>3. /\ held' \in Seq(0 .. Len(objects')) /\ Len(held') = H + 1
          /\ \A h \in 1 .. H : held'[h] = held[h]
          /\ held'[H + 1] = o
      BY <1>6, <3>1, <3>2, AppendProperties
    <3>4. answer.handle = H + 1 BY <2>2 DEF NewlyHeld, HandleAnswer, NextHandle
    <3>5. Len(held') \in Nat /\ H <= Len(held') /\ answer.handle <= Len(held')
      BY <1>1, <3>3, <3>4
    <3>6. held'[H + 1] # 0 BY <3>2, <3>3
    <3>7. QED BY <3>3, <3>4, <3>5, <3>6
  <2>3. QED BY <2>1, <2>2
<1>8. /\ PageInv'
      /\ toPage' \in Seq([id : Ids, answer : Answers \ {Pending}])
      /\ waiting' \subseteq Ids
      /\ \A n \in 1 .. S : served[n].id <= Received'
      /\ Proxies' = Proxies
      /\ InFlight' = InFlight \cup {answer.handle}
  BY <1>7, TurnStep
<1>9. Subject(id) \in 0 .. Len(objects)
  <2>1. requests[id].on \in Nat /\ requests[id].on <= H BY Elements DEF Addressed
  <2>2. requests[id].on # 0 => held[requests[id].on] \in 0 .. Len(objects)
    BY <2>1, <1>1, Elements
  <2>3. QED BY <2>2, <1>1 DEF Subject
<1>10. \/ served' = served
       \/ /\ served' \in Seq([id : Ids, object : 0 .. Len(objects')])
          /\ Len(served') = S + 1 /\ served'[S + 1] = call
          /\ \A n \in 1 .. S : served'[n] = served[n]
  <2>1. call \in [id : Ids, object : 0 .. Len(objects')] BY <1>2, <1>5, <1>9
  <2>2. CASE served' = Append(served, call) BY <2>1, <2>2, <1>6, AppendProperties
  <2>3. QED BY <2>2
<1>11. TypeOK'
  <2>1. served' \in Seq([id : Ids, object : 0 .. Len(objects')]) BY <1>6, <1>10
  <2>2. QED BY <2>1, <1>2, <1>3, <1>4, <1>7, <1>8 DEF TypeOK
<1>12. Released'
  <2>1. \A h \in 1 .. Len(held') :
            (\E k \in 1 .. Received' : Releases(requests, k, h))
                <=> (\E k \in 1 .. Received : Releases(requests, k, h))
    <3>1. 1 .. Received \subseteq 1 .. Received' BY <1>2
    <3>2. \A k \in 1 .. Received' : k \in 1 .. Received \/ k = id BY <1>2
    <3>3. \A h : ~Releases(requests, id, h) BY DEF Releases
    <3>4. QED BY <3>1, <3>2, <3>3
  <2>2. \A h \in 1 .. H : held'[h] = 0 <=> \E k \in 1 .. Received' : Releases(requests, k, h)
    <3> TAKE h \in 1 .. H
    <3>1. h \in 1 .. Len(held') BY <1>1, <1>7
    <3>2. held'[h] = held[h] BY <1>7
    <3>3. held[h] = 0 <=> \E k \in 1 .. Received : Releases(requests, k, h) BY DEF Released
    <3>4. QED BY <3>1, <3>2, <3>3, <2>1
  <2>3. \A k \in 1 .. Received : ~Releases(requests, k, H + 1)
    <3> TAKE k \in 1 .. Received
    <3>1. k \in 1 .. Len(requests) BY <1>1, <1>2, Elements DEF Queued, Received
    <3>2. requests[k].on <= H /\ requests[k].on \in Nat BY <3>1, Elements DEF Addressed
    <3>3. requests[k].on # H + 1 BY <3>2, <1>1
    <3>4. QED BY <3>3 DEF Releases
  <2>4. \A h \in 1 .. Len(held') : h \in 1 .. H \/ (h = H + 1 /\ Len(held') = H + 1) BY <1>1, <1>7
  <2>5. \A h \in 1 .. Len(held') : held'[h] = 0 <=> \E k \in 1 .. Received' : Releases(requests, k, h)
    BY <2>1, <2>2, <2>3, <2>4, <1>1, <1>7
  <2>6. QED BY <2>5, <1>3 DEF Released
<1>13. Past'
  <2>1. CASE served' = served BY <2>1, <1>8 DEF Past
  <2>2. CASE Len(served') = S + 1 /\ served'[S + 1] = call /\ \A n \in 1 .. S : served'[n] = served[n]
    <3>1. \A n \in 1 .. S + 1 : n \in 1 .. S \/ n = S + 1 BY <1>1
    <3>2. QED BY <2>2, <3>1, <1>2, <1>8 DEF Past
  <2>3. QED BY <2>1, <2>2, <1>10
<1>14. HeldIsReachable'
  <2>1. DOMAIN held = 1 .. H /\ DOMAIN held' = 1 .. Len(held')
    BY <1>7, LenProperties DEF TypeOK
  <2>2. \A h \in 1 .. Len(held') : h \in 1 .. H \/ h = answer.handle
    <3>1. CASE Len(held') = H BY <3>1
    <3>2. CASE Len(held') = H + 1 /\ answer.handle = H + 1 BY <3>2, <1>1
    <3>3. QED BY <3>1, <3>2, <1>7
  <2>3. QED BY <2>1, <2>2, <1>3, <1>7, <1>8 DEF HeldIsReachable
<1>15. CallsKeepOrder'
  <2>1. CASE served' = served BY <2>1 DEF CallsKeepOrder
  <2>2. CASE /\ served' \in Seq([id : Ids, object : 0 .. Len(objects')])
             /\ Len(served') = S + 1 /\ served'[S + 1] = call
             /\ \A n \in 1 .. S : served'[n] = served[n]
    <3>1. DOMAIN served = 1 .. S /\ DOMAIN served' = 1 .. S + 1
      BY <2>2, LenProperties DEF TypeOK
    <3>2. SUFFICES ASSUME NEW m \in 1 .. S + 1, NEW n \in 1 .. S + 1, m < n,
                          served'[m].object = served'[n].object, served'[n].object # 0
                   PROVE  served'[m].id < served'[n].id
      BY <3>1 DEF CallsKeepOrder
    <3>3. m \in 1 .. S BY <3>2, <1>1
    <3>4. CASE n \in 1 .. S BY <3>1, <3>2, <3>3, <3>4, <2>2 DEF CallsKeepOrder
    <3>5. CASE n = S + 1
      <4>1. Subject(id) # 0 BY <3>2, <3>5, <2>2
      <4>2. id \notin waiting BY <4>1 DEF Subject, Early
      <4>3. id = Received + 1 BY <4>2, <1>2
      <4>4. served[m].id <= Received /\ served[m].id \in Nat
        BY <3>3, Elements, MaxRequestsAssumption DEF Past, Ids
      <4>5. QED BY <4>3, <4>4, <3>3, <3>5, <2>2, <1>2
    <3>6. QED BY <3>4, <3>5, <1>1
  <2>3. QED BY <2>1, <2>2, <1>10
<1>16. QED BY <1>8, <1>11, <1>12, <1>13, <1>14, <1>15


-----------------------------------------------------------------------------
(* A call that comes before there is a module is on no handle: it waits.   *)
LEMMA EarlyCallStep ==
    ASSUME FacadeInv, ReceiveEarlyCall
    PROVE  FacadeInv'
<1> DEFINE id == Head(toWorker)
           N == Len(requests)
<1> USE DEF FacadeInv, PageInv, WorkerInv
<1>1. /\ toWorker # << >> /\ toWorker' = Tail(toWorker)
      /\ requests[id].method # "release" /\ cartesi = 0
      /\ waiting' = waiting \cup {id}
      /\ UNCHANGED <<requests, promises, terminated>>
      /\ UNCHANGED <<toPage, cartesi, modules, objects, held, served>>
  BY DEF ReceiveEarlyCall, Receive, pageVars
<1>2. /\ Received \in Nat /\ id = Received + 1 /\ id \in 1 .. N /\ id \notin waiting
      /\ Received' = Received + 1 /\ toWorker' \in Seq(Ids) /\ Queued'
  BY <1>1, TakeFacts
<1>3. id \in Ids
  <2>1. N \in Nat /\ N <= MaxRequests BY Elements DEF TypeOK
  <2>2. QED BY <2>1, <1>2, MaxRequestsAssumption DEF Ids
<1>4. requests[id].on = 0
  <2>1. Len(held) = 0 BY <1>1, EmptySeq DEF Early
  <2>2. requests[id].on \in Nat /\ requests[id].on <= 0 BY <2>1, <1>2, Elements DEF Addressed
  <2>3. QED BY <2>2
<1>5. TypeOK' BY <1>1, <1>2, <1>3 DEF TypeOK
<1>6. Addressed' BY <1>1 DEF Addressed
<1>7. Early'
  <2>1. \A i \in waiting : i \in Nat BY MaxRequestsAssumption DEF TypeOK, Ids
  <2>2. \A i \in waiting : i <= Received' /\ i <= N /\ requests[i].on = 0
    BY <2>1, <1>2 DEF Early
  <2>3. id <= Received' /\ id <= N BY <1>2
  <2>4. QED BY <2>2, <2>3, <1>1, <1>4 DEF Early
<1>8. AnsweredOnce'
  <2>1. \A i \in 1 .. N : Open(i)' => Open(i) BY <1>1, <1>2 DEF Open
  <2>2. \A n \in 1 .. Len(toPage) : AnswersUnderWay(n)'
    <3> TAKE n \in 1 .. Len(toPage)
    <3>1. AnswersUnderWay(n) BY DEF AnsweredOnce
    <3>2. toPage[n].id \in Nat BY Elements, MaxRequestsAssumption DEF Ids
    <3>3. toPage[n].id <= Received' /\ toPage[n].id \notin waiting'
      BY <3>1, <3>2, <1>1, <1>2 DEF AnswersUnderWay
    <3>4. QED BY <3>1, <3>3, <1>1 DEF AnswersUnderWay
  <2>3. QED BY <2>1, <2>2, <1>1 DEF AnsweredOnce
<1>9. Told' BY <1>1 DEF Told
<1>10. Released'
  <2>1. \A h : ~Releases(requests, id, h) BY <1>1 DEF Releases
  <2>2. \A k \in 1 .. Received' : k \in 1 .. Received \/ k = id BY <1>2
  <2>3. 1 .. Received \subseteq 1 .. Received' BY <1>2
  <2>4. QED BY <2>1, <2>2, <2>3, <1>1 DEF Released
<1>11. Past'
  <2>1. \A n \in 1 .. Len(served) : served[n].id \in Nat
    BY Elements, MaxRequestsAssumption DEF Ids
  <2>2. QED BY <2>1, <1>1, <1>2 DEF Past
<1>12. HeldIsReachable' BY <1>1 DEF HeldIsReachable, Proxies, InFlight
<1>13. CallsKeepOrder' BY <1>1 DEF CallsKeepOrder
<1>14. QED BY <1>2, <1>5, <1>6, <1>7, <1>8, <1>9, <1>10, <1>11, <1>12, <1>13

(* A release puts its handle out of use, and none besides.                 *)
LEMMA ReleaseStep ==
    ASSUME FacadeInv, ReceiveRelease
    PROVE  FacadeInv'
<1> DEFINE id == Head(toWorker)
           on == requests[id].on
           H == Len(held)
<1> USE DEF FacadeInv, PageInv, WorkerInv
<1>1. /\ toWorker # << >> /\ toWorker' = Tail(toWorker)
      /\ requests[id].method = "release"
      /\ UNCHANGED <<requests, promises, terminated>>
      /\ UNCHANGED <<cartesi, modules, waiting, objects, served>>
      /\ held' = [held EXCEPT ![on] = 0]
      /\ Turn(id, Answer("data"))
  BY DEF ReceiveRelease, Receive, Respond, Turn, pageVars
<1>2. /\ Received \in Nat /\ id = Received + 1 /\ id \in 1 .. Len(requests)
      /\ Received' = Received + 1 /\ toWorker' \in Seq(Ids)
  BY <1>1, TakeFacts
<1>3. H \in Nat /\ on \in 1 .. H /\ Len(objects) \in Nat
  <2>1. on \in Nat /\ on # 0 /\ on <= H /\ H \in Nat /\ Len(objects) \in Nat
    BY <1>1, <1>2, Elements DEF Addressed
  <2>2. QED BY <2>1
<1>4. /\ held' \in Seq(0 .. Len(objects)) /\ Len(held') = H
      /\ \A h \in 1 .. H : held'[h] = IF h = on THEN 0 ELSE held[h]
  BY <1>1, <1>3, ExceptSeq DEF TypeOK
<1>5. Answer("data") \in Answers \ {Pending} /\ Answer("data").handle = 0 BY AnswerFacts
<1>6. Right(requests, id, Answer("data")) BY <1>1 DEF Right
<1>7. cartesi' # 0 BY <1>1, <1>3, EmptySeq DEF Early
<1>8. /\ PageInv'
      /\ toPage' \in Seq([id : Ids, answer : Answers \ {Pending}])
      /\ \A n \in 1 .. Len(served) : served[n].id <= Received'
      /\ Proxies' = Proxies
      /\ InFlight' = InFlight \cup {0}
  <2>1. Len(held') \in Nat /\ H <= Len(held') /\ Answer("data").handle <= Len(held')
    BY <1>3, <1>4, <1>5
  <2>2. InFlight' = InFlight \cup {Answer("data").handle}
    BY <2>1, <1>1, <1>5, <1>6, <1>7, TurnStep
  <2>3. QED BY <2>1, <2>2, <1>1, <1>5, <1>6, <1>7, TurnStep
<1>9. TypeOK' BY <1>1, <1>2, <1>4, <1>8 DEF TypeOK
<1>10. Released'
  <2> SUFFICES ASSUME NEW h \in 1 .. H
               PROVE  held'[h] = 0 <=> \E k \in 1 .. Received' : Releases(requests, k, h)
    BY <1>1, <1>4 DEF Released
  <2>1. requests[id] = [method |-> "release", on |-> on]
    <3>1. requests[id] \in [method : Methods, on : Nat] BY <1>2, ElementOfSeq DEF TypeOK
    <3>2. QED BY <3>1, <1>1
  <2>2. \A k \in 1 .. Received' : k \in 1 .. Received \/ k = id BY <1>2
  <2>3. 1 .. Received \subseteq 1 .. Received' /\ id \in 1 .. Received' BY <1>2
  <2>4. CASE h = on BY <2>1, <2>3, <2>4, <1>4 DEF Releases
  <2>5. CASE h # on
    <3>1. ~Releases(requests, id, h) BY <2>1, <2>5 DEF Releases
    <3>2. held'[h] = held[h] BY <2>5, <1>4
    <3>3. held[h] = 0 <=> \E k \in 1 .. Received : Releases(requests, k, h) BY DEF Released
    <3>4. QED BY <3>1, <3>2, <3>3, <2>2, <2>3
  <2>6. QED BY <2>4, <2>5
<1>11. Past' BY <1>1, <1>8 DEF Past
<1>12. HeldIsReachable'
  <2>1. DOMAIN held = 1 .. H /\ DOMAIN held' = 1 .. H
    BY <1>4, LenProperties DEF TypeOK
  <2>2. QED BY <2>1, <1>1, <1>4, <1>8 DEF HeldIsReachable
<1>13. CallsKeepOrder' BY <1>1 DEF CallsKeepOrder
<1>14. QED BY <1>8, <1>9, <1>10, <1>11, <1>12, <1>13

(* A call that comes when there is a module is made in one turn.           *)
LEMMA ReceiveCallStep ==
    ASSUME FacadeInv, ReceiveCall
    PROVE  FacadeInv'
<1> DEFINE id == Head(toWorker)
<1> USE DEF FacadeInv
<1>1. /\ ~terminated /\ toWorker # << >> /\ toWorker' = Tail(toWorker)
      /\ requests[id].method # "release" /\ cartesi # 0
      /\ UNCHANGED <<requests, promises, terminated, cartesi, modules, waiting>>
      /\ Perform(id, cartesi)
  BY DEF ReceiveCall, Receive, pageVars
<1>2. id \in 1 .. Len(requests) /\ id = Received + 1 BY <1>1, TakeFacts
<1>3. cartesi \in Nat \ {0} /\ modules' \in Nat /\ cartesi' \in 0 .. modules' /\ cartesi' # 0
  BY <1>1 DEF TypeOK
<1>4. PICK answer \in Answers \ {Pending} :
          /\ toPage' = Append(toPage, [id |-> id, answer |-> answer])
          /\ Right(requests, id, answer)
          /\ Unheld(answer) \/ NewlyHeld(answer)
          /\ served' \in {served, Append(served, [id |-> id, object |-> Subject(id)])}
  BY <1>1, <1>2, <1>3, PerformFacts
<1>5. Turn(id, answer) BY <1>1, <1>4 DEF Turn
<1>6. QED BY <1>1, <1>2, <1>3, <1>4, <1>5, CallStep

(* A call that has waited for its module is made on it.                    *)
LEMMA InstantiatedStep ==
    ASSUME FacadeInv, NEW id \in Ids, Instantiated(id)
    PROVE  FacadeInv'
<1> USE DEF FacadeInv
<1>1. /\ ~terminated /\ id \in waiting /\ waiting' = waiting \ {id}
      /\ modules' = modules + 1 /\ cartesi' = modules + 1
      /\ UNCHANGED <<requests, promises, terminated, toWorker>>
      /\ Perform(id, modules + 1)
  BY DEF Instantiated, pageVars
<1>2. id \in 1 .. Len(requests) /\ requests[id].method # "release"
  <2>1. id <= Len(requests) /\ requests[id].on = 0 BY <1>1 DEF PageInv, Early
  <2>2. id \in 1 .. Len(requests) BY <2>1, Elements, MaxRequestsAssumption DEF Ids
  <2>3. requests[id].method = "create" BY <2>1, <2>2 DEF PageInv, Addressed
  <2>4. QED BY <2>2, <2>3
<1>3. /\ modules + 1 \in Nat \ {0} /\ modules' \in Nat
      /\ cartesi' \in 0 .. modules' /\ cartesi' # 0
  BY <1>1 DEF TypeOK
<1>4. PICK answer \in Answers \ {Pending} :
          /\ toPage' = Append(toPage, [id |-> id, answer |-> answer])
          /\ Right(requests, id, answer)
          /\ Unheld(answer) \/ NewlyHeld(answer)
          /\ served' \in {served, Append(served, [id |-> id, object |-> Subject(id)])}
  BY <1>1, <1>2, <1>3, PerformFacts
<1>5. Turn(id, answer) BY <1>1, <1>4 DEF Turn
<1>6. QED BY <1>2, <1>3, <1>4, <1>5, CallStep

(* A call whose module could not be built is answered with the error.      *)
LEMMA InstantiationFailsStep ==
    ASSUME FacadeInv, NEW id \in Ids, InstantiationFails(id)
    PROVE  FacadeInv'
<1> USE DEF FacadeInv
<1>1. /\ ~terminated /\ id \in waiting /\ waiting' = waiting \ {id}
      /\ UNCHANGED <<requests, promises, terminated, toWorker>>
      /\ UNCHANGED <<cartesi, modules, objects, held, served>>
      /\ Turn(id, Answer("error"))
  BY DEF InstantiationFails, Respond, Turn, pageVars
<1>2. id \in 1 .. Len(requests) /\ requests[id].method = "create"
  <2>1. id <= Len(requests) /\ requests[id].on = 0 BY <1>1 DEF PageInv, Early
  <2>2. id \in 1 .. Len(requests) BY <2>1, Elements, MaxRequestsAssumption DEF Ids
  <2>3. QED BY <2>1, <2>2 DEF PageInv, Addressed
<1>3. Answer("error") \in Answers \ {Pending} /\ Unheld(Answer("error"))
  BY <1>1, AnswerFacts DEF Unheld
<1>4. Right(requests, id, Answer("error")) BY <1>2 DEF Right
<1>5. modules' \in Nat /\ cartesi' \in 0 .. modules' /\ (cartesi' = 0 => held' = << >>)
  BY <1>1 DEF TypeOK, PageInv, Early
<1>6. QED BY <1>1, <1>2, <1>3, <1>4, <1>5, CallStep

-----------------------------------------------------------------------------
LEMMA FacadeStep ==
    ASSUME FacadeInv, [Next]_vars
    PROVE  FacadeInv'
<1>1. CASE CallApi
  <2>1. 0 \in 0 .. Len(held) BY Elements DEF FacadeInv
  <2>2. QED BY <1>1, <2>1, IssueStep DEF CallApi, Methods
<1>2. ASSUME NEW method \in Methods, NEW h \in Proxies, CallProxy(method, h)
      PROVE  FacadeInv'
  <2>1. PICK k \in 1 .. Len(promises) : promises[k].handle = h /\ h # 0
    BY HandleFacts DEF FacadeInv
  <2>2. h \in 0 .. Len(held)
    <3>1. promises[k].handle \in Nat BY <2>1, Elements, AnswerFacts DEF FacadeInv
    <3>2. promises[k].handle <= Len(held) BY DEF FacadeInv, PageInv, Addressed
    <3>3. QED BY <2>1, <3>1, <3>2, Elements DEF FacadeInv
  <2>3. QED BY <1>2, <2>1, <2>2, IssueStep DEF CallProxy
<1>3. CASE Settle BY <1>3, SettleStep
<1>4. CASE Terminate BY <1>4, TerminateStep
<1>5. CASE ReceiveRelease BY <1>5, ReleaseStep
<1>6. CASE ReceiveEarlyCall BY <1>6, EarlyCallStep
<1>7. CASE ReceiveCall BY <1>7, ReceiveCallStep
<1>8. ASSUME NEW id \in Ids, Instantiated(id) \/ InstantiationFails(id)
      PROVE  FacadeInv'
  BY <1>8, InstantiatedStep, InstantiationFailsStep
<1>9. CASE UNCHANGED vars
  <2>1. UNCHANGED <<requests, promises, toWorker, toPage, terminated>>
        /\ UNCHANGED <<cartesi, modules, waiting, objects, held, served>>
    BY <1>9 DEF vars, pageVars, workerVars
  <2>2. TypeOK' BY <2>1 DEF FacadeInv, TypeOK
  <2>3. Queued' /\ Addressed' /\ Early' /\ AnsweredOnce' /\ Told'
    BY <2>1 DEF FacadeInv, PageInv, Received, Queued, Addressed, Early,
                AnsweredOnce, Open, AnswersUnderWay, Told
  <2>4. Released' /\ Past' /\ HeldIsReachable' /\ CallsKeepOrder'
    BY <2>1 DEF FacadeInv, WorkerInv, Received, Released, Past, HeldIsReachable,
                Proxies, InFlight, CallsKeepOrder
  <2>5. QED BY <2>2, <2>3, <2>4 DEF FacadeInv, PageInv, WorkerInv
<1>10. QED BY <1>1, <1>2, <1>3, <1>4, <1>5, <1>6, <1>7, <1>8, <1>9 DEF Next

LEMMA FacadeInvariant == Spec => []FacadeInv
BY FacadeInit, FacadeStep, PTL DEF Spec

(***************************************************************************)
(* The facade's types: connectWorker and serve only ever give a promise,   *)
(* a response, a handle and an object the values WorkerFacade lists.       *)
(***************************************************************************)
THEOREM TypeCorrect == Spec => []TypeOK
<1>1. FacadeInv => TypeOK BY DEF FacadeInv
<1>2. QED BY <1>1, FacadeInvariant, PTL

(***************************************************************************)
(* For any number of requests, a call through a proxy is refused as        *)
(* released exactly if the page asked for the release of that proxy        *)
(* before the call (release in server.ts, resolve in its call).            *)
(***************************************************************************)
THEOREM ReleasesStayInOrder == Spec => []ReleaseIsOrdered
<1>1. FacadeInv => ReleaseIsOrdered BY ToldMeans DEF FacadeInv, PageInv
<1>2. QED BY <1>1, FacadeInvariant, PTL

(***************************************************************************)
(* The page can release whatever the worker holds: no handle is lost on    *)
(* its way through hold in server.ts and the proxies of client.ts.         *)
(***************************************************************************)
THEOREM ObjectsStayReachable == Spec => []HeldIsReachable
<1>1. FacadeInv => HeldIsReachable BY DEF FacadeInv, WorkerInv
<1>2. QED BY <1>1, FacadeInvariant, PTL

(***************************************************************************)
(* Calls on one object are made in the order in which the page issued      *)
(* them, although serve awaits a module before some of them.               *)
(***************************************************************************)
THEOREM CallsStayInOrder == Spec => []CallsKeepOrder
<1>1. FacadeInv => CallsKeepOrder BY DEF FacadeInv, WorkerInv
<1>2. QED BY <1>1, FacadeInvariant, PTL

=============================================================================
