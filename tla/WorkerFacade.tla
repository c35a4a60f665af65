---------------------------- MODULE WorkerFacade ----------------------------
(***************************************************************************)
(* The browser facade of the machine package: connectWorker on a page      *)
(* (browser/client.ts) and serve in a worker (browser/server.ts), joined   *)
(* by two message channels that keep their order.                          *)
(*                                                                         *)
(* A page issues requests through proxies without waiting for earlier      *)
(* answers; the worker keeps the objects and names them by handles.  A     *)
(* request is named by its id.  Handle h is the h-th the worker gave out,  *)
(* object o the o-th that was made, 0 is no handle and no object.          *)
(***************************************************************************)
EXTENDS Naturals, Sequences

CONSTANT MaxRequests    \* bound: how many requests the page issues

ASSUME MaxRequestsAssumption == MaxRequests \in Nat

Ids == 1..MaxRequests

(* create makes a machine; wrap is rollups(machine); self a method that    *)
(* returns its receiver, as the store of a local rollups machine does;     *)
(* fetch any method that returns plain data.                               *)
Methods == {"create", "wrap", "self", "fetch", "release"}

Answers ==
    [kind : {"pending", "data", "error", "released"}, handle : {0}]
    \cup [kind : {"handle"}, handle : Nat \ {0}]

Answer(kind) == [kind |-> kind, handle |-> 0]
Pending == Answer("pending")

VARIABLES
    requests,   \* what the page has asked, by id: a method and a handle
    promises,   \* what each request's promise has settled to
    toWorker,   \* ids of the requests posted to the worker
    toPage,     \* responses posted to the page
    terminated, \* has the page stopped the worker?
    cartesi,    \* the module calls are made on, 0 before there is one
    modules,    \* how many modules were instantiated
    waiting,    \* the calls that are waiting for a module of their own
    objects,    \* the module each object lives in
    held,       \* the object behind each handle, 0 after its release
    served      \* the calls made so far, in order, with their objects (history)

pageVars == <<requests, promises>>
workerVars == <<cartesi, modules, waiting, objects, held, served>>
vars == <<pageVars, toWorker, toPage, terminated, workerVars>>

TypeOK ==
    /\ requests \in Seq([method : Methods, on : Nat])
    /\ Len(requests) <= MaxRequests
    /\ promises \in Seq(Answers) /\ Len(promises) = Len(requests)
    /\ toWorker \in Seq(Ids)
    /\ toPage \in Seq([id : Ids, answer : Answers \ {Pending}])
    /\ terminated \in BOOLEAN
    /\ modules \in Nat /\ cartesi \in 0..modules
    /\ waiting \subseteq Ids
    /\ objects \in Seq(Nat \ {0})
    /\ held \in Seq(0..Len(objects))
    /\ served \in Seq([id : Ids, object : 0..Len(objects)])

Init ==
    /\ requests = << >> /\ promises = << >>
    /\ toWorker = << >> /\ toPage = << >>
    /\ terminated = FALSE
    /\ cartesi = 0 /\ modules = 0
    /\ waiting = {}
    /\ objects = << >> /\ held = << >>
    /\ served = << >>

---------------------------------------------------------------------------
(* The page.                                                               *)

(* The handles the page has a proxy for, released or not.                  *)
Proxies == {promises[id].handle : id \in DOMAIN promises} \ {0}

Issue(method, on) ==
    /\ Len(requests) < MaxRequests
    /\ requests' = Append(requests, [method |-> method, on |-> on])
    /\ promises' = Append(promises, Pending)
    /\ toWorker' = Append(toWorker, Len(requests) + 1)
    /\ UNCHANGED <<toPage, terminated, workerVars>>

CallApi == Issue("create", 0)

CallProxy(method, h) ==
    /\ method \in Methods \ {"create"}
    /\ h \in Proxies
    /\ Issue(method, h)

(* A response settles the promise of its request.                          *)
Settle ==
    /\ toPage # << >>
    /\ toPage' = Tail(toPage)
    /\ LET response == Head(toPage) IN
        promises' = IF promises[response.id] = Pending
                    THEN [promises EXCEPT ![response.id] = response.answer]
                    ELSE promises
    /\ UNCHANGED <<requests, toWorker, terminated, workerVars>>

(* The worker is stopped; responses under way may be lost with it.         *)
Terminate ==
    /\ ~terminated
    /\ terminated' = TRUE
    /\ toPage' \in {toPage, << >>}
    /\ UNCHANGED <<pageVars, toWorker, workerVars>>

---------------------------------------------------------------------------
(* The worker.                                                             *)

Respond(id, answer) == toPage' = Append(toPage, [id |-> id, answer |-> answer])

Hold(object) == held' = Append(held, object)

(* The next handle is one past the last one given out, never one that was  *)
(* released.                                                               *)
NextHandle == Len(held) + 1

(* Seeded fault: the object is held, but crosses as if it were plain data.  *)
HandleAnswerIsData == Answer("data")

HandleAnswer == [kind |-> "handle", handle |-> NextHandle]

(* A call is made, on the given module: its handle is resolved, and the    *)
(* method found, applied and answered, in one turn of the event loop.      *)
Perform(id, module) ==
    LET request == requests[id]
        object == IF request.on = 0 THEN 0 ELSE held[request.on]
        Return == /\ Respond(id, Answer("data"))
                  /\ UNCHANGED <<objects, held>>
        Throw == /\ Respond(id, Answer("error"))
                 /\ UNCHANGED <<objects, held>>
        Make(in) == /\ objects' = Append(objects, in)
                    /\ Hold(Len(objects) + 1)
                    /\ Respond(id, HandleAnswer)
        ReturnSelf == /\ Hold(object)
                      /\ Respond(id, HandleAnswer)
                      /\ UNCHANGED objects
    IN  IF request.on # 0 /\ object = 0
        THEN /\ Respond(id, Answer("released"))
             /\ UNCHANGED <<objects, held, served>>
        ELSE /\ served' = Append(served, [id |-> id, object |-> object])
             /\ \/ Throw
                \/ request.method = "fetch" /\ Return
                \/ request.method = "create" /\ Make(module)
                \/ request.method = "wrap" /\ Make(objects[object])
                \/ request.method = "self" /\ ReturnSelf

(* The worker takes the next message if it is of the given kind.           *)
Receive(isRelease) ==
    /\ ~terminated
    /\ toWorker # << >>
    /\ toWorker' = Tail(toWorker)
    /\ (requests[Head(toWorker)].method = "release") = isRelease
    /\ UNCHANGED <<pageVars, terminated>>

(* Seeded fault: the release is answered and the object kept.              *)
ReceiveReleaseKeeps ==
    /\ Receive(TRUE)
    /\ Respond(Head(toWorker), Answer("data"))
    /\ UNCHANGED <<cartesi, modules, waiting, objects, held, served>>

ReceiveRelease ==
    /\ Receive(TRUE)
    /\ held' = [held EXCEPT ![requests[Head(toWorker)].on] = 0]
    /\ Respond(Head(toWorker), Answer("data"))
    /\ UNCHANGED <<cartesi, modules, waiting, objects, served>>

(* Seeded fault: a call waits also when the module is there, as it would   *)
(* if the assignment always awaited.                                       *)
ReceiveAnyCall ==
    /\ Receive(FALSE)
    /\ waiting' = waiting \cup {Head(toWorker)}
    /\ UNCHANGED <<toPage, cartesi, modules, objects, held, served>>

(* There is no module yet: the call waits for one.                         *)
ReceiveEarlyCall ==
    /\ Receive(FALSE)
    /\ cartesi = 0
    /\ waiting' = waiting \cup {Head(toWorker)}
    /\ UNCHANGED <<toPage, cartesi, modules, objects, held, served>>

ReceiveCall ==
    /\ Receive(FALSE)
    /\ cartesi # 0
    /\ Perform(Head(toWorker), cartesi)
    /\ UNCHANGED <<cartesi, modules, waiting>>

(* The module a call has been waiting for is there: the call assigns it,   *)
(* whatever module another call may have assigned in between, and goes on. *)
Instantiated(id) ==
    /\ ~terminated
    /\ id \in waiting
    /\ waiting' = waiting \ {id}
    /\ modules' = modules + 1
    /\ cartesi' = modules + 1
    /\ Perform(id, modules + 1)
    /\ UNCHANGED <<pageVars, toWorker, terminated>>

(* Seeded fault: an instantiation that fails is not answered.              *)
InstantiationFailsSilently(id) ==
    /\ ~terminated
    /\ id \in waiting
    /\ waiting' = waiting \ {id}
    /\ UNCHANGED <<pageVars, toWorker, toPage, terminated, cartesi, modules, objects, held, served>>

InstantiationFails(id) ==
    /\ ~terminated
    /\ id \in waiting
    /\ waiting' = waiting \ {id}
    /\ Respond(id, Answer("error"))
    /\ UNCHANGED <<pageVars, toWorker, terminated, cartesi, modules, objects, held, served>>

Next ==
    \/ CallApi
    \/ \E method \in Methods, h \in Proxies : CallProxy(method, h)
    \/ Settle
    \/ Terminate
    \/ ReceiveRelease \/ ReceiveEarlyCall \/ ReceiveCall
    \/ \E id \in Ids : Instantiated(id) \/ InstantiationFails(id)

(* Event loops take their messages, and a module is built or fails to be;  *)
(* what the page asks, and whether it stops the worker, is up to the page. *)
Fairness ==
    /\ WF_vars(Settle)
    /\ WF_vars(ReceiveRelease \/ ReceiveEarlyCall \/ ReceiveCall)
    /\ \A id \in Ids : WF_vars(Instantiated(id) \/ InstantiationFails(id))

Spec == Init /\ [][Next]_vars /\ Fairness

---------------------------------------------------------------------------

(* The release of h was asked for before request id.                       *)
ReleasedBefore(h, id) ==
    \E k \in 1 .. id - 1 : requests[k] = [method |-> "release", on |-> h]

(***************************************************************************)
(* Releases take effect in the order in which the page asks for them:      *)
(* "calling a method on a proxy that was already released rejects"         *)
(* (connectWorker.mdx), a call issued before the release never does, and   *)
(* neither does one through another proxy of the same object.              *)
(***************************************************************************)
ReleaseIsOrdered ==
    \A id \in DOMAIN promises :
        /\ promises[id] # Pending
        /\ requests[id].method \notin {"create", "release"}
        => (promises[id].kind = "released" <=> ReleasedBefore(requests[id].on, id))

(***************************************************************************)
(* The page can release all that the worker holds: each handle in use is   *)
(* one the page has a proxy for, or is on its way to the page.             *)
(***************************************************************************)
InFlight == {toPage[n].answer.handle : n \in DOMAIN toPage}

HeldIsReachable ==
    ~terminated => \A h \in DOMAIN held : held[h] # 0 => h \in Proxies \cup InFlight

(***************************************************************************)
(* Calls on one object are made in the order in which the page issued      *)
(* them, through whichever proxies, although none waits for the other.     *)
(***************************************************************************)
CallsKeepOrder ==
    \A m, n \in DOMAIN served :
        m < n /\ served[m].object = served[n].object /\ served[n].object # 0
        => served[m].id < served[n].id

(***************************************************************************)
(* Every request is answered, unless the page stops the worker.            *)
(***************************************************************************)
Unanswered(id) == id \in DOMAIN promises /\ promises[id] = Pending

EveryCallSettles ==
    \A id \in Ids : Unanswered(id) ~> terminated \/ ~Unanswered(id)

=============================================================================
