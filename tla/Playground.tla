----------------------------- MODULE Playground -----------------------------
(***************************************************************************)
(* The playground: a page (app/page.tsx, machine/useMachine.ts,            *)
(* components/RunBar.tsx, components/Terminal.tsx) and a worker            *)
(* (machine/runner.worker.ts) that runs one machine, joined by two message *)
(* channels that keep their order.  Of the image library (ImageLibrary)    *)
(* it only has the database, which may change at any time.                 *)
(*                                                                         *)
(* The worker handles a message to its first await at once; a boot goes on *)
(* through awaits of the module, of each image and of a timer after each   *)
(* slice of the machine, and messages are handled in between.  Boot b is   *)
(* the b-th the user asked for; so is the machine it creates.  Key k is    *)
(* the k-th that was typed.  Statistics and the status line are left out.  *)
(***************************************************************************)
EXTENDS Naturals, Sequences, FiniteSets

CONSTANTS
    Images,     \* the ids of images
    MaxBoots,   \* bound: how often the user boots
    MaxKeys,    \* bound: how many keys the user types
    MaxOutputs, \* bound: how often one machine prints
    MaxUnderWay,\* bound: how many messages are under way to the worker
    Sizes       \* the sizes a terminal takes

ASSUME PlaygroundAssumption ==
    MaxBoots \in Nat /\ MaxKeys \in Nat /\ MaxOutputs \in Nat
    /\ MaxUnderWay \in Nat

Boots == 1..MaxBoots
Keys == 1..MaxKeys

VARIABLES
    \* the page
    phase,      \* what the run bar shows
    size,       \* the size of the terminal
    shown,      \* what the terminal shows: the output of which machine
    boots,      \* how often the user has booted
    typed,      \* how many keys were typed
    before,     \* how many of them before the last boot (history)
    stopping,   \* has the user pressed stop since the last boot? (history)
    reporter,   \* the boot that the phase is the state of (history)
    \* the channels
    toWorker, toPage,
    library,    \* the images in the database
    \* the worker
    loaded,     \* "no", "yes", or "broken": did the worker start?
    staged,     \* the images in the module's files
    pending,    \* the keys that wait to be read
    stopped,    \* has the worker been told to stop?
    machine,    \* the machine in the variable of that name, 0 if none
    machines,   \* what became of each boot's machine
    tasks,      \* where each boot is
    fed,        \* the keys machines have read since the last boot (history)
    printed,    \* how often each machine printed since the last boot (history)
    dropped     \* was a resize handled that no machine heard of? (history)

pageVars ==
    <<phase, size, shown, boots, typed, before, stopping, reporter>>
runVars == <<staged, machine, machines, tasks>>
workerVars == <<loaded, runVars, pending, stopped, fed, printed, dropped>>
vars == <<pageVars, toWorker, toPage, library, workerVars>>

Phases == {"idle", "starting", "running", "done", "error"}

(* Seeded fault: the size is the one the form was saved with.              *)
BootMessageFormSize(b, needs, interactive) ==
    [type |-> "boot", boot |-> b, images |-> needs,
     size |-> CHOOSE saved \in Sizes : TRUE, interactive |-> interactive]

BootMessage(b, needs, interactive) ==
    [type |-> "boot", boot |-> b, images |-> needs, size |-> size,
     interactive |-> interactive]
Message(type, boot) == [type |-> type, boot |-> boot]

Gone(state) == [state |-> state]
LiveMachine(in) == [state |-> "live", size |-> in]

(* A boot between two awaits; it ends with a message to the page.          *)
Over(at) == [at |-> at]
Task(at, request) == [at |-> at, request |-> request]

Asked(b) == tasks[b].request

BootRequest ==
    [type : {"boot"}, boot : Boots, images : SUBSET Images, size : Sizes,
     interactive : BOOLEAN]
WorkerMessage ==
    BootRequest \cup [type : {"stop"}] \cup [type : {"input"}, key : Keys]
    \cup [type : {"resize"}, size : Sizes]
PageMessage == [type : {"running", "output", "done", "error"}, boot : Boots]

MachineState == [state : {"none", "destroyed"}] \cup [state : {"live"}, size : Sizes]
TaskState ==
    [at : {"none", "end"}]
    \cup [at : {"staging", "created", "drive"}, request : BootRequest]

TypeOK ==
    /\ phase \in Phases /\ size \in Sizes /\ shown \in Seq(Boots)
    /\ boots \in 0..MaxBoots /\ reporter \in 0..MaxBoots
    /\ typed \in 0..MaxKeys /\ before \in 0..typed
    /\ stopping \in BOOLEAN /\ stopped \in BOOLEAN /\ dropped \in BOOLEAN
    /\ toWorker \in Seq(WorkerMessage) /\ toPage \in Seq(PageMessage)
    /\ library \subseteq Images /\ staged \subseteq Images
    /\ loaded \in {"no", "yes", "broken"}
    /\ pending \in Seq(Keys) /\ fed \in Seq(Keys)
    /\ machine \in 0..MaxBoots
    /\ machines \in [Boots -> MachineState]
    /\ tasks \in [Boots -> TaskState]
    /\ printed \in [Boots -> 0..MaxOutputs]

Init ==
    /\ library \in SUBSET Images
    /\ phase = "idle" /\ size \in Sizes /\ shown = << >>
    /\ boots = 0 /\ typed = 0 /\ before = 0 /\ stopping = FALSE /\ reporter = 0
    /\ toWorker = << >> /\ toPage = << >>
    /\ loaded = "no" /\ staged = {}
    /\ pending = << >> /\ stopped = FALSE
    /\ machine = 0
    /\ machines = [b \in Boots |-> Gone("none")]
    /\ tasks = [b \in Boots |-> Over("none")]
    /\ fed = << >> /\ printed = [b \in Boots |-> 0]
    /\ dropped = FALSE

---------------------------------------------------------------------------
(* The page.                                                               *)

Send(message) ==
    /\ Len(toWorker) < MaxUnderWay
    /\ toWorker' = Append(toWorker, message)

(* Seeded fault: the run bar is only busy once the machine runs.           *)
BusyRunning == phase = "running"

Busy == phase \in {"starting", "running"}

(* The generated configuration names some images, the kernel among them:   *)
(* without one it has a problem, and the button is disabled.               *)
Boot ==
    /\ ~Busy
    /\ boots < MaxBoots
    /\ boots' = boots + 1
    /\ phase' = "starting"
    /\ shown' = << >>
    /\ before' = typed /\ stopping' = FALSE
    /\ \E needs \in SUBSET Images \ {{}}, interactive \in BOOLEAN :
        Send(BootMessage(boots + 1, needs, interactive))
    /\ UNCHANGED <<library, size, typed, reporter, toPage, workerVars>>

Stop ==
    /\ Busy /\ ~stopping
    /\ stopping' = TRUE
    /\ Send([type |-> "stop"])
    /\ UNCHANGED <<library, phase, size, shown, boots, typed, before,
                   reporter, toPage, workerVars>>

(* A key is sent whether or not there is a machine to read it.             *)
Type ==
    /\ typed < MaxKeys
    /\ typed' = typed + 1
    /\ Send([type |-> "input", key |-> typed + 1])
    /\ UNCHANGED <<library, phase, size, shown, boots, before, stopping,
                   reporter, toPage, workerVars>>

(* And so is a change of the terminal's size.                              *)
Resize ==
    /\ size' \in Sizes \ {size}
    /\ Send([type |-> "resize", size |-> size'])
    /\ UNCHANGED <<library, phase, shown, boots, typed, before, stopping,
                   reporter, toPage, workerVars>>

Clear ==
    /\ ~Busy /\ shown # << >>
    /\ shown' = << >>
    /\ UNCHANGED <<library, phase, size, boots, typed, before, stopping,
                   reporter, toWorker, toPage, workerVars>>

(* The page hears from the worker.                                         *)
Hear ==
    /\ toPage # << >>
    /\ toPage' = Tail(toPage)
    /\ LET message == Head(toPage) IN
        IF message.type = "output"
        THEN /\ shown' = Append(shown, message.boot)
             /\ UNCHANGED <<phase, reporter>>
        ELSE /\ phase' = message.type
             /\ reporter' = message.boot
             /\ UNCHANGED shown
    /\ UNCHANGED <<library, size, boots, typed, before, stopping,
                   toWorker, workerVars>>

---------------------------------------------------------------------------
(* The worker: its script, and what it does with a message.                *)

Load ==
    /\ loaded = "no"
    /\ loaded' = "yes"
    /\ UNCHANGED <<library, pageVars, toWorker, toPage, runVars, pending,
                   stopped, fed, printed, dropped>>

(* The script does not load: the page is told by an error event, and       *)
(* nothing that is sent to the worker is ever handled.                     *)
Break ==
    /\ loaded = "no"
    /\ loaded' = "broken"
    /\ phase' = "error"
    /\ UNCHANGED <<library, size, shown, boots, typed, before, stopping,
                   reporter, toWorker, toPage, runVars, pending, stopped, fed,
                   printed, dropped>>

(* A machine that was created is driven in the same turn of the event loop. *)
BetweenTurns == \A b \in Boots : tasks[b].at # "created"

Receive(type) ==
    /\ loaded = "yes" /\ BetweenTurns
    /\ toWorker # << >> /\ Head(toWorker).type = type
    /\ toWorker' = Tail(toWorker)
    /\ UNCHANGED <<library, pageVars, loaded>>

(* A boot forgets an earlier stop and earlier keys before it first awaits. *)
ReceiveBoot ==
    /\ Receive("boot")
    /\ stopped' = FALSE /\ pending' = << >>
    /\ fed' = << >> /\ printed' = [b \in Boots |-> 0] /\ dropped' = FALSE
    /\ LET request == Head(toWorker) IN
        tasks' = [tasks EXCEPT ![request.boot] = Task("staging", request)]
    /\ UNCHANGED <<toPage, staged, machine, machines>>

ReceiveInput ==
    /\ Receive("input")
    /\ pending' = Append(pending, Head(toWorker).key)
    /\ UNCHANGED <<toPage, runVars, stopped, fed, printed, dropped>>

ReceiveStop ==
    /\ Receive("stop")
    /\ stopped' = TRUE
    /\ UNCHANGED <<toPage, runVars, pending, fed, printed, dropped>>
Sized(b, in) == [machines EXCEPT ![b] = LiveMachine(in)]

(* The machine of the latest boot hears of the terminal's size; an earlier *)
(* one, a machine that is gone, or one that cannot resize does not.        *)
ReceiveResize ==
    /\ Receive("resize")
    /\ \/ /\ machine # 0 /\ machines[machine].state = "live"
          /\ machines' = Sized(machine, Head(toWorker).size)
          /\ dropped' = (tasks[boots].at = "staging")
       \/ /\ machines' = machines
          /\ dropped' = TRUE
    /\ UNCHANGED <<toPage, staged, machine, tasks, printed, pending,
                   stopped, fed>>

---------------------------------------------------------------------------
(* The worker: a boot goes on.                                             *)

At(b, place) ==
    /\ tasks[b].at = place
    /\ UNCHANGED <<library, pageVars, toWorker, loaded>>

Goes(b, place) == tasks' = [tasks EXCEPT ![b].at = place]
Ends(b) == tasks' = [tasks EXCEPT ![b] = Over("end")]

Post(messages) == toPage' = toPage \o messages

(* An exception ends the boot, and the page is told.                       *)
Throws(b) == Ends(b) /\ Post(<<Message("error", b)>>)

(* One image is read from the library and written to the module's files;   *)
(* it may have been removed since the boot was asked for.                  *)
Stage(b) ==
    /\ BetweenTurns /\ At(b, "staging")
    /\ \E image \in Asked(b).images \ staged :
        IF image \in library
        THEN staged' = staged \cup {image} /\ UNCHANGED <<tasks, toPage>>
        ELSE Throws(b) /\ UNCHANGED staged
    /\ UNCHANGED <<machine, machines, printed, pending, stopped, fed, dropped>>

(* The module cannot be instantiated, or the database cannot be read.      *)
StageThrows(b) ==
    /\ BetweenTurns /\ At(b, "staging")
    /\ Throws(b)
    /\ UNCHANGED <<staged, machine, machines, printed, pending, stopped,
                   fed, dropped>>

Destroyed ==
    [b \in Boots |-> IF b = machine THEN Gone("destroyed") ELSE machines[b]]

(* Seeded fault: stop is only reset once the machine is there.             *)
CreateForgetsStop(b) ==
    /\ BetweenTurns /\ At(b, "staging")
    /\ Asked(b).images \subseteq staged
    /\ \/ /\ machines' = [Destroyed EXCEPT ![b] = LiveMachine(Asked(b).size)]
          /\ machine' = b
          /\ stopped' = FALSE
          /\ Goes(b, "created")
          /\ Post(<<Message("running", b)>>)
       \/ /\ machines' = Destroyed
          /\ Throws(b)
          /\ UNCHANGED <<machine, stopped>>
    /\ UNCHANGED <<staged, printed, pending, fed, dropped>>

(* The machine of the boot before is destroyed, and then one is created;   *)
(* destroying one that is destroyed does nothing.                          *)
Create(b) ==
    /\ BetweenTurns /\ At(b, "staging")
    /\ Asked(b).images \subseteq staged
    /\ \/ /\ machines' = [Destroyed EXCEPT ![b] = LiveMachine(Asked(b).size)]
          /\ machine' = b
          /\ Goes(b, "created")
          /\ Post(<<Message("running", b)>>)
       \/ /\ machines' = Destroyed
          /\ Throws(b)
          /\ UNCHANGED machine
    /\ UNCHANGED <<staged, printed, pending, stopped, fed, dropped>>

(* The loop has the floor: right after the machine was created, or after a *)
(* timer.                                                                  *)
Driven(b) ==
    /\ At(b, "created") \/ (BetweenTurns /\ At(b, "drive"))
    /\ UNCHANGED <<staged, machine, machines, stopped, dropped>>

Runs(b) == ~stopped /\ machines[b].state = "live"

(* What a slice of the machine prints.                                     *)
Prints(b, chunks) ==
    /\ printed[b] + Len(chunks) <= MaxOutputs
    /\ printed' = [printed EXCEPT ![b] = @ + Len(chunks)]

Printed(b) == {<< >>, <<Message("output", b)>>}

(* The slice ends at its target, with output, or with nothing to read.     *)
RunSlice(b) ==
    /\ Driven(b) /\ Runs(b)
    /\ \E chunks \in Printed(b) : Prints(b, chunks) /\ Post(chunks)
    /\ Goes(b, "drive")
    /\ UNCHANGED <<pending, fed>>

(* Seeded fault: what the guest took is not what is taken off the queue.   *)
ReadLosesRest(b) ==
    /\ Driven(b) /\ Runs(b)
    /\ Asked(b).interactive /\ pending # << >>
    /\ \E chunks \in Printed(b) : Prints(b, chunks) /\ Post(chunks)
    /\ \E taken \in 1..Len(pending) : fed' = fed \o SubSeq(pending, 1, taken)
    /\ pending' = << >>
    /\ Goes(b, "drive")

(* The guest asks for input, and takes as much as its buffer holds.        *)
Read(b) ==
    /\ Driven(b) /\ Runs(b)
    /\ Asked(b).interactive /\ pending # << >>
    /\ \E chunks \in Printed(b) : Prints(b, chunks) /\ Post(chunks)
    /\ \E taken \in 1..Len(pending) :
        /\ fed' = fed \o SubSeq(pending, 1, taken)
        /\ pending' = SubSeq(pending, taken + 1, Len(pending))
    /\ Goes(b, "drive")

(* Seeded fault: the end is reported before the output that came with it.  *)
FinishBeforeOutput(b) ==
    /\ Driven(b) /\ Runs(b)
    /\ \E chunks \in Printed(b) :
        Prints(b, chunks) /\ Post(<<Message("done", b)>> \o chunks)
    /\ Ends(b)
    /\ UNCHANGED <<pending, fed>>

(* The machine halts, breaks for good, or reaches the cycle limit.         *)
Finish(b) ==
    /\ Driven(b) /\ Runs(b)
    /\ \E chunks \in Printed(b) :
        Prints(b, chunks) /\ Post(chunks \o <<Message("done", b)>>)
    /\ Ends(b)
    /\ UNCHANGED <<pending, fed>>

FinishStopped(b) ==
    /\ Driven(b)
    /\ stopped /\ machines[b].state = "live"
    /\ Post(<<Message("done", b)>>)
    /\ Ends(b)
    /\ UNCHANGED <<printed, pending, fed>>

(* Seeded fault: the page is told of an exception, and the loop goes on.   *)
DriveThrowsOn(b) ==
    /\ Driven(b)
    /\ Post(<<Message("error", b)>>)
    /\ Goes(b, "drive")
    /\ UNCHANGED <<printed, pending, fed>>

(* A call of the machine throws, as all calls on a destroyed one do.       *)
DriveThrows(b) ==
    /\ Driven(b)
    /\ Throws(b)
    /\ UNCHANGED <<printed, pending, fed>>

---------------------------------------------------------------------------
ReceiveAny == ReceiveBoot \/ ReceiveInput \/ ReceiveStop \/ ReceiveResize

Continue(b) ==
    \/ Stage(b) \/ StageThrows(b) \/ Create(b)
    \/ RunSlice(b) \/ Read(b) \/ Finish(b) \/ FinishStopped(b) \/ DriveThrows(b)

User == Boot \/ Stop \/ Type \/ Resize \/ Clear

(* An image is stored or removed.                                          *)
LibraryChanges ==
    /\ \E image \in Images : library' \in {library \cup {image}, library \ {image}}
    /\ UNCHANGED <<pageVars, toWorker, toPage, workerVars>>

Next ==
    \/ User \/ Hear
    \/ Load \/ Break \/ ReceiveAny
    \/ \E b \in Boots : Continue(b)
    \/ LibraryChanges

(* What ends by itself: every await but those of a loop that nobody has    *)
(* told to stop, whose guest may run for ever.                             *)
Ending(b) == (stopped \/ tasks[b].at # "drive") /\ Continue(b)

(* Scripts load or fail, messages are delivered, and awaits end.  Nothing  *)
(* is assumed of the user, of the library, or of the guest program.        *)
Fairness ==
    /\ WF_vars(Load \/ Break \/ ReceiveAny)
    /\ WF_vars(\E b \in Boots : Ending(b))
    /\ WF_vars(Hear)

Spec == Init /\ [][Next]_vars /\ Fairness

---------------------------------------------------------------------------
(***************************************************************************)
(* One loop drives a machine at a time, and at most one machine holds the  *)
(* module's heap: the worker itself starts a second loop for a second      *)
(* boot, and only the page's phase, which follows the worker's messages    *)
(* with a delay, keeps the user from asking for one (RunBar.tsx:20,        *)
(* runner.worker.ts:165-184).                                              *)
(***************************************************************************)
OneLoopDrives ==
    \A a, b \in Boots :
        a # b => /\ {tasks[a].at, tasks[b].at} \cap {"none", "end"} # {}
                 /\ {machines[a].state, machines[b].state} # {"live"}

(***************************************************************************)
(* What the page shows of a machine's end is the end of the machine it     *)
(* asked for last, not of an earlier one (useMachine.ts:48-92).            *)
(***************************************************************************)
OutcomeIsOwn == phase \in {"running", "done"} => reporter = boots

(***************************************************************************)
(* The keys typed since the last boot reach its machine in their order,    *)
(* none lost, none twice, none of an earlier run among them, those typed   *)
(* before the machine was there included (runner.worker.ts:47-52, 133-140, *)
(* 167).                                                                   *)
(***************************************************************************)
UnderWay(type) == {i \in DOMAIN toWorker : toWorker[i].type = type}

Arrived == fed \o pending

KeysArriveInOrder ==
    boots > 0 /\ UnderWay("boot") = {} =>
        /\ \A i \in DOMAIN Arrived : Arrived[i] = before + i
        /\ \A i, j \in UnderWay("input") : i < j => toWorker[i].key < toWorker[j].key
        /\ {toWorker[i].key : i \in UnderWay("input")} = before + Len(Arrived) + 1 .. typed

(***************************************************************************)
(* While a machine starts or runs, the terminal shows what that machine    *)
(* has printed, all that has arrived and nothing that an earlier one       *)
(* printed (page.tsx:118, runner.worker.ts:127-131).                       *)
(***************************************************************************)
OutputsUnderWay == {i \in DOMAIN toPage : toPage[i].type = "output"}

ConsoleIsOwn ==
    Busy =>
        /\ \A i \in DOMAIN shown : shown[i] = boots
        /\ \A i \in OutputsUnderWay : toPage[i].boot = boots
        /\ Len(shown) + Cardinality(OutputsUnderWay) = printed[boots]

(***************************************************************************)
(* A machine that runs has a console of the terminal's size (page.tsx:119: *)
(* "the guest is told the size the terminal actually has"), once resizes   *)
(* under way have arrived and unless one arrived before its machine.       *)
(***************************************************************************)
ConsoleFits ==
    phase = "running" /\ ~dropped
    /\ UnderWay("resize") = {}
        => machines[boots].size = size

(***************************************************************************)
(* A boot ends in a machine that runs or in an error, and a stop ends it,  *)
(* also when it comes while images are still being staged, unless the      *)
(* worker's script did not load (runner.worker.ts:118, 166, 216).          *)
(***************************************************************************)
BootsEnd ==
    /\ phase = "starting" ~> phase # "starting" \/ loaded = "broken"
    /\ stopping ~> ~Busy \/ ~stopping \/ loaded = "broken"
=============================================================================
