------------------------- MODULE Playground_proofs -------------------------
(***************************************************************************)
(* Theorems about Playground, for any number of boots, keys, outputs and   *)
(* messages under way, and any set of images and of terminal sizes.        *)
(***************************************************************************)
EXTENDS Playground, FiniteSetTheorems, SequenceTheorems, TLAPS

---------------------------------------------------------------------------
(* The invariants.  The latest boot is the only one that may be going on;  *)
(* everything the worker has to say of it is under way while the page is   *)
(* busy, and the last word ends both.                                      *)

Active(b) == tasks[b].at \in {"staging", "created", "drive"}

LastWord(i) == toPage[i].type \in {"done", "error"}

LoopInv ==
    /\ machine <= boots
    /\ Busy => boots > 0
    /\ loaded = "no" => phase \in {"idle", "starting"}
    /\ loaded # "yes" =>
        /\ phase \notin {"running", "done"}
        /\ toPage = << >>
        /\ \A b \in Boots : tasks[b].at = "none" /\ machines[b].state = "none"
    /\ \A b \in Boots : machines[b].state = "live" => b = machine
    /\ \A b \in Boots : Active(b) => b = boots /\ Busy
    /\ \A b \in Boots : b > boots => tasks[b].at = "none"
    /\ loaded # "broken" =>
        \A i \in UnderWay("boot") :
            /\ toWorker[i].boot = boots
            /\ phase = "starting"
            /\ tasks[boots].at = "none"
            /\ toPage = << >>
            /\ \A j \in UnderWay("boot") : i = j
    /\ ~Busy => toPage = << >>
    /\ \A i \in DOMAIN toPage :
        /\ toPage[i].boot = boots
        /\ LastWord(i) => i = Len(toPage) /\ tasks[boots].at = "end"
    /\ phase \in {"running", "done"} => reporter = boots

(* The console: what was printed is shown or under way.                    *)
ConsoleInv ==
    /\ \A b \in Boots : tasks[b].at = "none" => printed[b] = 0
    /\ Busy =>
        /\ \A i \in DOMAIN shown : shown[i] = boots
        /\ Len(shown) + Cardinality(OutputsUnderWay) = printed[boots]

(* The keys under way: in order, those typed since the last boot behind    *)
(* its message; all that were typed since are there or have arrived.       *)
KeysInv ==
    /\ \A i, j \in UnderWay("input") : i < j => toWorker[i].key < toWorker[j].key
    /\ \A i \in UnderWay("input") :
        /\ toWorker[i].key \in 1..typed
        /\ toWorker[i].key > before <=> \A j \in UnderWay("boot") : j < i
    /\ UnderWay("boot") = {} =>
        /\ before + Len(Arrived) <= typed
        /\ \A i \in DOMAIN Arrived : Arrived[i] = before + i
        /\ \A i \in UnderWay("input") : toWorker[i].key > before + Len(Arrived)
        /\ \A k \in before + Len(Arrived) + 1 .. typed :
            \E i \in UnderWay("input") : toWorker[i].key = k
    /\ UnderWay("boot") # {} =>
        \A k \in before + 1 .. typed : \E i \in UnderWay("input") : toWorker[i].key = k

(* The size: the last message that names one names the terminal's, and     *)
(* when none is under way the boot or the machine has heard of it.         *)
SizeInv ==
    /\ \A i \in UnderWay("resize") :
        (\A j \in UnderWay("resize") : j <= i) => toWorker[i].size = size
    /\ \A i \in UnderWay("boot") :
        (\A j \in UnderWay("resize") : j < i) => toWorker[i].size = size
    /\ UnderWay("resize") = {} /\ ~dropped =>
        /\ \A b \in Boots : tasks[b].at = "staging" => tasks[b].request.size = size
        /\ \A b \in Boots : machine = b /\ b = boots => machines[b].size = size
    /\ \A b \in Boots :
        /\ tasks[b].at \in {"none", "staging"} => machine # b
        /\ tasks[b].at \in {"created", "drive"} => machine = b
        /\ machine = b /\ b = boots => machines[b].state = "live"
    /\ phase = "running" => machine = boots
    /\ \A i \in DOMAIN toPage : toPage[i].type = "running" => machine = boots

---------------------------------------------------------------------------
(* The messages.                                                           *)

(* What the page sends is a message to the worker.                         *)
LEMMA SentMessages ==
    ASSUME TypeOK
    PROVE  /\ \A needs \in SUBSET Images, interactive \in BOOLEAN, b \in Boots :
                BootMessage(b, needs, interactive) \in WorkerMessage
           /\ [type |-> "stop"] \in WorkerMessage
           /\ \A k \in Keys : [type |-> "input", key |-> k] \in WorkerMessage
           /\ \A s \in Sizes : [type |-> "resize", size |-> s] \in WorkerMessage
BY DEF TypeOK, BootMessage, WorkerMessage, BootRequest

(* A message of each type has that type's fields.                          *)
LEMMA MessageFields ==
    ASSUME NEW m \in WorkerMessage
    PROVE  /\ m.type \in {"boot", "stop", "input", "resize"}
           /\ m.type = "boot" => m \in BootRequest
           /\ m.type = "input" => m.key \in Keys
           /\ m.type = "resize" => m.size \in Sizes
BY DEF WorkerMessage, BootRequest

(* Taking the head of a sequence shifts the others by one.                 *)
LEMMA Shifted ==
    ASSUME NEW S, NEW s \in Seq(S), s # << >>
    PROVE  /\ Head(s) \in S /\ Head(s) = s[1] /\ 1 \in DOMAIN s
           /\ Tail(s) \in Seq(S)
           /\ Len(s) \in Nat \ {0} /\ Len(Tail(s)) = Len(s) - 1
           /\ DOMAIN s = 1..Len(s)
           /\ DOMAIN Tail(s) = 1..(Len(s) - 1)
           /\ \A i \in DOMAIN Tail(s) : Tail(s)[i] = s[i + 1]
BY HeadTailProperties, LenProperties, EmptySeq

(* Adding one at the end leaves the others where they are.                 *)
LEMMA Lengthened ==
    ASSUME NEW S, NEW s \in Seq(S), NEW m \in S
    PROVE  /\ Append(s, m) \in Seq(S)
           /\ Len(s) \in Nat /\ Len(Append(s, m)) = Len(s) + 1
           /\ DOMAIN s = 1..Len(s)
           /\ DOMAIN Append(s, m) = 1..(Len(s) + 1)
           /\ \A i \in DOMAIN s : Append(s, m)[i] = s[i]
           /\ Append(s, m)[Len(s) + 1] = m
BY AppendProperties, LenProperties

(* What a slice prints, and how a loop ends, are messages to the page.     *)
LEMMA Posted ==
    ASSUME NEW b \in Boots, NEW type \in {"running", "output", "done", "error"}
    PROVE  /\ Message(type, b) \in PageMessage
           /\ <<Message(type, b)>> \in Seq(PageMessage)
           /\ Message(type, b).type = type /\ Message(type, b).boot = b
<1>1. Message(type, b) \in PageMessage BY DEF Message, PageMessage
<1>2. <<Message(type, b)>> \in Seq(PageMessage) BY <1>1
<1>3. QED BY <1>1, <1>2 DEF Message

---------------------------------------------------------------------------
(* Type correctness.                                                       *)

(* A task or a machine that is in a state has the fields of that state.    *)
LEMMA TaskFields ==
    ASSUME TypeOK, NEW b \in Boots
    PROVE  /\ tasks[b].at \in {"none", "staging", "created", "drive", "end"}
           /\ Active(b) => /\ tasks[b].request \in BootRequest
                           /\ tasks[b].request.size \in Sizes
           /\ \A place \in {"created", "drive"} :
                Active(b) => [tasks EXCEPT ![b].at = place] \in [Boots -> TaskState]
           /\ [tasks EXCEPT ![b] = Over("end")] \in [Boots -> TaskState]
           /\ \A request \in BootRequest :
                [tasks EXCEPT ![b] = Task("staging", request)] \in [Boots -> TaskState]
<1> USE DEF TypeOK, TaskState
<1>t. tasks[b] \in TaskState OBVIOUS
<1>1. tasks[b].at \in {"none", "staging", "created", "drive", "end"}
  BY <1>t
<1>2. ASSUME Active(b)
      PROVE  /\ tasks[b].request \in BootRequest
             /\ tasks[b].request.size \in Sizes
             /\ \A place \in {"created", "drive"} :
                  [tasks[b] EXCEPT !.at = place] \in TaskState
  <2>1. tasks[b] \in [at : {"staging", "created", "drive"}, request : BootRequest]
    BY <1>t, <1>2 DEF Active
  <2>2. tasks[b].request \in BootRequest BY <2>1
  <2>3. tasks[b].request.size \in Sizes BY <2>2 DEF BootRequest
  <2>4. \A place \in {"created", "drive"} : [tasks[b] EXCEPT !.at = place] \in TaskState
    BY <2>1
  <2>5. QED BY <2>2, <2>3, <2>4
<1>3. Over("end") \in TaskState BY DEF Over
<1>4. \A request \in BootRequest : Task("staging", request) \in TaskState
  BY DEF Task
<1> HIDE DEF TaskState
<1>5. \A place \in {"created", "drive"} :
        Active(b) => [tasks EXCEPT ![b].at = place] \in [Boots -> TaskState]
  BY <1>2
<1>6. QED BY <1>1, <1>2, <1>3, <1>4, <1>5

(* Each step keeps every variable in its type.                             *)
LEMMA TypeOKStep == TypeOK /\ [Next]_vars => TypeOK'
<1> SUFFICES ASSUME TypeOK, [Next]_vars PROVE TypeOK'
  OBVIOUS
<1> USE DEF TypeOK, pageVars, workerVars, runVars
<1>p. MaxBoots \in Nat /\ MaxKeys \in Nat /\ MaxOutputs \in Nat
  BY PlaygroundAssumption
<1>1. CASE Boot
  <2>1. boots + 1 \in Boots BY <1>1, <1>p DEF Boot, Boots
  <2>2. toWorker' \in Seq(WorkerMessage)
    BY <1>1, <2>1, SentMessages, Lengthened DEF Boot, Send
  <2>3. boots' \in 0..MaxBoots BY <2>1, <1>1 DEF Boot, Boots
  <2>4. phase' \in Phases /\ before' \in 0..typed' /\ stopping' \in BOOLEAN
    <3>1. phase' = "starting" /\ before' = typed /\ typed' = typed /\ stopping' = FALSE
      BY <1>1 DEF Boot
    <3>2. typed \in 0..typed BY <1>p
    <3>3. QED BY <3>1, <3>2 DEF Phases
  <2>5. shown' \in Seq(Boots) BY <1>1, EmptySeq DEF Boot
  <2>6. QED BY <1>1, <2>2, <2>3, <2>4, <2>5 DEF Boot
<1>2. CASE Stop
  <2>1. toWorker' \in Seq(WorkerMessage)
    BY <1>2, SentMessages, Lengthened DEF Stop, Send
  <2>2. QED BY <1>2, <2>1 DEF Stop
<1>3. CASE Type
  <2>1. typed + 1 \in Keys BY <1>3, <1>p DEF Type, Keys
  <2>2. toWorker' \in Seq(WorkerMessage)
    BY <1>3, <2>1, SentMessages, Lengthened DEF Type, Send
  <2>3. QED BY <1>3, <1>p, <2>1, <2>2 DEF Type, Keys
<1>4. CASE Resize
  <2>1. toWorker' \in Seq(WorkerMessage)
    BY <1>4, SentMessages, Lengthened DEF Resize, Send
  <2>2. QED BY <1>4, <2>1 DEF Resize
<1>5. CASE Clear BY <1>5 DEF Clear
<1>6. CASE Hear
  <2>1. /\ Head(toPage) \in PageMessage /\ toPage' \in Seq(PageMessage)
    BY <1>6, Shifted DEF Hear
  <2>2. Head(toPage).type \in {"running", "output", "done", "error"}
        /\ Head(toPage).boot \in Boots
    BY <2>1 DEF PageMessage
  <2>3. CASE Head(toPage).type = "output"
    <3>1. shown' = Append(shown, Head(toPage).boot) /\ UNCHANGED <<phase, reporter>>
      BY <1>6, <2>3 DEF Hear
    <3>2. shown' \in Seq(Boots) BY <2>2, <3>1, Lengthened
    <3>3. QED BY <1>6, <2>1, <3>1, <3>2 DEF Hear
  <2>4. CASE Head(toPage).type # "output"
    <3>1. phase' \in Phases /\ reporter' \in 0..MaxBoots
      BY <1>6, <1>p, <2>2, <2>4 DEF Hear, Phases, Boots
    <3>2. QED BY <1>6, <2>1, <2>4, <3>1 DEF Hear
  <2>5. QED BY <2>3, <2>4
<1>7. CASE Load \/ Break BY <1>7 DEF Load, Break, Phases
<1>8. ASSUME NEW type, Receive(type)
      PROVE  /\ toWorker' \in Seq(WorkerMessage)
             /\ Head(toWorker) \in WorkerMessage /\ Head(toWorker).type = type
  BY <1>8, Shifted DEF Receive
<1>9. CASE ReceiveBoot
  <2>1. /\ Receive("boot")
        /\ tasks' = [tasks EXCEPT ![Head(toWorker).boot] = Task("staging", Head(toWorker))]
        /\ pending' = << >> /\ fed' = << >> /\ printed' = [b \in Boots |-> 0]
        /\ stopped' = FALSE /\ dropped' = FALSE
        /\ UNCHANGED <<toPage, staged, machine, machines>>
    BY <1>9 DEF ReceiveBoot
  <2>2. Head(toWorker) \in BootRequest BY <1>8, <2>1, MessageFields
  <2>3. Head(toWorker).boot \in Boots BY <2>2 DEF BootRequest
  <2>4. tasks' \in [Boots -> TaskState] BY <2>1, <2>2, <2>3, TaskFields
  <2>5. toWorker' \in Seq(WorkerMessage) BY <1>8, <2>1
  <2>6. pending' \in Seq(Keys) /\ fed' \in Seq(Keys) /\ printed' \in [Boots -> 0..MaxOutputs]
    BY <1>p, <2>1, EmptySeq
  <2>7. QED BY <2>1, <2>4, <2>5, <2>6 DEF Receive
<1>10. CASE ReceiveInput
  <2>1. Receive("input") BY <1>10 DEF ReceiveInput
  <2>2. Head(toWorker).key \in Keys /\ toWorker' \in Seq(WorkerMessage)
    BY <1>8, <2>1, MessageFields
  <2>3. pending' \in Seq(Keys) BY <1>10, <2>2, Lengthened DEF ReceiveInput
  <2>4. QED BY <1>10, <2>1, <2>2, <2>3 DEF ReceiveInput, Receive
<1>11. CASE ReceiveStop
  <2>1. Receive("stop") BY <1>11 DEF ReceiveStop
  <2>2. toWorker' \in Seq(WorkerMessage) BY <1>8, <2>1
  <2>3. QED BY <1>11, <2>1, <2>2 DEF ReceiveStop, Receive
<1>12. CASE ReceiveResize
  <2>1. Receive("resize") BY <1>12 DEF ReceiveResize
  <2>2. Head(toWorker).size \in Sizes /\ toWorker' \in Seq(WorkerMessage)
    BY <1>8, <2>1, MessageFields
  <2>3. LiveMachine(Head(toWorker).size) \in MachineState
    BY <2>2 DEF LiveMachine, MachineState
  <2>m. machines' \in [Boots -> MachineState]
    BY <1>12, <2>3 DEF ReceiveResize, Sized
  <2>4. dropped' \in BOOLEAN BY <1>12 DEF ReceiveResize
  <2>5. QED BY <1>12, <2>1, <2>2, <2>m, <2>4 DEF ReceiveResize, Receive
<1>13. ASSUME NEW b \in Boots, NEW messages \in Seq(PageMessage), Post(messages)
       PROVE  toPage' \in Seq(PageMessage)
  BY <1>13, ConcatProperties DEF Post
<1>14. ASSUME NEW b \in Boots, Throws(b)
       PROVE  /\ tasks' \in [Boots -> TaskState] /\ toPage' \in Seq(PageMessage)
  BY <1>13, <1>14, Posted, TaskFields DEF Throws, Ends
<1>15. ASSUME NEW b \in Boots, Stage(b) \/ StageThrows(b) PROVE TypeOK'
  <2>1. staged' \subseteq Images /\ tasks' \in [Boots -> TaskState]
        /\ toPage' \in Seq(PageMessage)
    BY <1>14, <1>15 DEF Stage, StageThrows
  <2>2. QED BY <1>15, <2>1 DEF Stage, StageThrows, At
<1>16. Destroyed \in [Boots -> MachineState]
  BY DEF Destroyed, Gone, MachineState
<1>17. ASSUME NEW b \in Boots, Create(b) PROVE TypeOK'
  <2>1. Active(b) BY <1>17 DEF Create, At, Active
  <2>2. LiveMachine(Asked(b).size) \in MachineState
    BY <2>1, TaskFields DEF Asked, LiveMachine, MachineState
  <2>3. machine' \in 0..MaxBoots
    BY <1>p, <1>17 DEF Create, Boots
  <2>4. CASE /\ machines' = [Destroyed EXCEPT ![b] = LiveMachine(Asked(b).size)]
             /\ Goes(b, "created")
             /\ Post(<<Message("running", b)>>)
    <3>1. machines' \in [Boots -> MachineState] BY <1>16, <2>2, <2>4
    <3>2. tasks' \in [Boots -> TaskState] BY <2>1, <2>4, TaskFields DEF Goes
    <3>3. toPage' \in Seq(PageMessage) BY <1>13, <2>4, Posted
    <3>4. QED BY <1>17, <2>3, <3>1, <3>2, <3>3 DEF Create, At
  <2>5. CASE machines' = Destroyed /\ Throws(b)
    <3>1. tasks' \in [Boots -> TaskState] /\ toPage' \in Seq(PageMessage)
      BY <1>14, <2>5
    <3>2. QED BY <1>16, <1>17, <2>3, <2>5, <3>1 DEF Create, At
  <2>6. QED BY <1>17, <2>4, <2>5 DEF Create
<1>18. ASSUME NEW b \in Boots, NEW chunks \in Printed(b)
       PROVE  /\ chunks \in Seq(PageMessage)
              /\ Prints(b, chunks) => printed' \in [Boots -> 0..MaxOutputs]
  <2>1. chunks \in Seq(PageMessage)
    <3>1. chunks = << >> \/ chunks = <<Message("output", b)>> BY <1>18 DEF Printed
    <3>2. << >> \in Seq(PageMessage) BY EmptySeq
    <3>3. <<Message("output", b)>> \in Seq(PageMessage) BY Posted
    <3>4. QED BY <3>1, <3>2, <3>3, Zenon
  <2>2. Len(chunks) \in Nat BY <2>1, LenProperties
  <2>3. ASSUME Prints(b, chunks) PROVE printed' \in [Boots -> 0..MaxOutputs]
    <3>1. printed[b] + Len(chunks) \in 0..MaxOutputs BY <1>p, <2>2, <2>3 DEF Prints
    <3>2. printed' = [printed EXCEPT ![b] = printed[b] + Len(chunks)] BY <2>3 DEF Prints
    <3>3. printed \in [Boots -> 0..MaxOutputs] OBVIOUS
    <3> HIDE DEF TypeOK
    <3>4. QED BY <3>1, <3>2, <3>3
  <2>4. QED BY <2>1, <2>3
<1>19. ASSUME NEW b \in Boots, RunSlice(b) PROVE TypeOK'
  <2>1. Active(b) BY <1>19 DEF RunSlice, Driven, At, Active
  <2>2. tasks' \in [Boots -> TaskState] /\ toPage' \in Seq(PageMessage)
        /\ printed' \in [Boots -> 0..MaxOutputs]
    BY <1>13, <1>18, <1>19, <2>1, TaskFields DEF RunSlice, Goes
  <2>3. QED BY <1>19, <2>2 DEF RunSlice, Driven, At
<1>20. ASSUME NEW b \in Boots, Read(b) PROVE TypeOK'
  <2>1. Active(b) BY <1>20 DEF Read, Driven, At, Active
  <2>2. tasks' \in [Boots -> TaskState] /\ toPage' \in Seq(PageMessage)
        /\ printed' \in [Boots -> 0..MaxOutputs]
    BY <1>13, <1>18, <1>20, <2>1, TaskFields DEF Read, Goes
  <2>3. PICK taken \in 1..Len(pending) :
          /\ fed' = fed \o SubSeq(pending, 1, taken)
          /\ pending' = SubSeq(pending, taken + 1, Len(pending))
    BY <1>20 DEF Read
  <2>4. /\ SubSeq(pending, 1, taken) \in Seq(Keys)
        /\ SubSeq(pending, taken + 1, Len(pending)) \in Seq(Keys)
    <3>1. Len(pending) \in Nat /\ \A i \in 1..Len(pending) : pending[i] \in Keys
      BY LenProperties, ElementOfSeq
    <3>2. QED BY <3>1, SubSeqProperties
  <2>5. fed' \in Seq(Keys) /\ pending' \in Seq(Keys)
    BY <2>3, <2>4, ConcatProperties
  <2>6. QED BY <1>20, <2>2, <2>5 DEF Read, Driven, At
<1>21. ASSUME NEW b \in Boots, Finish(b) PROVE TypeOK'
  <2>1. PICK chunks \in Printed(b) :
          Prints(b, chunks) /\ Post(chunks \o <<Message("done", b)>>)
    BY <1>21 DEF Finish
  <2>2. chunks \o <<Message("done", b)>> \in Seq(PageMessage)
    BY <1>18, Posted, ConcatProperties
  <2>3. toPage' \in Seq(PageMessage) BY <1>13, <2>1, <2>2
  <2>4. tasks' \in [Boots -> TaskState] /\ printed' \in [Boots -> 0..MaxOutputs]
    BY <1>18, <1>21, <2>1, TaskFields DEF Finish, Ends
  <2>5. QED BY <1>21, <2>3, <2>4 DEF Finish, Driven, At
<1>22. ASSUME NEW b \in Boots, FinishStopped(b) \/ DriveThrows(b) PROVE TypeOK'
  <2>1. tasks' \in [Boots -> TaskState] /\ toPage' \in Seq(PageMessage)
    <3>1. CASE FinishStopped(b)
      BY <1>13, <3>1, Posted, TaskFields DEF FinishStopped, Ends
    <3>2. CASE DriveThrows(b) BY <1>14, <3>2 DEF DriveThrows
    <3>3. QED BY <1>22, <3>1, <3>2
  <2>2. QED BY <1>22, <2>1 DEF FinishStopped, DriveThrows, Driven, At
<1>23. CASE LibraryChanges BY <1>23 DEF LibraryChanges
<1>24. CASE UNCHANGED vars BY <1>24 DEF vars
<1>25. QED
  BY <1>1, <1>2, <1>3, <1>4, <1>5, <1>6, <1>7, <1>9, <1>10, <1>11, <1>12, <1>15,
     <1>17, <1>19, <1>20, <1>21, <1>22, <1>23, <1>24
     DEF Next, User, ReceiveAny, Continue

(* Every variable keeps its type.                                          *)
THEOREM TypeCorrect == Spec => []TypeOK
<1>1. Init => TypeOK
  <2> SUFFICES ASSUME Init PROVE TypeOK
    OBVIOUS
  <2>1. machines \in [Boots -> MachineState] /\ tasks \in [Boots -> TaskState]
    BY DEF Init, Gone, Over, MachineState, TaskState
  <2>2. /\ \A S : << >> \in Seq(S)
        /\ printed \in [Boots -> 0..MaxOutputs]
        /\ 0 \in 0..MaxBoots /\ 0 \in 0..MaxKeys /\ 0 \in 0..0
    BY PlaygroundAssumption, EmptySeq DEF Init
  <2>3. QED BY <2>1, <2>2 DEF Init, TypeOK, Phases
<1>2. QED BY <1>1, TypeOKStep, PTL DEF Spec

---------------------------------------------------------------------------
(* What a step does to the channels.                                       *)

(* What the page sends comes last.                                         *)
LEMMA Sending ==
    ASSUME TypeOK, NEW m \in WorkerMessage, Send(m)
    PROVE  /\ Len(toWorker) \in Nat
           /\ toWorker'[Len(toWorker) + 1] = m
           /\ \A t : \A i \in UnderWay(t) :
                /\ i \in 1..Len(toWorker) /\ toWorker'[i] = toWorker[i]
                /\ i \in UnderWay(t)'
           /\ \A t : \A i \in UnderWay(t)' :
                \/ i \in UnderWay(t)
                \/ i = Len(toWorker) + 1 /\ m.type = t
           /\ \A t : m.type = t => Len(toWorker) + 1 \in UnderWay(t)'
BY Lengthened DEF TypeOK, Send, UnderWay

(* What the worker receives came first, and the others move up.            *)
LEMMA Receiving ==
    ASSUME TypeOK, NEW type, Receive(type)
    PROVE  /\ 1 \in UnderWay(type) /\ toWorker[1] = Head(toWorker)
           /\ \A t : t # type => 1 \notin UnderWay(t)
           /\ \A t : \A i \in UnderWay(t) :
                /\ i \in Nat \ {0}
                /\ i # 1 => i - 1 \in UnderWay(t)' /\ toWorker'[i - 1] = toWorker[i]
           /\ \A t : \A i \in UnderWay(t)' :
                /\ i \in Nat \ {0}
                /\ i + 1 \in UnderWay(t) /\ toWorker'[i] = toWorker[i + 1]
<1>1. /\ Head(toWorker) = toWorker[1] /\ 1 \in DOMAIN toWorker
      /\ DOMAIN toWorker = 1..Len(toWorker) /\ Len(toWorker) \in Nat \ {0}
      /\ DOMAIN toWorker' = 1..(Len(toWorker) - 1)
      /\ \A i \in DOMAIN toWorker' : toWorker'[i] = toWorker[i + 1]
  BY Shifted DEF TypeOK, Receive
<1>2. toWorker[1].type = type BY <1>1 DEF Receive
<1>3. QED BY <1>1, <1>2 DEF UnderWay

(* Moving a step's index set up by one does not change how many there are. *)
LEMMA ShiftedCount ==
    ASSUME NEW S, IsFiniteSet(S), NEW T, S \subseteq Int, T \subseteq Int,
           \A i \in S : i - 1 \in T, \A i \in T : i + 1 \in S
    PROVE  IsFiniteSet(T) /\ Cardinality(T) = Cardinality(S)
<1> DEFINE f == [i \in S |-> i - 1]
<1>1. f \in Bijection(S, T)
  <2>1. f \in [S -> T] OBVIOUS
  <2>2. \A a, b \in S : f[a] = f[b] => a = b OBVIOUS
  <2>3. \A t \in T : \E a \in S : f[a] = t
    <3>1. \A t \in T : t + 1 \in S /\ f[t + 1] = t OBVIOUS
    <3>2. QED BY <3>1
  <2>4. QED BY <2>1, <2>2, <2>3 DEF Bijection, Injection, Surjection, IsInjective
<1>2. QED BY <1>1, FS_Bijection DEF ExistsBijection

(* The outputs under way to the page are finitely many.                    *)
LEMMA FiniteOutputs ==
    ASSUME TypeOK
    PROVE  /\ IsFiniteSet(OutputsUnderWay) /\ Cardinality(OutputsUnderWay) \in Nat
           /\ OutputsUnderWay \subseteq 1..Len(toPage) /\ Len(toPage) \in Nat
<1>1. Len(toPage) \in Nat /\ DOMAIN toPage = 1..Len(toPage)
  BY LenProperties DEF TypeOK
<1>2. OutputsUnderWay \subseteq 1..Len(toPage) BY <1>1 DEF OutputsUnderWay
<1>3. IsFiniteSet(1..Len(toPage)) BY <1>1, FS_Interval
<1>4. IsFiniteSet(OutputsUnderWay) BY <1>2, <1>3, FS_Subset
<1>5. QED BY <1>1, <1>2, <1>4, FS_CardinalityType

(* What the page hears came first, and the others move up.                 *)
LEMMA Hearing ==
    ASSUME TypeOK, Hear
    PROVE  /\ Head(toPage) = toPage[1] /\ 1 \in DOMAIN toPage
           /\ toPage[1] \in PageMessage
           /\ Len(toPage) \in Nat \ {0} /\ Len(toPage') = Len(toPage) - 1
           /\ DOMAIN toPage = 1..Len(toPage)
           /\ \A i \in DOMAIN toPage' :
                /\ i \in Nat \ {0} /\ i + 1 \in DOMAIN toPage
                /\ toPage'[i] = toPage[i + 1]
           /\ Cardinality(OutputsUnderWay) = Cardinality(OutputsUnderWay')
                + IF toPage[1].type = "output" THEN 1 ELSE 0
           /\ Cardinality(OutputsUnderWay') \in Nat
<1>1. /\ Head(toPage) = toPage[1] /\ 1 \in DOMAIN toPage
      /\ toPage[1] \in PageMessage
      /\ Len(toPage) \in Nat \ {0} /\ Len(toPage') = Len(toPage) - 1
      /\ DOMAIN toPage = 1..Len(toPage)
      /\ DOMAIN toPage' = 1..(Len(toPage) - 1)
      /\ \A i \in DOMAIN toPage' : toPage'[i] = toPage[i + 1]
  BY Shifted DEF TypeOK, Hear
<1> DEFINE rest == OutputsUnderWay \ {1}
<1>2. /\ rest \subseteq Int /\ OutputsUnderWay' \subseteq Int
      /\ \A i \in rest : i - 1 \in OutputsUnderWay'
      /\ \A i \in OutputsUnderWay' : i + 1 \in rest
  BY <1>1 DEF OutputsUnderWay
<1>3. IsFiniteSet(OutputsUnderWay) /\ Cardinality(OutputsUnderWay) \in Nat
  BY FiniteOutputs
<1>4. /\ IsFiniteSet(rest)
      /\ Cardinality(rest) = IF 1 \in OutputsUnderWay
                             THEN Cardinality(OutputsUnderWay) - 1
                             ELSE Cardinality(OutputsUnderWay)
  BY <1>3, FS_RemoveElement
<1> HIDE DEF rest
<1>5. Cardinality(OutputsUnderWay') = Cardinality(rest)
  BY <1>2, <1>4, ShiftedCount
<1>6. 1 \in OutputsUnderWay <=> toPage[1].type = "output"
  BY <1>1 DEF OutputsUnderWay
<1>7. Cardinality(rest) \in Nat BY <1>4, FS_CardinalityType
<1>8. QED BY <1>1, <1>3, <1>4, <1>5, <1>6, <1>7

(* What a boot says: maybe some output, then maybe that it goes on or ends.*)
Word(b, type) == <<Message(type, b)>>

Says(b, chunks, ending) ==
    /\ chunks \in Printed(b)
    /\ ending \in {<< >>, Word(b, "running"), Word(b, "done"), Word(b, "error")}
    /\ toPage' = toPage \o (chunks \o ending)

(* One output, or none.                                                    *)
LEMMA ChunksAre ==
    ASSUME NEW b \in Boots, NEW chunks \in Printed(b)
    PROVE  /\ chunks \in Seq(PageMessage) /\ Len(chunks) \in {0, 1}
           /\ \A i \in 1..Len(chunks) :
                chunks[i].type = "output" /\ chunks[i].boot = b
<1>1. CASE chunks = << >> BY <1>1, EmptySeq
<1>2. CASE chunks = <<Message("output", b)>>
  <2>1. /\ <<Message("output", b)>> \in Seq(PageMessage)
        /\ Message("output", b).type = "output" /\ Message("output", b).boot = b
    BY Posted
  <2>2. Len(chunks) = 1 /\ chunks[1] = Message("output", b) BY <1>2
  <2>3. QED BY <1>2, <2>1, <2>2
<1>3. QED BY <1>1, <1>2 DEF Printed

(* What is said stands behind what was said before.                        *)
LEMMA Saying ==
    ASSUME TypeOK, NEW b \in Boots, NEW chunks, NEW ending, Says(b, chunks, ending)
    PROVE  /\ Len(toPage') \in Nat
           /\ DOMAIN toPage = 1..Len(toPage) /\ DOMAIN toPage' = 1..Len(toPage')
           /\ \A i \in DOMAIN toPage : i \in DOMAIN toPage' /\ toPage'[i] = toPage[i]
           /\ \A i \in DOMAIN toPage' \ DOMAIN toPage :
                /\ toPage'[i].boot = b
                /\ \/ toPage'[i].type = "output"
                   \/ i = Len(toPage') /\ \E type \in {"running", "done", "error"} :
                        ending = Word(b, type) /\ toPage'[i].type = type
           /\ Len(chunks) \in Nat
           /\ Cardinality(OutputsUnderWay') = Cardinality(OutputsUnderWay) + Len(chunks)
<1>c. /\ chunks \in Seq(PageMessage) /\ Len(chunks) \in {0, 1}
      /\ \A i \in 1..Len(chunks) : chunks[i].type = "output" /\ chunks[i].boot = b
  BY ChunksAre DEF Says
<1>e. /\ ending \in Seq(PageMessage) /\ Len(ending) \in {0, 1}
      /\ \A i \in 1..Len(ending) :
          /\ ending[i].boot = b
          /\ \E type \in {"running", "done", "error"} :
              ending = Word(b, type) /\ ending[i].type = type
  <2>1. CASE ending = << >> BY <2>1, EmptySeq
  <2>2. ASSUME NEW type \in {"running", "done", "error"}, ending = Word(b, type)
        PROVE  /\ ending \in Seq(PageMessage) /\ Len(ending) = 1
               /\ ending[1].boot = b /\ ending[1].type = type
    BY <2>2, Posted DEF Word
  <2>3. QED BY <2>1, <2>2 DEF Says
<1>p. toPage \in Seq(PageMessage) BY DEF TypeOK
<1> DEFINE said == chunks \o ending
           n == Len(toPage)
           c == Len(chunks)
<1>1. /\ said \in Seq(PageMessage) /\ Len(said) = c + Len(ending)
      /\ \A i \in 1..Len(said) :
          said[i] = IF i <= c THEN chunks[i] ELSE ending[i - c]
  BY <1>c, <1>e, ConcatProperties
<1>2. /\ n \in Nat /\ c \in Nat /\ Len(said) \in Nat
      /\ DOMAIN toPage = 1..n
  BY <1>c, <1>e, <1>p, <1>1, LenProperties
<1>3. toPage' = toPage \o said BY DEF Says
<1> HIDE DEF said
<1>4. /\ Len(toPage') = n + Len(said) /\ DOMAIN toPage' = 1..(n + Len(said))
      /\ \A i \in 1..(n + Len(said)) :
          toPage'[i] = IF i <= n THEN toPage[i] ELSE said[i - n]
  <2>1. toPage' \in Seq(PageMessage) BY <1>1, <1>3, <1>p, ConcatProperties
  <2>2. QED BY <2>1, <1>1, <1>3, <1>p, ConcatProperties, LenProperties
<1>5. \A i \in DOMAIN toPage' \ DOMAIN toPage :
        /\ i - n \in 1..Len(said) /\ toPage'[i] = said[i - n]
  BY <1>2, <1>4
<1>6. ASSUME NEW i \in DOMAIN toPage' \ DOMAIN toPage
      PROVE  /\ toPage'[i].boot = b
             /\ toPage'[i].type = "output" <=> i - n <= c
             /\ \/ toPage'[i].type = "output"
                \/ i = Len(toPage') /\ \E type \in {"running", "done", "error"} :
                     ending = Word(b, type) /\ toPage'[i].type = type
  <2>1. i - n \in 1..Len(said) /\ toPage'[i] = said[i - n] BY <1>5
  <2>2. CASE i - n <= c
    <3>1. toPage'[i] = chunks[i - n] /\ i - n \in 1..c BY <2>1, <2>2, <1>1, <1>2
    <3>2. toPage'[i].type = "output" /\ toPage'[i].boot = b
      <4>1. PICK k \in 1..c : k = i - n BY <3>1
      <4>2. toPage'[i] = chunks[k] BY <3>1, <4>1
      <4>3. chunks[k].type = "output" /\ chunks[k].boot = b BY <4>1, <1>c
      <4>4. QED BY <4>2, <4>3
    <3>3. QED BY <3>2, <2>2
  <2>3. CASE ~(i - n <= c)
    <3>1. toPage'[i] = ending[i - n - c] /\ i - n - c \in 1..Len(ending)
      BY <2>1, <2>3, <1>1, <1>2, <1>e
    <3>2. i = n + Len(said)
      <4>1. i \in Nat BY <1>2, <1>4
      <4>2. Len(said) = c + Len(ending) /\ Len(ending) \in {0, 1} BY <1>1, <1>e
      <4>3. Len(ending) = 1 /\ i - n - c = 1 BY <3>1, <4>2
      <4>4. QED BY <1>2, <4>1, <4>2, <4>3
    <3>3. PICK type \in {"running", "done", "error"} :
            ending = Word(b, type) /\ toPage'[i].type = type
      BY <3>1, <1>e
    <3>4. toPage'[i].boot = b BY <3>1, <1>e
    <3>5. QED BY <2>3, <3>2, <3>3, <3>4, <1>4
  <2>4. QED BY <2>2, <2>3
<1>7. Cardinality(OutputsUnderWay') = Cardinality(OutputsUnderWay) + c
  <2>1. CASE c = 0
    <3>1. OutputsUnderWay' = OutputsUnderWay
      BY <2>1, <1>2, <1>4, <1>6 DEF OutputsUnderWay
    <3>2. QED BY <2>1, <3>1, FiniteOutputs
  <2>2. CASE c = 1
    <3>1. OutputsUnderWay' = OutputsUnderWay \cup {n + 1}
      BY <2>2, <1>1, <1>2, <1>4, <1>6, <1>e DEF OutputsUnderWay
    <3>2. n + 1 \notin OutputsUnderWay BY <1>2, FiniteOutputs
    <3>3. QED BY <2>2, <3>1, <3>2, FiniteOutputs, FS_AddElement
  <2>3. QED BY <2>1, <2>2, <1>c
<1>8. QED BY <1>1, <1>2, <1>4, <1>6, <1>7

---------------------------------------------------------------------------
(* What a boot that goes on does.                                          *)

(* To its task and to the page.                                            *)
Continues(b) ==
    /\ Active(b)
    /\ UNCHANGED <<pageVars, toWorker, loaded, dropped>>
    /\ \A q \in Boots \ {b} : tasks'[q] = tasks[q]
    /\ tasks'[b].at \in {"staging", "created", "drive", "end"}
    /\ tasks'[b].at = "staging" => tasks'[b] = tasks[b]
    /\ \E chunks, ending :
        /\ Says(b, chunks, ending)
        /\ \A q \in Boots : printed'[q] = printed[q] + IF q = b THEN Len(chunks) ELSE 0
        /\ ending \in {Word(b, "done"), Word(b, "error")} => tasks'[b].at = "end"
        /\ ending = Word(b, "running") => machine' = b

(* And to the machines.                                                    *)
MachinesStay(b) ==
    /\ UNCHANGED <<machine, machines>>
    /\ tasks[b].at = "staging" => tasks'[b].at \in {"staging", "end"}
    /\ tasks[b].at # "staging" => tasks'[b].at \in {"drive", "end"}

MachineIsCreated(b) ==
    /\ tasks[b].at = "staging" /\ tasks'[b].at = "created"
    /\ machine' = b
    /\ machines'[b] = LiveMachine(Asked(b).size)
    /\ \A q \in Boots \ {b} : machines'[q] = Destroyed[q]

MachineIsLost(b) ==
    /\ tasks[b].at = "staging" /\ tasks'[b].at = "end"
    /\ machine' = machine
    /\ machines' = Destroyed

(* Words are told apart by their types.                                    *)
LEMMA Words ==
    ASSUME NEW b \in Boots
    PROVE  /\ \A type, other \in {"running", "done", "error"} :
                Word(b, type) = Word(b, other) => type = other
           /\ \A type \in {"running", "done", "error"} : Word(b, type) # << >>
<1>1. \A type : Word(b, type)[1].type = type /\ Len(Word(b, type)) = 1
  BY DEF Word, Message
<1>2. QED BY <1>1, EmptySeq

(* Whatever is said is some output and a word.                             *)
LEMMA SaysIntro ==
    ASSUME NEW b \in Boots
    PROVE  /\ UNCHANGED toPage /\ TypeOK => Says(b, << >>, << >>)
           /\ \A chunks \in Printed(b) : Post(chunks) => Says(b, chunks, << >>)
           /\ \A chunks \in Printed(b) : Post(chunks \o Word(b, "done"))
                => Says(b, chunks, Word(b, "done"))
           /\ \A type \in {"running", "done", "error"} :
                Post(Word(b, type)) => Says(b, << >>, Word(b, type))
<1>e. << >> \in Printed(b) BY DEF Printed
<1>w. \A type \in {"running", "done", "error"} : Word(b, type) \in Seq(PageMessage)
  BY Posted DEF Word
<1>1. UNCHANGED toPage /\ TypeOK => Says(b, << >>, << >>)
  <2>1. << >> \o << >> = << >> BY EmptySeq, ConcatEmptySeq
  <2>2. toPage \in Seq(PageMessage) => toPage \o << >> = toPage BY ConcatEmptySeq
  <2>3. QED BY <1>e, <2>1, <2>2 DEF Says, TypeOK
<1>2. ASSUME NEW chunks \in Printed(b), Post(chunks) PROVE Says(b, chunks, << >>)
  <2>1. chunks \o << >> = chunks BY ChunksAre, ConcatEmptySeq
  <2>2. QED BY <1>2, <2>1 DEF Says, Post
<1>3. ASSUME NEW chunks \in Printed(b), Post(chunks \o Word(b, "done"))
      PROVE  Says(b, chunks, Word(b, "done"))
  BY <1>3 DEF Says, Post
<1>4. ASSUME NEW type \in {"running", "done", "error"}, Post(Word(b, type))
      PROVE  Says(b, << >>, Word(b, type))
  <2>1. << >> \o Word(b, type) = Word(b, type) BY <1>w, ConcatEmptySeq
  <2>2. Word(b, type) \in {<< >>, Word(b, "running"), Word(b, "done"), Word(b, "error")}
    OBVIOUS
  <2>3. QED BY <1>4, <1>e, <2>1, <2>2 DEF Says, Post
<1>5. QED BY <1>1, <1>2, <1>3, <1>4

(* Each step of a boot is of that form.                                    *)
LEMMA Continuing ==
    ASSUME TypeOK, NEW b \in Boots, Continue(b)
    PROVE  /\ Continues(b)
           /\ MachinesStay(b) \/ MachineIsCreated(b) \/ MachineIsLost(b)
<1> USE DEF Goes, Ends, Over, Active
<1>t. tasks \in [Boots -> TaskState] /\ printed \in [Boots -> 0..MaxOutputs]
      /\ machines \in [Boots -> MachineState]
  BY DEF TypeOK
<1>n. Len(<< >>) = 0 BY EmptySeq
<1>o. UNCHANGED printed => \A q \in Boots :
        printed'[q] = printed[q] + IF q = b THEN Len(<< >>) ELSE 0
  BY <1>t, <1>n, PlaygroundAssumption
<1>g. \A chunks : Prints(b, chunks) => \A q \in Boots :
        printed'[q] = printed[q] + IF q = b THEN Len(chunks) ELSE 0
  BY <1>t, PlaygroundAssumption DEF Prints
<1>p. \A place : Goes(b, place) /\ tasks[b].at # "none" /\ tasks[b].at # "end" =>
        /\ tasks'[b].at = place
        /\ \A q \in Boots \ {b} : tasks'[q] = tasks[q]
  BY <1>t DEF TaskState
<1>e. Ends(b) => /\ tasks'[b].at = "end"
                 /\ \A q \in Boots \ {b} : tasks'[q] = tasks[q]
  BY <1>t
<1>w. /\ << >> \notin {Word(b, "done"), Word(b, "error")}
      /\ << >> # Word(b, "running")
      /\ Word(b, "done") # Word(b, "running") /\ Word(b, "error") # Word(b, "running")
      /\ Word(b, "running") \notin {Word(b, "done"), Word(b, "error")}
  BY Words
<1>h. ASSUME Throws(b) PROVE Says(b, << >>, Word(b, "error"))
  BY <1>h, SaysIntro DEF Throws, Word
<1>1. CASE Stage(b) \/ StageThrows(b)
  <2>1. tasks[b].at = "staging" /\ UNCHANGED <<machine, machines, printed>>
        /\ UNCHANGED <<pageVars, toWorker, loaded, dropped>>
    BY <1>1 DEF Stage, StageThrows, At
  <2>2. (UNCHANGED <<tasks, toPage>>) \/ Throws(b)
    BY <1>1 DEF Stage, StageThrows
  <2>3. CASE UNCHANGED <<tasks, toPage>>
    <3>1. Says(b, << >>, << >>) BY <2>3, SaysIntro
    <3>2. Continues(b) BY <2>1, <2>3, <3>1, <1>o, <1>w DEF Continues
    <3>3. QED BY <2>1, <2>3, <3>2 DEF MachinesStay
  <2>4. CASE Throws(b)
    <3>1. Continues(b) BY <2>1, <2>4, <1>h, <1>o, <1>w, <1>e DEF Continues, Throws
    <3>2. QED BY <2>1, <2>4, <3>1, <1>e DEF MachinesStay, Throws
  <2>5. QED BY <2>2, <2>3, <2>4
<1>2. CASE Create(b)
  <2>1. tasks[b].at = "staging" /\ UNCHANGED printed
        /\ UNCHANGED <<pageVars, toWorker, loaded, dropped>>
    BY <1>2 DEF Create, At
  <2>2. CASE /\ machines' = [Destroyed EXCEPT ![b] = LiveMachine(Asked(b).size)]
             /\ machine' = b
             /\ Goes(b, "created")
             /\ Post(<<Message("running", b)>>)
    <3>1. Says(b, << >>, Word(b, "running")) BY <2>2, SaysIntro DEF Word
    <3>2. Continues(b) BY <2>1, <2>2, <3>1, <1>o, <1>w, <1>p DEF Continues
    <3>3. MachineIsCreated(b)
      BY <2>1, <2>2, <1>p DEF MachineIsCreated, Destroyed
    <3>4. QED BY <3>2, <3>3
  <2>3. CASE machines' = Destroyed /\ Throws(b) /\ UNCHANGED machine
    <3>1. Continues(b) BY <2>1, <2>3, <1>h, <1>o, <1>w, <1>e DEF Continues, Throws
    <3>2. QED BY <2>1, <2>3, <3>1, <1>e DEF MachineIsLost, Throws
  <2>4. QED BY <1>2, <2>2, <2>3 DEF Create
<1>3. ASSUME Driven(b)
      PROVE  /\ tasks[b].at \in {"created", "drive"}
             /\ UNCHANGED <<pageVars, toWorker, loaded, dropped, machine, machines>>
  BY <1>3 DEF Driven, At
<1>4. CASE RunSlice(b) \/ Read(b)
  <2>1. Driven(b) /\ Goes(b, "drive") BY <1>4 DEF RunSlice, Read
  <2>2. PICK chunks \in Printed(b) : Prints(b, chunks) /\ Post(chunks)
    BY <1>4 DEF RunSlice, Read
  <2>3. Says(b, chunks, << >>) BY <2>2, SaysIntro
  <2>4. Continues(b) BY <1>3, <2>1, <2>2, <2>3, <1>g, <1>w, <1>p DEF Continues
  <2>5. QED BY <1>3, <2>1, <2>4, <1>p DEF MachinesStay
<1>5. CASE Finish(b)
  <2>1. Driven(b) /\ Ends(b) BY <1>5 DEF Finish
  <2>2. PICK chunks \in Printed(b) :
          Prints(b, chunks) /\ Post(chunks \o <<Message("done", b)>>)
    BY <1>5 DEF Finish
  <2>3. Says(b, chunks, Word(b, "done")) BY <2>2, SaysIntro DEF Word
  <2>4. Continues(b) BY <1>3, <2>1, <2>2, <2>3, <1>g, <1>w, <1>e DEF Continues
  <2>5. QED BY <1>3, <2>1, <2>4, <1>e DEF MachinesStay
<1>6. CASE FinishStopped(b)
  <2>1. Driven(b) /\ Ends(b) /\ UNCHANGED printed BY <1>6 DEF FinishStopped
  <2>2. Says(b, << >>, Word(b, "done")) BY <1>6, SaysIntro DEF FinishStopped, Word
  <2>3. Continues(b) BY <1>3, <2>1, <2>2, <1>o, <1>w, <1>e DEF Continues
  <2>4. QED BY <1>3, <2>1, <2>3, <1>e DEF MachinesStay
<1>7. CASE DriveThrows(b)
  <2>1. Driven(b) /\ Ends(b) /\ UNCHANGED printed BY <1>7 DEF DriveThrows, Throws
  <2>2. Says(b, << >>, Word(b, "error")) BY <1>7, <1>h DEF DriveThrows
  <2>3. Continues(b) BY <1>3, <2>1, <2>2, <1>o, <1>w, <1>e DEF Continues
  <2>4. QED BY <1>3, <2>1, <2>3, <1>e DEF MachinesStay
<1>8. QED BY <1>1, <1>2, <1>4, <1>5, <1>6, <1>7 DEF Continue

---------------------------------------------------------------------------
(* One boot at a time.                                                     *)

(* A machine that is created is the only one that lives.                   *)
LEMMA OneMachine ==
    ASSUME TypeOK, LoopInv, NEW b \in Boots, b = boots,
           MachinesStay(b) \/ MachineIsCreated(b) \/ MachineIsLost(b)
    PROVE  /\ machine' <= boots
           /\ \A q \in Boots : machines'[q].state = "live" => q = machine'
<1> USE DEF LoopInv, TypeOK
<1>d. \A q \in Boots : Destroyed[q].state # "live"
  BY DEF Destroyed, Gone
<1>1. CASE MachinesStay(b) BY <1>1 DEF MachinesStay
<1>2. CASE MachineIsCreated(b)
  <2>1. machine' <= boots BY <1>2 DEF MachineIsCreated
  <2>2. \A q \in Boots \ {b} : machines'[q].state # "live"
    BY <1>2, <1>d DEF MachineIsCreated
  <2>3. QED BY <1>2, <2>1, <2>2 DEF MachineIsCreated
<1>3. CASE MachineIsLost(b) BY <1>3, <1>d DEF MachineIsLost
<1>4. QED BY <1>1, <1>2, <1>3

(* Each step keeps the latest boot the only one that is going on.          *)
LEMMA LoopStep ==
    ASSUME TypeOK, LoopInv, [Next]_vars
    PROVE  LoopInv'
<1>p. MaxBoots \in Nat /\ boots \in 0..MaxBoots /\ Boots = 1..MaxBoots
      /\ machine \in 0..MaxBoots
  BY PlaygroundAssumption DEF TypeOK, Boots
<1>t. \A b \in Boots : tasks[b].at \in {"none", "staging", "created", "drive", "end"}
  BY TaskFields
<1>c. DOMAIN toPage = 1..Len(toPage) /\ Len(toPage) \in Nat
  BY LenProperties DEF TypeOK
<1> USE DEF pageVars, workerVars, runVars
<1>0. ASSUME UNCHANGED <<phase, boots, reporter, toPage, loaded, machine, machines, tasks>>,
             UnderWay("boot")' \subseteq UnderWay("boot"),
             \A i \in UnderWay("boot")' : toWorker'[i] = toWorker[i]
      PROVE  LoopInv'
  BY <1>0 DEF LoopInv, Busy, Active, LastWord
<1>1. CASE Boot
  <2>1. PICK needs \in SUBSET Images, interactive \in BOOLEAN :
          Send(BootMessage(boots + 1, needs, interactive))
    BY <1>1 DEF Boot
  <2>2. boots + 1 \in Boots BY <1>1, <1>p DEF Boot
  <2>3. /\ BootMessage(boots + 1, needs, interactive) \in WorkerMessage
        /\ BootMessage(boots + 1, needs, interactive).boot = boots + 1
    BY <2>2, SentMessages DEF BootMessage
  <2>4. /\ boots' = boots + 1 /\ phase' = "starting" /\ ~Busy
        /\ UNCHANGED <<reporter, toPage, loaded, machine, machines, tasks>>
    BY <1>1 DEF Boot
  <2>5. toPage = << >> /\ DOMAIN toPage = {} BY <2>4, <1>c, EmptySeq DEF LoopInv
  <2>6. tasks[boots + 1].at = "none" BY <2>2, <1>p DEF LoopInv
  <2>7. \A b \in Boots : ~Active(b) BY <2>4 DEF LoopInv
  <2>8. loaded # "broken" => UnderWay("boot") = {} BY <2>4 DEF LoopInv, Busy
  <2>9. loaded # "broken" => UnderWay("boot")' \subseteq {Len(toWorker) + 1}
    BY <2>1, <2>3, <2>8, Sending
  <2>10. toWorker'[Len(toWorker) + 1].boot = boots + 1
    BY <2>1, <2>3, Sending
  <2>11. loaded # "broken" =>
          \A i \in UnderWay("boot")' :
              toWorker'[i].boot = boots' /\ \A j \in UnderWay("boot")' : i = j
    BY <2>4, <2>9, <2>10
  <2>12. loaded = "no" => phase' \in {"idle", "starting"} BY <2>4
  <2>13. \A b \in Boots : b > boots' => tasks'[b].at = "none"
    BY <2>4, <1>p DEF LoopInv
  <2>14. \A b \in Boots : ~Active(b)' BY <2>4, <2>7 DEF Active
  <2>15. boots' > 0 /\ machine' <= boots' BY <2>4, <1>p DEF LoopInv
  <2>16. tasks'[boots'].at = "none" BY <2>4, <2>6
  <2>17. QED
    BY <2>4, <2>5, <2>11, <2>12, <2>13, <2>14, <2>15, <2>16 DEF LoopInv, Busy
<1>2. CASE Stop \/ Type \/ Resize
  <2>1. PICK m \in WorkerMessage : Send(m) /\ m.type # "boot"
    <3>1. CASE Stop BY <3>1, SentMessages DEF Stop
    <3>2. CASE Type
      <4>1. typed + 1 \in Keys
        BY <3>2, PlaygroundAssumption DEF Type, TypeOK, Keys
      <4>2. QED BY <3>2, <4>1, SentMessages DEF Type
    <3>3. CASE Resize
      <4>1. size' \in Sizes BY <3>3 DEF Resize
      <4>2. QED BY <3>3, <4>1, SentMessages DEF Resize
    <3>4. QED BY <1>2, <3>1, <3>2, <3>3
  <2>2. /\ UnderWay("boot")' \subseteq UnderWay("boot")
        /\ \A i \in UnderWay("boot")' : toWorker'[i] = toWorker[i]
    BY <2>1, Sending
  <2>3. UNCHANGED <<phase, boots, reporter, toPage, loaded, machine, machines, tasks>>
    BY <1>2 DEF Stop, Type, Resize
  <2>4. QED BY <1>0, <2>2, <2>3
<1>3. CASE Clear \/ LibraryChanges \/ UNCHANGED vars
  BY <1>0, <1>3 DEF Clear, LibraryChanges, vars, UnderWay
<1>4. CASE Hear
  <2>1. /\ Head(toPage) = toPage[1] /\ 1 \in DOMAIN toPage
        /\ toPage[1].type \in {"running", "output", "done", "error"}
        /\ toPage # << >>
    BY <1>4, Hearing DEF Hear, PageMessage
  <2>2. loaded = "yes" BY <2>1 DEF LoopInv, TypeOK
  <2>3. Busy BY <2>1 DEF LoopInv
  <2>4. UnderWay("boot") = {} BY <2>1, <2>2 DEF LoopInv
  <2>5. UNCHANGED <<boots, loaded, machine, machines, tasks, toWorker>>
    BY <1>4 DEF Hear
  <2>6. toPage[1].boot = boots BY <2>1 DEF LoopInv
  <2>7. \A i \in DOMAIN toPage' :
          /\ toPage'[i].boot = boots'
          /\ LastWord(i)' => i = Len(toPage') /\ tasks'[boots'].at = "end"
    <3> SUFFICES ASSUME NEW i \in DOMAIN toPage'
        PROVE  /\ toPage'[i].boot = boots'
               /\ LastWord(i)' => i = Len(toPage') /\ tasks'[boots'].at = "end"
      OBVIOUS
    <3>1. i + 1 \in DOMAIN toPage /\ toPage'[i] = toPage[i + 1] /\ i \in Nat
          /\ Len(toPage) \in Nat /\ Len(toPage') = Len(toPage) - 1
      BY <1>4, Hearing
    <3>2. QED BY <2>5, <3>1 DEF LoopInv, LastWord
  <2>8. CASE toPage[1].type = "output" \/ toPage[1].type = "running"
    <3>1. phase' \in {"starting", "running"}
          /\ (phase' = "running" => reporter' = boots)
      BY <1>4, <2>1, <2>3, <2>6, <2>8 DEF Hear, Busy, LoopInv
    <3>2. Busy' BY <3>1 DEF Busy
    <3>3. QED BY <2>2, <2>3, <2>4, <2>5, <2>7, <3>1, <3>2 DEF LoopInv, UnderWay, Active
  <2>9. CASE toPage[1].type \in {"done", "error"}
    <3>1. Len(toPage) = 1 /\ tasks[boots].at = "end"
      BY <2>1, <2>9 DEF LoopInv, LastWord
    <3>2. toPage' = << >>
      <4>1. toPage' \in Seq(PageMessage) /\ Len(toPage') = 0
        BY <1>4, <3>1, Hearing, Shifted DEF Hear, TypeOK
      <4>2. QED BY <4>1, EmptySeq
    <3>3. phase' \in {"done", "error"} /\ reporter' = boots
      BY <1>4, <2>1, <2>6, <2>9 DEF Hear
    <3>4. \A b \in Boots : ~Active(b) BY <3>1 DEF LoopInv, Active
    <3>5. QED BY <2>2, <2>4, <2>5, <2>7, <3>2, <3>3, <3>4 DEF LoopInv, Busy, UnderWay, Active
  <2>10. QED BY <2>1, <2>8, <2>9
<1>5. CASE Load
  <2>1. loaded = "no" /\ loaded' = "yes"
        /\ UNCHANGED <<phase, boots, reporter, toWorker, toPage, machine, machines, tasks>>
    BY <1>5 DEF Load
  <2>2. QED BY <2>1 DEF LoopInv, Busy, Active, LastWord, UnderWay
<1>6. CASE Break
  <2>1. loaded = "no" /\ loaded' = "broken" /\ phase' = "error"
        /\ UNCHANGED <<boots, reporter, toWorker, toPage, machine, machines, tasks>>
    BY <1>6 DEF Break
  <2>2. QED BY <2>1 DEF LoopInv, Busy, Active, LastWord, UnderWay
<1>7. CASE ReceiveBoot
  <2>1. Receive("boot") BY <1>7 DEF ReceiveBoot
  <2>2. loaded = "yes" /\ UNCHANGED <<phase, boots, reporter, toPage, loaded, machine, machines>>
    BY <1>7 DEF ReceiveBoot, Receive
  <2>3. 1 \in UnderWay("boot") /\ Head(toWorker) = toWorker[1]
    BY <2>1, Receiving
  <2>4. toWorker[1].boot = boots /\ phase = "starting" /\ tasks[boots].at = "none"
        /\ toPage = << >> /\ \A j \in UnderWay("boot") : j = 1
    BY <2>2, <2>3 DEF LoopInv
  <2>5. Busy /\ boots \in Boots BY <2>4, <1>p DEF LoopInv, Busy
  <2>6. UnderWay("boot")' = {}
    <3>1. \A i \in UnderWay("boot")' : i \in Nat \ {0} /\ i + 1 \in UnderWay("boot")
      BY <2>1, Receiving
    <3>2. \A i \in UnderWay("boot")' : FALSE BY <2>4, <3>1
    <3>3. QED BY <3>2
  <2>7. tasks' = [tasks EXCEPT ![boots] = Task("staging", toWorker[1])]
    BY <1>7, <2>3, <2>4 DEF ReceiveBoot
  <2>8. \A b \in Boots : tasks'[b].at = IF b = boots THEN "staging" ELSE tasks[b].at
    BY <2>7 DEF TypeOK, Task
  <2>9. \A b \in Boots : Active(b)' => b = boots
    BY <2>8 DEF LoopInv, Active
  <2>10. \A b \in Boots : b > boots => tasks'[b].at = "none"
    BY <2>8, <1>p DEF LoopInv
  <2>11. DOMAIN toPage' = {} BY <2>2, <2>4, EmptySeq
  <2>12. Busy' BY <2>2, <2>5 DEF Busy
  <2>13. QED
    BY <2>2, <2>4, <2>5, <2>6, <2>9, <2>10, <2>11, <2>12 DEF LoopInv
<1>8. CASE ReceiveInput \/ ReceiveStop \/ ReceiveResize
  <2>1. PICK type \in {"input", "stop", "resize"} : Receive(type)
    BY <1>8 DEF ReceiveInput, ReceiveStop, ReceiveResize
  <2>2. /\ loaded = "yes" /\ UNCHANGED <<phase, boots, reporter, toPage, loaded, machine, tasks>>
        /\ \A b \in Boots : machines'[b].state = "live" => machines[b].state = "live"
    BY <1>8 DEF ReceiveInput, ReceiveStop, ReceiveResize, Receive, Sized, LiveMachine, TypeOK
  <2>3. \A i \in UnderWay("boot")' :
          i \in Nat \ {0} /\ i + 1 \in UnderWay("boot") /\ toWorker'[i] = toWorker[i + 1]
    BY <2>1, Receiving
  <2>4. \A i \in UnderWay("boot")' :
          /\ toWorker'[i].boot = boots
          /\ phase = "starting"
          /\ tasks[boots].at = "none"
          /\ toPage = << >>
          /\ \A j \in UnderWay("boot")' : i = j
    <3> SUFFICES ASSUME NEW i \in UnderWay("boot")'
        PROVE  /\ toWorker'[i].boot = boots
               /\ phase = "starting"
               /\ tasks[boots].at = "none"
               /\ toPage = << >>
               /\ \A j \in UnderWay("boot")' : i = j
      OBVIOUS
    <3>1. i \in Nat /\ i + 1 \in UnderWay("boot") /\ toWorker'[i] = toWorker[i + 1]
      BY <2>3
    <3>2. \A j \in UnderWay("boot") : j = i + 1 BY <2>2, <3>1 DEF LoopInv
    <3>3. \A j \in UnderWay("boot")' : i = j BY <2>3, <3>1, <3>2
    <3>4. QED BY <2>2, <3>1, <3>3 DEF LoopInv
  <2>5. QED BY <2>2, <2>4 DEF LoopInv, Busy, Active, LastWord
<1>9. ASSUME NEW b \in Boots, Continue(b) PROVE LoopInv'
  <2>1. /\ Continues(b)
        /\ MachinesStay(b) \/ MachineIsCreated(b) \/ MachineIsLost(b)
    BY <1>9, Continuing
  <2>2. /\ Active(b) /\ UNCHANGED <<phase, boots, reporter, toWorker, loaded>>
        /\ \A q \in Boots \ {b} : tasks'[q] = tasks[q]
        /\ tasks'[b].at \in {"staging", "created", "drive", "end"}
    BY <2>1 DEF Continues
  <2>3. b = boots /\ Busy /\ loaded = "yes"
    BY <2>2 DEF LoopInv, Active, TypeOK
  <2>4. machine' <= boots /\ \A q \in Boots : machines'[q].state = "live" => q = machine'
    BY <2>1, <2>3, OneMachine
  <2>5. UnderWay("boot") = {} BY <2>2, <2>3 DEF LoopInv, Active
  <2>6. UnderWay("boot")' = {} BY <2>2, <2>5 DEF UnderWay
  <2>7. \A q \in Boots : (Active(q)' => q = b) /\ (q > boots => tasks'[q].at = "none")
    BY <2>2, <2>3, <1>p DEF LoopInv, Active
  <2>8. \A i \in DOMAIN toPage' :
          /\ toPage'[i].boot = boots
          /\ LastWord(i)' => i = Len(toPage') /\ tasks'[boots].at = "end"
    <3>1. PICK chunks, ending :
            /\ Says(b, chunks, ending)
            /\ ending \in {Word(b, "done"), Word(b, "error")} => tasks'[b].at = "end"
      BY <2>1 DEF Continues
    <3>2. ASSUME NEW i \in DOMAIN toPage
          PROVE  toPage'[i].boot = boots /\ ~LastWord(i)'
      <4>1. toPage'[i] = toPage[i] BY <3>1, Saying
      <4>2. ~LastWord(i) BY <2>2, <2>3 DEF LoopInv, Active
      <4>3. QED BY <4>1, <4>2 DEF LoopInv, LastWord
    <3>3. ASSUME NEW i \in DOMAIN toPage' \ DOMAIN toPage
          PROVE  /\ toPage'[i].boot = boots
                 /\ LastWord(i)' => i = Len(toPage') /\ tasks'[boots].at = "end"
      BY <2>3, <3>1, <3>3, Saying DEF LastWord
    <3>4. QED BY <3>2, <3>3
  <2>9. QED
    BY <2>2, <2>3, <2>4, <2>6, <2>7, <2>8 DEF LoopInv, Busy
<1>10. QED
  BY <1>1, <1>2, <1>3, <1>4, <1>5, <1>6, <1>7, <1>8, <1>9
     DEF Next, User, ReceiveAny

(* The page and the worker agree on which boot is going on.                *)
LEMMA LoopInvariant == Spec => []LoopInv
<1>1. Init => LoopInv
  BY PlaygroundAssumption, EmptySeq
     DEF Init, LoopInv, Busy, Active, UnderWay, Over, Gone, Boots
<1>2. TypeOK /\ LoopInv /\ [Next]_vars => LoopInv' BY LoopStep
<1>3. QED BY <1>1, <1>2, TypeCorrect, PTL DEF Spec

(* One loop drives a machine at a time, and one machine at most lives, for *)
(* any number of boots.                                                    *)
THEOREM OneLoop == Spec => []OneLoopDrives
<1>1. TypeOK /\ LoopInv => OneLoopDrives
  <2> SUFFICES ASSUME TypeOK, LoopInv, NEW a \in Boots, NEW b \in Boots, a # b
      PROVE  /\ {tasks[a].at, tasks[b].at} \cap {"none", "end"} # {}
             /\ {machines[a].state, machines[b].state} # {"live"}
    BY DEF OneLoopDrives
  <2>1. ~Active(a) \/ ~Active(b) BY DEF LoopInv
  <2>2. tasks[a].at \in {"none", "end"} \/ tasks[b].at \in {"none", "end"}
    BY <2>1, TaskFields DEF Active
  <2>3. machines[a].state # "live" \/ machines[b].state # "live" BY DEF LoopInv
  <2>4. QED BY <2>2, <2>3
<1>2. QED BY <1>1, TypeCorrect, LoopInvariant, PTL

(* The end the page shows is the end of the machine it asked for last.     *)
THEOREM OwnOutcome == Spec => []OutcomeIsOwn
<1>1. LoopInv => OutcomeIsOwn BY DEF LoopInv, OutcomeIsOwn
<1>2. QED BY <1>1, LoopInvariant, PTL

---------------------------------------------------------------------------
(* The console.                                                            *)

(* Each step keeps what was printed shown or under way.                    *)
LEMMA ConsoleStep ==
    ASSUME TypeOK, LoopInv, ConsoleInv, [Next]_vars
    PROVE  ConsoleInv'
<1> USE DEF pageVars, workerVars, runVars
<1>p. MaxBoots \in Nat /\ boots \in 0..MaxBoots /\ Boots = 1..MaxBoots
  BY PlaygroundAssumption DEF TypeOK, Boots
<1>t. printed \in [Boots -> 0..MaxOutputs] /\ tasks \in [Boots -> TaskState]
      /\ shown \in Seq(Boots) /\ Len(shown) \in Nat
  BY LenProperties DEF TypeOK
<1>c. Cardinality(OutputsUnderWay) \in Nat BY FiniteOutputs
<1>0. ASSUME UNCHANGED <<boots, tasks, printed, toPage>>,
             Busy' => Busy /\ UNCHANGED shown
      PROVE  ConsoleInv'
  BY <1>0 DEF ConsoleInv, OutputsUnderWay
<1>1. CASE Boot
  <2>1. boots + 1 \in Boots BY <1>1, <1>p DEF Boot
  <2>2. /\ boots' = boots + 1 /\ shown' = << >> /\ ~Busy
        /\ UNCHANGED <<toPage, tasks, printed>>
    BY <1>1 DEF Boot
  <2>3. toPage' = << >> BY <2>2 DEF LoopInv
  <2>4. OutputsUnderWay' = {} BY <2>3, EmptySeq DEF OutputsUnderWay
  <2>5. printed'[boots'] = 0 BY <2>1, <2>2, <1>p DEF LoopInv, ConsoleInv
  <2>6. DOMAIN shown' = {} /\ Len(shown') = 0 BY <2>2, EmptySeq
  <2>7. Cardinality(OutputsUnderWay') = 0 BY <2>4, FS_EmptySet
  <2>8. QED BY <2>2, <2>5, <2>6, <2>7 DEF ConsoleInv
<1>2. CASE Stop \/ Type \/ Resize \/ Clear \/ Load \/ LibraryChanges \/ UNCHANGED vars
  <2>1. /\ UNCHANGED <<boots, tasks, printed, toPage>>
        /\ UNCHANGED phase
        /\ ~Busy \/ UNCHANGED shown
    BY <1>2 DEF Stop, Type, Resize, Clear, Load, LibraryChanges, vars
  <2>2. QED BY <1>0, <2>1 DEF Busy
<1>3. CASE Break
  BY <1>0, <1>3 DEF Break, Busy
<1>4. CASE Hear
  <2>1. /\ Head(toPage) = toPage[1] /\ 1 \in DOMAIN toPage
        /\ toPage[1].type \in {"running", "output", "done", "error"}
        /\ toPage[1].boot \in Boots
        /\ toPage # << >>
        /\ Cardinality(OutputsUnderWay) = Cardinality(OutputsUnderWay')
              + IF toPage[1].type = "output" THEN 1 ELSE 0
        /\ Cardinality(OutputsUnderWay') \in Nat
    BY <1>4, Hearing DEF Hear, PageMessage
  <2>2. UNCHANGED <<boots, tasks, printed>> BY <1>4 DEF Hear
  <2>3. Busy /\ toPage[1].boot = boots BY <2>1 DEF LoopInv
  <2>4. CASE toPage[1].type = "output"
    <3>1. shown' = Append(shown, boots) BY <1>4, <2>1, <2>3, <2>4 DEF Hear
    <3>2. /\ Len(shown') = Len(shown) + 1
          /\ \A i \in DOMAIN shown' : shown'[i] = boots
      <4>1. boots \in Boots BY <2>1, <2>3
      <4>2. \A i \in DOMAIN shown : shown[i] = boots BY <2>3 DEF ConsoleInv
      <4>3. QED BY <1>t, <3>1, <4>1, <4>2, Lengthened
    <3>3. Len(shown') + Cardinality(OutputsUnderWay') = printed[boots]
      BY <1>t, <2>1, <2>3, <2>4, <3>2 DEF ConsoleInv
    <3>4. QED BY <2>2, <3>2, <3>3 DEF ConsoleInv
  <2>5. CASE toPage[1].type # "output"
    <3>1. UNCHANGED shown BY <1>4, <2>1, <2>5 DEF Hear
    <3>2. Len(shown) + Cardinality(OutputsUnderWay') = printed[boots]
      BY <1>t, <2>1, <2>3, <2>5 DEF ConsoleInv
    <3>3. QED BY <2>2, <2>3, <3>1, <3>2 DEF ConsoleInv
  <2>6. QED BY <2>4, <2>5
<1>5. CASE ReceiveBoot
  <2>1. Receive("boot") BY <1>5 DEF ReceiveBoot
  <2>2. loaded = "yes" /\ UNCHANGED <<phase, boots, shown, toPage>>
    BY <1>5 DEF ReceiveBoot, Receive
  <2>3. printed' = [b \in Boots |-> 0] BY <1>5 DEF ReceiveBoot
  <2>4. 1 \in UnderWay("boot") BY <2>1, Receiving
  <2>5. tasks[boots].at = "none" /\ boots \in Boots /\ Busy
    BY <1>p, <2>2, <2>4 DEF LoopInv, Busy
  <2>6. printed[boots] = 0 BY <2>5 DEF ConsoleInv
  <2>7. printed'[boots] = 0 BY <2>3, <2>5
  <2>8. \A b \in Boots : printed'[b] = 0 BY <2>3
  <2>9. Busy => /\ \A i \in DOMAIN shown : shown[i] = boots
                /\ Len(shown) + Cardinality(OutputsUnderWay) = printed'[boots]
    BY <2>6, <2>7 DEF ConsoleInv
  <2>10. OutputsUnderWay' = OutputsUnderWay /\ (Busy' <=> Busy)
    BY <2>2 DEF OutputsUnderWay, Busy
  <2>11. QED BY <2>2, <2>8, <2>9, <2>10 DEF ConsoleInv
<1>6. CASE ReceiveInput \/ ReceiveStop \/ ReceiveResize
  BY <1>0, <1>6 DEF ReceiveInput, ReceiveStop, ReceiveResize, Receive, Busy
<1>7. ASSUME NEW b \in Boots, Continue(b) PROVE ConsoleInv'
  <2>1. Continues(b) BY <1>7, Continuing
  <2>2. /\ Active(b) /\ UNCHANGED <<phase, boots, shown>>
        /\ \A q \in Boots \ {b} : tasks'[q] = tasks[q]
        /\ tasks'[b].at # "none"
    BY <2>1 DEF Continues
  <2>3. b = boots /\ Busy BY <2>2 DEF LoopInv
  <2>4. PICK chunks, ending :
          /\ Says(b, chunks, ending)
          /\ \A q \in Boots : printed'[q] = printed[q] + IF q = b THEN Len(chunks) ELSE 0
    BY <2>1 DEF Continues
  <2>5. /\ Len(chunks) \in Nat
        /\ Cardinality(OutputsUnderWay') = Cardinality(OutputsUnderWay) + Len(chunks)
    BY <2>4, Saying
  <2>6. Len(shown) + Cardinality(OutputsUnderWay') = printed'[boots]
    BY <1>t, <1>c, <2>3, <2>4, <2>5 DEF ConsoleInv
  <2>7. \A q \in Boots : tasks'[q].at = "none" => printed'[q] = 0
    <3> SUFFICES ASSUME NEW q \in Boots, tasks'[q].at = "none" PROVE printed'[q] = 0
      OBVIOUS
    <3>1. q # b /\ tasks[q].at = "none" BY <2>2
    <3>2. printed[q] = 0 BY <3>1 DEF ConsoleInv
    <3>3. QED BY <2>4, <3>1, <3>2
  <2>8. QED BY <2>2, <2>3, <2>6, <2>7 DEF ConsoleInv
<1>8. QED
  BY <1>1, <1>2, <1>3, <1>4, <1>5, <1>6, <1>7 DEF Next, User, ReceiveAny

(* While a machine starts or runs, the terminal shows what that machine    *)
(* has printed, for any number of boots and outputs.                       *)
THEOREM OwnConsole == Spec => []ConsoleIsOwn
<1>1. Init => ConsoleInv BY DEF Init, ConsoleInv, Busy
<1>2. TypeOK /\ LoopInv /\ ConsoleInv /\ [Next]_vars => ConsoleInv' BY ConsoleStep
<1>3. LoopInv /\ ConsoleInv => ConsoleIsOwn
  BY DEF LoopInv, ConsoleInv, ConsoleIsOwn, OutputsUnderWay
<1>4. QED BY <1>1, <1>2, <1>3, TypeCorrect, LoopInvariant, PTL DEF Spec

---------------------------------------------------------------------------
(* The keys.                                                               *)

(* The order of the keys under way, whatever the worker has of them.       *)
KeysUnderWay ==
    /\ \A i, j \in UnderWay("input") : i < j => toWorker[i].key < toWorker[j].key
    /\ \A i \in UnderWay("input") :
        /\ toWorker[i].key \in 1..typed
        /\ toWorker[i].key > before <=> \A j \in UnderWay("boot") : j < i

(* Taking a message off the channel keeps the order of the keys.           *)
LEMMA KeysMoveUp ==
    ASSUME TypeOK, NEW type, Receive(type), KeysUnderWay
    PROVE  KeysUnderWay' \/ type = "boot"
<1>1. SUFFICES ASSUME type # "boot" PROVE KeysUnderWay'
  OBVIOUS
<1>2. UNCHANGED <<typed, before>> BY DEF Receive, pageVars
<1>3. 1 \notin UnderWay("boot") BY <1>1, Receiving
<1>4. ASSUME NEW i \in UnderWay("input")', NEW j \in UnderWay("input")', i < j
      PROVE  toWorker'[i].key < toWorker'[j].key
  <2>1. /\ i \in Nat /\ i + 1 \in UnderWay("input") /\ toWorker'[i] = toWorker[i + 1]
        /\ j \in Nat /\ j + 1 \in UnderWay("input") /\ toWorker'[j] = toWorker[j + 1]
    BY Receiving
  <2>2. i + 1 < j + 1 BY <1>4, <2>1
  <2>3. QED BY <2>1, <2>2 DEF KeysUnderWay
<1>5. ASSUME NEW i \in UnderWay("input")'
      PROVE  /\ toWorker'[i].key \in 1..typed'
             /\ toWorker'[i].key > before' <=> \A j \in UnderWay("boot")' : j < i
  <2>1. /\ i \in Nat /\ i + 1 \in UnderWay("input") /\ toWorker'[i] = toWorker[i + 1]
    BY Receiving
  <2>2. (\A j \in UnderWay("boot") : j < i + 1) <=> \A j \in UnderWay("boot")' : j < i
    <3>1. ASSUME \A j \in UnderWay("boot") : j < i + 1, NEW j \in UnderWay("boot")'
          PROVE  j < i
      <4>1. j \in Nat /\ j + 1 \in UnderWay("boot") BY Receiving
      <4>2. j + 1 < i + 1 BY <3>1, <4>1
      <4>3. QED BY <2>1, <4>1, <4>2
    <3>2. ASSUME \A j \in UnderWay("boot")' : j < i, NEW j \in UnderWay("boot")
          PROVE  j < i + 1
      <4>1. j \in Nat /\ j - 1 \in UnderWay("boot")' BY <1>3, Receiving
      <4>2. j - 1 < i BY <3>2, <4>1
      <4>3. QED BY <2>1, <4>1, <4>2
    <3>3. QED BY <3>1, <3>2
  <2>3. QED BY <1>2, <2>1, <2>2 DEF KeysUnderWay
<1>6. QED BY <1>4, <1>5 DEF KeysUnderWay

(* What the keys that have arrived are, and which are still under way.     *)
KeysHere ==
    UnderWay("boot") = {} =>
        /\ before + Len(Arrived) <= typed
        /\ \A i \in DOMAIN Arrived : Arrived[i] = before + i
        /\ \A i \in UnderWay("input") : toWorker[i].key > before + Len(Arrived)
        /\ \A k \in before + Len(Arrived) + 1 .. typed :
            \E i \in UnderWay("input") : toWorker[i].key = k

KeysAhead ==
    UnderWay("boot") # {} =>
        \A k \in before + 1 .. typed : \E i \in UnderWay("input") : toWorker[i].key = k

(* Each step keeps the keys of the latest boot together and in order.      *)
LEMMA KeysStep ==
    ASSUME TypeOK, LoopInv, KeysInv, [Next]_vars
    PROVE  KeysInv'
<1> USE DEF pageVars, workerVars, runVars
<1>i. KeysInv <=> KeysUnderWay /\ KeysHere /\ KeysAhead
  BY DEF KeysInv, KeysUnderWay, KeysHere, KeysAhead
<1>j. KeysUnderWay' /\ KeysHere' /\ KeysAhead' => KeysInv'
  BY DEF KeysInv, KeysUnderWay, KeysHere, KeysAhead
<1>n. typed \in Nat /\ before \in Nat /\ before <= typed
  BY PlaygroundAssumption DEF TypeOK
<1>a. /\ Arrived \in Seq(Keys) /\ Len(Arrived) \in Nat
      /\ DOMAIN Arrived = 1..Len(Arrived)
  BY ConcatProperties, LenProperties DEF TypeOK, Arrived
<1>0. ASSUME UNCHANGED <<toWorker, typed, before, Arrived>> PROVE KeysInv'
  BY <1>0 DEF KeysInv, UnderWay
<1>1. CASE Boot
  <2>1. PICK m \in WorkerMessage : Send(m) /\ m.type = "boot"
    <3>1. boots + 1 \in Boots
      BY <1>1, PlaygroundAssumption DEF Boot, Boots, TypeOK
    <3>2. \A needs, interactive : BootMessage(boots + 1, needs, interactive).type = "boot"
      BY DEF BootMessage
    <3>3. QED BY <1>1, <3>1, <3>2, SentMessages DEF Boot
  <2>2. before' = typed /\ typed' = typed BY <1>1 DEF Boot
  <2>3. \A i \in UnderWay("input")' :
          i \in UnderWay("input") /\ toWorker'[i] = toWorker[i]
    BY <2>1, Sending
  <2>4. /\ Len(toWorker) + 1 \in UnderWay("boot")'
        /\ \A i \in UnderWay("input") : i \in 1..Len(toWorker) /\ Len(toWorker) \in Nat
    BY <2>1, Sending
  <2>5. KeysUnderWay'
    <3>1. ASSUME NEW i \in UnderWay("input")', NEW j \in UnderWay("input")', i < j
          PROVE  toWorker'[i].key < toWorker'[j].key
      BY <1>i, <2>3, <3>1 DEF KeysUnderWay
    <3>2. ASSUME NEW i \in UnderWay("input")'
          PROVE  /\ toWorker'[i].key \in 1..typed'
                 /\ toWorker'[i].key > before' <=> \A j \in UnderWay("boot")' : j < i
      <4>1. toWorker'[i].key \in 1..typed BY <1>i, <2>3 DEF KeysUnderWay
      <4>2. ~(Len(toWorker) + 1 < i) BY <2>3, <2>4
      <4>3. QED BY <1>n, <2>2, <2>4, <4>1, <4>2
    <3>3. QED BY <3>1, <3>2 DEF KeysUnderWay
  <2>6. KeysHere' /\ KeysAhead' BY <1>n, <2>2, <2>4 DEF KeysHere, KeysAhead
  <2>7. QED BY <1>j, <2>5, <2>6
<1>2. CASE Stop \/ Resize
  <2>1. PICK m \in WorkerMessage : Send(m) /\ m.type \in {"stop", "resize"}
    <3>1. CASE Stop BY <3>1, SentMessages DEF Stop
    <3>2. CASE Resize
      <4>1. size' \in Sizes BY <3>2 DEF Resize
      <4>2. QED BY <3>2, <4>1, SentMessages DEF Resize
    <3>3. QED BY <1>2, <3>1, <3>2
  <2>2. UNCHANGED <<typed, before, Arrived>>
    BY <1>2 DEF Stop, Resize, Arrived
  <2>3. UnderWay("boot")' = UnderWay("boot") /\ UnderWay("input")' = UnderWay("input")
    <3>1. \A t \in {"boot", "input"} : \A i : i \in UnderWay(t)' <=> i \in UnderWay(t)
      BY <2>1, Sending
    <3>2. QED BY <3>1
  <2>4. \A i \in UnderWay("input") : toWorker'[i] = toWorker[i] BY <2>1, Sending
  <2>5. QED BY <2>2, <2>3, <2>4 DEF KeysInv
<1>3. CASE Type
  <2>1. typed + 1 \in Keys
    BY <1>3, PlaygroundAssumption DEF Type, TypeOK, Keys
  <2>2. PICK m \in WorkerMessage : Send(m) /\ m.type = "input" /\ m.key = typed + 1
    BY <1>3, <2>1, SentMessages DEF Type
  <2>3. typed' = typed + 1 /\ UNCHANGED <<before, Arrived>>
    BY <1>3 DEF Type, Arrived
  <2> DEFINE last == Len(toWorker) + 1
  <2>4. /\ last \in UnderWay("input")' /\ toWorker'[last].key = typed + 1
        /\ Len(toWorker) \in Nat
    BY <2>2, Sending
  <2>5. \A i \in UnderWay("input") :
          /\ i \in UnderWay("input")' /\ toWorker'[i] = toWorker[i]
          /\ i \in 1..Len(toWorker)
    BY <2>2, Sending
  <2>6. \A i \in UnderWay("input")' : i \in UnderWay("input") \/ i = last
    BY <2>2, Sending
  <2>7. UnderWay("boot")' = UnderWay("boot")
    <3>1. \A i : i \in UnderWay("boot")' <=> i \in UnderWay("boot")
      BY <2>2, Sending
    <3>2. QED BY <3>1
  <2>8. \A j \in UnderWay("boot") : j < last /\ j \in Nat BY <2>2, Sending
  <2> HIDE DEF last
  <2>9. \A i \in UnderWay("input") : i < last /\ i \in Nat
    BY <2>4, <2>5 DEF last
  <2>10. KeysUnderWay'
    <3>1. ASSUME NEW i \in UnderWay("input")', NEW j \in UnderWay("input")', i < j
          PROVE  toWorker'[i].key < toWorker'[j].key
      <4>1. CASE i = last
        <5>1. last \in Nat BY <2>4 DEF last
        <5>2. QED BY <3>1, <4>1, <5>1, <2>6, <2>9
      <4>2. CASE i # last /\ j = last
        <5>1. i \in UnderWay("input") /\ toWorker'[i] = toWorker[i] BY <2>5, <2>6, <4>2
        <5>2. toWorker[i].key \in 1..typed BY <1>i, <5>1 DEF KeysUnderWay
        <5>3. QED BY <1>n, <2>4, <4>2, <5>1, <5>2
      <4>3. CASE i # last /\ j # last
        BY <1>i, <2>5, <2>6, <3>1, <4>3 DEF KeysUnderWay
      <4>4. QED BY <4>1, <4>2, <4>3
    <3>2. ASSUME NEW i \in UnderWay("input")'
          PROVE  /\ toWorker'[i].key \in 1..typed'
                 /\ toWorker'[i].key > before' <=> \A j \in UnderWay("boot")' : j < i
      <4>1. CASE i = last BY <1>n, <2>3, <2>4, <2>7, <2>8, <4>1
      <4>2. CASE i # last
        <5>1. i \in UnderWay("input") /\ toWorker'[i] = toWorker[i] BY <2>5, <2>6, <4>2
        <5>2. /\ toWorker[i].key \in 1..typed
              /\ toWorker[i].key > before <=> \A j \in UnderWay("boot") : j < i
          BY <1>i, <5>1 DEF KeysUnderWay
        <5>3. QED BY <1>n, <2>3, <2>7, <5>1, <5>2
      <4>3. QED BY <4>1, <4>2
    <3>3. QED BY <3>1, <3>2 DEF KeysUnderWay
  <2>11. KeysHere'
    <3> SUFFICES ASSUME UnderWay("boot")' = {}
        PROVE  /\ before + Len(Arrived) <= typed + 1
               /\ \A i \in DOMAIN Arrived : Arrived[i] = before + i
               /\ \A i \in UnderWay("input")' : toWorker'[i].key > before + Len(Arrived)
               /\ \A k \in before + Len(Arrived) + 1 .. typed + 1 :
                    \E i \in UnderWay("input")' : toWorker'[i].key = k
      BY <2>3 DEF KeysHere
    <3>1. /\ before + Len(Arrived) <= typed
          /\ \A i \in DOMAIN Arrived : Arrived[i] = before + i
          /\ \A i \in UnderWay("input") : toWorker[i].key > before + Len(Arrived)
          /\ \A k \in before + Len(Arrived) + 1 .. typed :
              \E i \in UnderWay("input") : toWorker[i].key = k
      BY <1>i, <2>7 DEF KeysHere
    <3>2. \A i \in UnderWay("input")' : toWorker'[i].key > before + Len(Arrived)
      BY <1>n, <1>a, <2>4, <2>5, <2>6, <3>1
    <3>3. ASSUME NEW k \in before + Len(Arrived) + 1 .. typed + 1
          PROVE  \E i \in UnderWay("input")' : toWorker'[i].key = k
      <4>1. CASE k = typed + 1 BY <2>4, <4>1
      <4>2. CASE k # typed + 1
        <5>1. k \in before + Len(Arrived) + 1 .. typed BY <1>n, <1>a, <4>2
        <5>2. PICK i \in UnderWay("input") : toWorker[i].key = k BY <3>1, <5>1
        <5>3. QED BY <2>5, <5>2
      <4>3. QED BY <4>1, <4>2
    <3>4. before + Len(Arrived) <= typed + 1 BY <1>n, <1>a, <3>1
    <3>5. QED BY <3>1, <3>2, <3>3, <3>4
  <2>12. KeysAhead'
    <3> SUFFICES ASSUME UnderWay("boot") # {}, NEW k \in before + 1 .. typed + 1
        PROVE  \E i \in UnderWay("input")' : toWorker'[i].key = k
      BY <2>3, <2>7 DEF KeysAhead
    <3>1. CASE k = typed + 1 BY <2>4, <3>1
    <3>2. CASE k # typed + 1
      <4>1. k \in before + 1 .. typed BY <1>n, <3>2
      <4>2. PICK i \in UnderWay("input") : toWorker[i].key = k
        BY <1>i, <4>1 DEF KeysAhead
      <4>3. QED BY <2>5, <4>2
    <3>3. QED BY <3>1, <3>2
  <2>13. QED BY <1>j, <2>10, <2>11, <2>12
<1>4. CASE Clear \/ Hear \/ Load \/ Break \/ LibraryChanges \/ UNCHANGED vars
  BY <1>0, <1>4 DEF Clear, Hear, Load, Break, LibraryChanges, vars, Arrived
<1>5. CASE ReceiveBoot
  <2>1. Receive("boot") BY <1>5 DEF ReceiveBoot
  <2>2. loaded = "yes" /\ UNCHANGED <<typed, before>> BY <1>5 DEF ReceiveBoot, Receive
  <2>3. 1 \in UnderWay("boot") /\ \A j \in UnderWay("boot") : j = 1
    BY <2>1, <2>2, Receiving DEF LoopInv
  <2>4. UnderWay("boot")' = {}
    <3>1. \A i \in UnderWay("boot")' : i \in Nat \ {0} /\ i + 1 \in UnderWay("boot")
      BY <2>1, Receiving
    <3>2. \A i \in UnderWay("boot")' : FALSE BY <2>3, <3>1
    <3>3. QED BY <3>2
  <2>5. Arrived' = << >> /\ Len(Arrived') = 0 /\ DOMAIN Arrived' = {}
    <3>1. Arrived' = << >> \o << >> BY <1>5 DEF ReceiveBoot, Arrived
    <3>2. << >> \o << >> = << >> BY EmptySeq, ConcatEmptySeq
    <3>3. QED BY <3>1, <3>2, EmptySeq
  <2>6. \A i \in UnderWay("input")' :
          /\ i \in Nat \ {0} /\ i + 1 \in UnderWay("input")
          /\ toWorker'[i] = toWorker[i + 1]
    BY <2>1, Receiving
  <2>7. \A i \in UnderWay("input") :
          i \in Nat /\ i - 1 \in UnderWay("input")' /\ toWorker'[i - 1] = toWorker[i]
    BY <2>1, Receiving
  <2>8. \A i \in UnderWay("input")' :
          /\ toWorker'[i].key \in 1..typed /\ toWorker'[i].key > before
    <3> SUFFICES ASSUME NEW i \in UnderWay("input")'
        PROVE  toWorker'[i].key \in 1..typed /\ toWorker'[i].key > before
      OBVIOUS
    <3>1. \A j \in UnderWay("boot") : j < i + 1 BY <2>3, <2>6
    <3>2. QED BY <1>i, <2>6, <3>1 DEF KeysUnderWay
  <2>9. KeysUnderWay'
    <3>1. ASSUME NEW i \in UnderWay("input")', NEW j \in UnderWay("input")', i < j
          PROVE  toWorker'[i].key < toWorker'[j].key
      <4>1. i + 1 < j + 1 BY <2>6, <3>1
      <4>2. QED BY <1>i, <2>6, <4>1 DEF KeysUnderWay
    <3>2. QED BY <2>2, <2>4, <2>8, <3>1 DEF KeysUnderWay
  <2>10. KeysHere'
    <3>1. ASSUME NEW k \in before + 1 .. typed
          PROVE  \E i \in UnderWay("input")' : toWorker'[i].key = k
      <4>1. PICK i \in UnderWay("input") : toWorker[i].key = k
        BY <1>i, <2>3 DEF KeysAhead
      <4>2. i - 1 \in UnderWay("input")' /\ toWorker'[i - 1].key = k BY <2>7, <4>1
      <4>3. QED BY <4>2
    <3>2. before + Len(Arrived') = before BY <1>n, <2>5
    <3>3. QED BY <1>n, <2>2, <2>5, <2>8, <3>1, <3>2 DEF KeysHere
  <2>11. KeysAhead' BY <2>4 DEF KeysAhead
  <2>12. QED BY <1>j, <2>9, <2>10, <2>11
<1>6. ASSUME NEW type \in {"input", "stop", "resize"}, Receive(type)
      PROVE  /\ KeysUnderWay' /\ UNCHANGED <<typed, before>>
             /\ UnderWay("boot")' = {} <=> UnderWay("boot") = {}
             /\ \A i \in UnderWay("input")' :
                  /\ i \in Nat \ {0} /\ i + 1 \in UnderWay("input")
                  /\ toWorker'[i] = toWorker[i + 1]
             /\ \A i \in UnderWay("input") : i # 1 =>
                  /\ i - 1 \in UnderWay("input")' /\ toWorker'[i - 1] = toWorker[i]
  <2>1. KeysUnderWay' BY <1>6, <1>i, KeysMoveUp
  <2>2. UNCHANGED <<typed, before>> BY <1>6 DEF Receive
  <2>3. UnderWay("boot")' = {} <=> UnderWay("boot") = {}
    <3>1. 1 \notin UnderWay("boot") BY <1>6, Receiving
    <3>2. ASSUME NEW i \in UnderWay("boot") PROVE UnderWay("boot")' # {}
      BY <1>6, <3>1, Receiving
    <3>3. ASSUME NEW i \in UnderWay("boot")' PROVE UnderWay("boot") # {}
      BY <1>6, Receiving
    <3>4. QED BY <3>2, <3>3
  <2>4. QED BY <1>6, <2>1, <2>2, <2>3, Receiving
<1>7. CASE ReceiveStop \/ ReceiveResize
  <2>1. PICK type \in {"stop", "resize"} : Receive(type)
    BY <1>7 DEF ReceiveStop, ReceiveResize
  <2>2. Arrived' = Arrived BY <1>7 DEF ReceiveStop, ReceiveResize, Arrived
  <2>3. 1 \notin UnderWay("input") BY <2>1, Receiving
  <2>4. \A k : (\E i \in UnderWay("input") : toWorker[i].key = k)
               => \E i \in UnderWay("input")' : toWorker'[i].key = k
    BY <1>6, <2>1, <2>3
  <2>5. UNCHANGED <<typed, before>> /\ KeysUnderWay'
        /\ (UnderWay("boot")' = {} <=> UnderWay("boot") = {})
    BY <1>6, <2>1
  <2>6. KeysHere'
    <3>1. UnderWay("boot")' = {} =>
            \A i \in UnderWay("input")' : toWorker'[i].key > before + Len(Arrived)
      BY <1>i, <1>6, <2>1 DEF KeysHere
    <3>2. QED BY <1>i, <2>2, <2>4, <2>5, <3>1 DEF KeysHere
  <2>7. KeysAhead' BY <1>i, <2>4, <2>5 DEF KeysAhead
  <2>8. QED BY <1>j, <2>5, <2>6, <2>7
<1>8. CASE ReceiveInput
  <2>1. Receive("input") BY <1>8 DEF ReceiveInput
  <2>2. 1 \in UnderWay("input") /\ Head(toWorker) = toWorker[1] BY <2>1, Receiving
  <2> DEFINE k1 == toWorker[1].key
  <2>3. k1 \in 1..typed BY <1>i, <2>2 DEF KeysUnderWay
  <2>4. k1 \in Keys /\ Arrived' = Append(Arrived, k1)
    <3>1. k1 \in Keys
      BY <2>3, <1>n, PlaygroundAssumption DEF TypeOK, Keys
    <3>2. pending' = Append(pending, k1) /\ fed' = fed BY <1>8, <2>2 DEF ReceiveInput
    <3>3. /\ Append(pending, k1) = pending \o <<k1>>
          /\ Append(fed \o pending, k1) = (fed \o pending) \o <<k1>>
          /\ (fed \o pending) \o <<k1>> = fed \o (pending \o <<k1>>)
      <4>1. fed \in Seq(Keys) /\ pending \in Seq(Keys) /\ <<k1>> \in Seq(Keys)
            /\ fed \o pending \in Seq(Keys)
        BY <1>a, <3>1 DEF TypeOK, Arrived
      <4>2. Append(pending, k1) = pending \o <<k1>> BY <3>1, <4>1, AppendIsConcat
      <4>3. Append(fed \o pending, k1) = (fed \o pending) \o <<k1>>
        BY <3>1, <4>1, AppendIsConcat
      <4>4. (fed \o pending) \o <<k1>> = fed \o (pending \o <<k1>>)
        BY <4>1, ConcatAssociative
      <4>5. QED BY <4>2, <4>3, <4>4
    <3>4. QED BY <3>1, <3>2, <3>3 DEF Arrived
  <2> HIDE DEF k1
  <2>5. /\ Len(Arrived') = Len(Arrived) + 1
        /\ DOMAIN Arrived' = 1..(Len(Arrived) + 1)
        /\ \A i \in DOMAIN Arrived : Arrived'[i] = Arrived[i]
        /\ Arrived'[Len(Arrived) + 1] = k1
    BY <1>a, <2>4, Lengthened
  <2>6. /\ KeysUnderWay' /\ UNCHANGED <<typed, before>>
        /\ UnderWay("boot")' = {} <=> UnderWay("boot") = {}
        /\ \A i \in UnderWay("input")' :
             /\ i \in Nat \ {0} /\ i + 1 \in UnderWay("input")
             /\ toWorker'[i] = toWorker[i + 1]
        /\ \A i \in UnderWay("input") : i # 1 =>
             /\ i - 1 \in UnderWay("input")' /\ toWorker'[i - 1] = toWorker[i]
    BY <1>6, <2>1
  <2>7. \A i \in UnderWay("input") : i \in Nat \ {0} /\ (i # 1 => toWorker[i].key > k1)
    <3>1. \A i \in UnderWay("input") : i \in Nat \ {0} BY <2>1, Receiving
    <3>2. \A i \in UnderWay("input") : i # 1 => 1 < i BY <3>1
    <3>3. \A i \in UnderWay("input") : toWorker[i].key \in 1..typed
      BY <1>i DEF KeysUnderWay
    <3>4. \A i \in UnderWay("input") : i # 1 => k1 < toWorker[i].key
      BY <1>i, <2>2, <3>2 DEF KeysUnderWay, k1
    <3>5. QED BY <1>n, <2>3, <3>1, <3>3, <3>4
  <2>8. KeysHere'
    <3> SUFFICES ASSUME UnderWay("boot") = {}
        PROVE  /\ before + (Len(Arrived) + 1) <= typed
               /\ \A i \in DOMAIN Arrived' : Arrived'[i] = before + i
               /\ \A i \in UnderWay("input")' :
                    toWorker'[i].key > before + (Len(Arrived) + 1)
               /\ \A k \in before + (Len(Arrived) + 1) + 1 .. typed :
                    \E i \in UnderWay("input")' : toWorker'[i].key = k
      BY <2>5, <2>6 DEF KeysHere
    <3>1. /\ \A i \in DOMAIN Arrived : Arrived[i] = before + i
          /\ \A i \in UnderWay("input") : toWorker[i].key > before + Len(Arrived)
          /\ \A k \in before + Len(Arrived) + 1 .. typed :
              \E i \in UnderWay("input") : toWorker[i].key = k
      BY <1>i DEF KeysHere
    <3> DEFINE next == before + Len(Arrived) + 1
    <3>2. k1 >= next BY <1>n, <1>a, <2>2, <2>3, <3>1 DEF k1
    <3>3. next \in next..typed BY <1>n, <1>a, <2>3, <3>2
    <3>4. PICK i \in UnderWay("input") : toWorker[i].key = next BY <3>1, <3>3
    <3>5. k1 = next
      <4>1. i # 1 => next > k1 BY <2>7, <3>4
      <4>2. i = 1 => next = k1 BY <3>4 DEF k1
      <4>3. QED BY <1>n, <1>a, <2>3, <3>2, <4>1, <4>2
    <3>6. before + (Len(Arrived) + 1) <= typed BY <1>n, <1>a, <3>3
    <3>7. \A n \in DOMAIN Arrived' : Arrived'[n] = before + n
      BY <1>n, <1>a, <2>5, <3>1, <3>5
    <3>8. \A n \in UnderWay("input")' : toWorker'[n].key > before + (Len(Arrived) + 1)
      <4> SUFFICES ASSUME NEW n \in UnderWay("input")'
          PROVE  toWorker'[n].key > before + (Len(Arrived) + 1)
        OBVIOUS
      <4>1. n + 1 \in UnderWay("input") /\ n + 1 # 1 /\ toWorker'[n] = toWorker[n + 1]
        BY <2>6
      <4>2. toWorker'[n].key > k1 BY <2>7, <4>1
      <4>3. QED BY <1>n, <1>a, <3>5, <4>2
    <3>9. ASSUME NEW k \in before + (Len(Arrived) + 1) + 1 .. typed
          PROVE  \E n \in UnderWay("input")' : toWorker'[n].key = k
      <4>1. k \in next..typed /\ k # next BY <1>n, <1>a
      <4>2. PICK n \in UnderWay("input") : toWorker[n].key = k BY <3>1, <4>1
      <4>3. n # 1 BY <3>5, <4>1, <4>2 DEF k1
      <4>4. n - 1 \in UnderWay("input")' /\ toWorker'[n - 1] = toWorker[n] BY <2>6, <4>2, <4>3
      <4>5. QED BY <4>2, <4>4
    <3>10. QED BY <3>6, <3>7, <3>8, <3>9
  <2>9. KeysAhead'
    <3> SUFFICES ASSUME UnderWay("boot") # {}, NEW k \in before + 1 .. typed
        PROVE  \E i \in UnderWay("input")' : toWorker'[i].key = k
      BY <2>6 DEF KeysAhead
    <3>1. PICK i \in UnderWay("input") : toWorker[i].key = k BY <1>i DEF KeysAhead
    <3>2. \A j \in UnderWay("boot") : j < i
      <4>1. toWorker[i].key > before BY <1>n, <3>1
      <4>2. QED BY <1>i, <4>1 DEF KeysUnderWay
    <3>3. i # 1
      <4>1. PICK j \in UnderWay("boot") : TRUE OBVIOUS
      <4>2. j \in Nat \ {0} /\ j < i BY <2>1, <3>2, Receiving
      <4>3. QED BY <4>2
    <3>4. i - 1 \in UnderWay("input")' /\ toWorker'[i - 1] = toWorker[i] BY <2>6, <3>3
    <3>5. QED BY <3>1, <3>4
  <2>10. QED BY <1>j, <2>6, <2>8, <2>9
<1>9. ASSUME NEW b \in Boots, Continue(b) PROVE KeysInv'
  <2>1. UNCHANGED <<toWorker, typed, before>>
    BY <1>9, Continuing DEF Continues
  <2>2. CASE Read(b)
    <3>1. PICK taken \in 1..Len(pending) :
            /\ fed' = fed \o SubSeq(pending, 1, taken)
            /\ pending' = SubSeq(pending, taken + 1, Len(pending))
      BY <2>2 DEF Read
    <3> DEFINE first == SubSeq(pending, 1, taken)
               rest == SubSeq(pending, taken + 1, Len(pending))
    <3>2. pending \in Seq(Keys) /\ fed \in Seq(Keys) BY DEF TypeOK
    <3>3. Len(pending) \in Nat /\ \A i \in 1..Len(pending) : pending[i] \in Keys
      BY <3>2, LenProperties, ElementOfSeq
    <3>4. first \in Seq(Keys) /\ rest \in Seq(Keys)
      BY <3>3, SubSeqProperties
    <3>5. first \o rest = pending
      <4>1. 1 \in 1..Len(pending) + 1 /\ taken \in 1 - 1 .. Len(pending)
            /\ Len(pending) \in taken..Len(pending)
        BY <3>3
      <4>2. SubSeq(pending, 1, taken) \o SubSeq(pending, taken + 1, Len(pending))
              = SubSeq(pending, 1, Len(pending))
        BY <3>2, <4>1, ConcatAdjacentSubSeq
      <4>3. QED BY <3>2, <4>2, SubSeqFull
    <3>6. Arrived' = Arrived
      <4>1. Arrived' = (fed \o first) \o rest BY <3>1 DEF Arrived
      <4> HIDE DEF first, rest
      <4>2. (fed \o first) \o rest = fed \o (first \o rest)
        BY <3>2, <3>4, ConcatAssociative
      <4>3. QED BY <3>5, <4>1, <4>2 DEF Arrived
    <3>7. QED BY <1>0, <2>1, <3>6
  <2>3. CASE ~Read(b)
    <3>1. UNCHANGED <<fed, pending>>
      <4>1. Stage(b) => UNCHANGED <<fed, pending>> BY DEF Stage
      <4>2. StageThrows(b) => UNCHANGED <<fed, pending>> BY DEF StageThrows
      <4>3. Create(b) => UNCHANGED <<fed, pending>> BY DEF Create
      <4>4. RunSlice(b) => UNCHANGED <<fed, pending>> BY DEF RunSlice
      <4>5. Finish(b) => UNCHANGED <<fed, pending>> BY DEF Finish
      <4>6. FinishStopped(b) => UNCHANGED <<fed, pending>> BY DEF FinishStopped
      <4>7. DriveThrows(b) => UNCHANGED <<fed, pending>> BY DEF DriveThrows
      <4>8. QED
        BY <1>9, <2>3, <4>1, <4>2, <4>3, <4>4, <4>5, <4>6, <4>7 DEF Continue
    <3>2. QED BY <1>0, <2>1, <3>1 DEF Arrived
  <2>4. QED BY <2>2, <2>3
<1>10. QED
  BY <1>1, <1>2, <1>3, <1>4, <1>5, <1>7, <1>8, <1>9 DEF Next, User, ReceiveAny

(* The keys of the latest boot reach its machine in their order, none lost *)
(* and none twice, for any number of boots and keys.                       *)
THEOREM KeysInOrder == Spec => []KeysArriveInOrder
<1>1. Init => KeysInv
  <2> SUFFICES ASSUME Init PROVE KeysInv
    OBVIOUS
  <2>1. \A type : UnderWay(type) = {} BY EmptySeq DEF Init, UnderWay
  <2>2. Arrived = << >> BY EmptySeq, ConcatEmptySeq DEF Init, Arrived
  <2>3. Len(Arrived) = 0 /\ DOMAIN Arrived = {} BY <2>2, EmptySeq
  <2>4. typed = 0 /\ before = 0 BY DEF Init
  <2>5. QED BY <2>1, <2>3, <2>4 DEF KeysInv
<1>2. TypeOK /\ LoopInv /\ KeysInv /\ [Next]_vars => KeysInv' BY KeysStep
<1>3. TypeOK /\ KeysInv => KeysArriveInOrder
  <2> SUFFICES ASSUME TypeOK, KeysInv, UnderWay("boot") = {}
      PROVE  /\ \A i \in DOMAIN Arrived : Arrived[i] = before + i
             /\ \A i, j \in UnderWay("input") :
                  i < j => toWorker[i].key < toWorker[j].key
             /\ {toWorker[i].key : i \in UnderWay("input")}
                  = before + Len(Arrived) + 1 .. typed
    BY DEF KeysArriveInOrder
  <2>1. typed \in Nat /\ before \in Nat BY PlaygroundAssumption DEF TypeOK
  <2>2. Len(Arrived) \in Nat BY ConcatProperties, LenProperties DEF TypeOK, Arrived
  <2>3. ASSUME NEW i \in UnderWay("input")
        PROVE  toWorker[i].key \in before + Len(Arrived) + 1 .. typed
    <3>1. toWorker[i].key \in 1..typed /\ toWorker[i].key > before + Len(Arrived)
      BY DEF KeysInv
    <3>2. QED BY <2>1, <2>2, <3>1
  <2>4. \A k \in before + Len(Arrived) + 1 .. typed :
          \E i \in UnderWay("input") : toWorker[i].key = k
    BY DEF KeysInv
  <2>5. QED BY <2>3, <2>4 DEF KeysInv
<1>4. QED BY <1>1, <1>2, <1>3, TypeCorrect, LoopInvariant, PTL DEF Spec

---------------------------------------------------------------------------
(* The size.                                                               *)

(* The messages that name a size: the last resize names the terminal's, as *)
(* does a boot that no resize follows.                                     *)
SizesUnderWay ==
    /\ \A i \in UnderWay("resize") :
        (\A j \in UnderWay("resize") : j <= i) => toWorker[i].size = size
    /\ \A i \in UnderWay("boot") :
        (\A j \in UnderWay("resize") : j < i) => toWorker[i].size = size

(* What the worker has heard of it.                                        *)
SizeHere ==
    UnderWay("resize") = {} /\ ~dropped =>
        /\ \A b \in Boots : tasks[b].at = "staging" => tasks[b].request.size = size
        /\ \A b \in Boots : machine = b /\ b = boots => machines[b].size = size

(* The machine is that of a boot which has created it.                     *)
MachineOf ==
    /\ \A b \in Boots :
        /\ tasks[b].at \in {"none", "staging"} => machine # b
        /\ tasks[b].at \in {"created", "drive"} => machine = b
        /\ machine = b /\ b = boots => machines[b].state = "live"
    /\ phase = "running" => machine = boots
    /\ \A i \in DOMAIN toPage : toPage[i].type = "running" => machine = boots

(* Taking a message off the channel keeps the last resize the last.        *)
LEMMA SizesMoveUp ==
    ASSUME TypeOK, NEW type, Receive(type), SizesUnderWay
    PROVE  SizesUnderWay'
<1>1. UNCHANGED size BY DEF Receive, pageVars
<1>2. ASSUME NEW i \in UnderWay("resize")',
             \A j \in UnderWay("resize")' : j <= i
      PROVE  toWorker'[i].size = size
  <2>1. i \in Nat /\ i + 1 \in UnderWay("resize") /\ toWorker'[i] = toWorker[i + 1]
    BY Receiving
  <2>2. ASSUME NEW j \in UnderWay("resize") PROVE j <= i + 1
    <3>1. j \in Nat /\ (j # 1 => j - 1 \in UnderWay("resize")') BY Receiving
    <3>2. j # 1 => j - 1 <= i BY <1>2, <3>1
    <3>3. QED BY <2>1, <3>1, <3>2
  <2>3. QED BY <2>1, <2>2 DEF SizesUnderWay
<1>3. ASSUME NEW i \in UnderWay("boot")',
             \A j \in UnderWay("resize")' : j < i
      PROVE  toWorker'[i].size = size
  <2>1. i \in Nat \ {0} /\ i + 1 \in UnderWay("boot") /\ toWorker'[i] = toWorker[i + 1]
    BY Receiving
  <2>2. ASSUME NEW j \in UnderWay("resize") PROVE j < i + 1
    <3>1. j \in Nat /\ (j # 1 => j - 1 \in UnderWay("resize")') BY Receiving
    <3>2. j # 1 => j - 1 < i BY <1>3, <3>1
    <3>3. QED BY <2>1, <3>1, <3>2
  <2>3. QED BY <2>1, <2>2 DEF SizesUnderWay
<1>4. QED BY <1>1, <1>2, <1>3 DEF SizesUnderWay

(* Each step keeps the size of the machine, of the boot, or of the last    *)
(* message that names one that of the terminal.                            *)
LEMMA SizeStep ==
    ASSUME TypeOK, LoopInv, SizeInv, [Next]_vars
    PROVE  SizeInv'
<1> USE DEF pageVars, workerVars, runVars
<1>i. SizesUnderWay /\ SizeHere /\ MachineOf
  BY DEF SizeInv, SizesUnderWay, SizeHere, MachineOf
<1>j. SizesUnderWay' /\ SizeHere' /\ MachineOf' => SizeInv'
  BY DEF SizeInv, SizesUnderWay, SizeHere, MachineOf
<1>p. MaxBoots \in Nat /\ boots \in 0..MaxBoots /\ Boots = 1..MaxBoots
      /\ machine \in 0..MaxBoots
  BY PlaygroundAssumption DEF TypeOK, Boots
<1>t. tasks \in [Boots -> TaskState] /\ machines \in [Boots -> MachineState]
  BY DEF TypeOK
<1>c. DOMAIN toPage = 1..Len(toPage) /\ Len(toPage) \in Nat
  BY LenProperties DEF TypeOK
<1>0. ASSUME UNCHANGED <<size, boots, toWorker, toPage, phase, machine, machines, tasks, dropped>>
      PROVE  SizeInv'
  BY <1>0 DEF SizeInv, UnderWay
<1>1. CASE Boot
  <2>1. PICK needs \in SUBSET Images, interactive \in BOOLEAN :
          Send(BootMessage(boots + 1, needs, interactive))
    BY <1>1 DEF Boot
  <2> DEFINE m == BootMessage(boots + 1, needs, interactive)
  <2>2. boots + 1 \in Boots BY <1>1, <1>p DEF Boot
  <2>3. m \in WorkerMessage /\ m.type = "boot" /\ m.size = size
    BY <2>2, SentMessages DEF BootMessage
  <2>4. /\ boots' = boots + 1 /\ phase' = "starting" /\ ~Busy
        /\ UNCHANGED <<size, toPage, machine, machines, tasks, dropped>>
    BY <1>1 DEF Boot
  <2> HIDE DEF m
  <2>5. Send(m) BY <2>1 DEF m
  <2>6. DOMAIN toPage = {} BY <2>4, EmptySeq DEF LoopInv
  <2>7. machine # boots' BY <1>p, <2>4 DEF LoopInv
  <2>8. /\ Len(toWorker) \in Nat /\ toWorker'[Len(toWorker) + 1] = m
        /\ \A i \in UnderWay("resize") : i \in 1..Len(toWorker)
        /\ \A i \in UnderWay("boot")' :
              i = Len(toWorker) + 1 \/ (i \in UnderWay("boot") /\ toWorker'[i] = toWorker[i])
        /\ \A i \in UnderWay("resize")' : i \in UnderWay("resize") /\ toWorker'[i] = toWorker[i]
        /\ \A i \in UnderWay("resize") : i \in UnderWay("resize")'
    BY <2>3, <2>5, Sending
  <2>9. UnderWay("resize")' = UnderWay("resize") BY <2>8
  <2>10. SizesUnderWay'
    <3>1. ASSUME NEW i \in UnderWay("resize")',
                 \A j \in UnderWay("resize")' : j <= i
          PROVE  toWorker'[i].size = size
      BY <1>i, <2>8, <2>9, <3>1 DEF SizesUnderWay
    <3>2. ASSUME NEW i \in UnderWay("boot")',
                 \A j \in UnderWay("resize")' : j < i
          PROVE  toWorker'[i].size = size
      BY <1>i, <2>3, <2>8, <2>9, <3>2 DEF SizesUnderWay
    <3>3. QED BY <2>4, <3>1, <3>2 DEF SizesUnderWay
  <2>11. SizeHere' BY <1>i, <2>4, <2>7, <2>9 DEF SizeHere
  <2>12. MachineOf' BY <1>i, <2>4, <2>6, <2>7 DEF MachineOf
  <2>13. QED BY <1>j, <2>10, <2>11, <2>12
<1>2. CASE Stop \/ Type
  <2>1. PICK m \in WorkerMessage : Send(m) /\ m.type \in {"stop", "input"}
    <3>1. Type => typed + 1 \in Keys BY PlaygroundAssumption DEF Type, Keys, TypeOK
    <3>2. QED BY <1>2, <3>1, SentMessages DEF Stop, Type
  <2>2. UNCHANGED <<size, boots, toPage, phase, machine, machines, tasks, dropped>>
    BY <1>2 DEF Stop, Type
  <2>3. /\ UnderWay("boot")' = UnderWay("boot")
        /\ UnderWay("resize")' = UnderWay("resize")
        /\ \A i \in UnderWay("boot") \cup UnderWay("resize") : toWorker'[i] = toWorker[i]
    <3>1. ASSUME NEW t \in {"boot", "resize"}
          PROVE  /\ \A i \in UnderWay(t) : i \in UnderWay(t)' /\ toWorker'[i] = toWorker[i]
                 /\ \A i \in UnderWay(t)' : i \in UnderWay(t)
      BY <2>1, <3>1, Sending
    <3>2. \A t \in {"boot", "resize"} : UnderWay(t)' = UnderWay(t)
      BY <3>1
    <3>3. QED BY <3>1, <3>2
  <2>4. SizesUnderWay' BY <1>i, <2>2, <2>3 DEF SizesUnderWay
  <2>5. SizeHere' BY <1>i, <2>2, <2>3 DEF SizeHere
  <2>6. MachineOf' BY <1>i, <2>2 DEF MachineOf
  <2>7. QED BY <1>j, <2>4, <2>5, <2>6
<1>3. CASE Resize
  <2> DEFINE m == [type |-> "resize", size |-> size']
  <2>1. size' \in Sizes BY <1>3 DEF Resize
  <2>2. m \in WorkerMessage /\ m.type = "resize" /\ m.size = size'
    BY <2>1, SentMessages
  <2>3. Send(m) /\ UNCHANGED <<boots, toPage, phase, machine, machines, tasks, dropped>>
    BY <1>3 DEF Resize
  <2> HIDE DEF m
  <2>4. /\ Len(toWorker) \in Nat /\ toWorker'[Len(toWorker) + 1] = m
        /\ Len(toWorker) + 1 \in UnderWay("resize")'
        /\ \A i \in UnderWay("boot")' : i \in UnderWay("boot")
        /\ \A i \in UnderWay("boot") : i \in 1..Len(toWorker)
        /\ \A i \in UnderWay("resize")' :
              i = Len(toWorker) + 1 \/ i \in 1..Len(toWorker)
    BY <2>2, <2>3, Sending
  <2>5. SizesUnderWay'
    <3>1. ASSUME NEW i \in UnderWay("resize")',
                 \A j \in UnderWay("resize")' : j <= i
          PROVE  toWorker'[i].size = size'
      <4>1. Len(toWorker) + 1 <= i BY <2>4, <3>1
      <4>2. i = Len(toWorker) + 1 BY <2>4, <4>1
      <4>3. QED BY <2>2, <2>4, <4>2
    <3>2. ASSUME NEW i \in UnderWay("boot")',
                 \A j \in UnderWay("resize")' : j < i
          PROVE  FALSE
      <4>1. Len(toWorker) + 1 < i BY <2>4, <3>2
      <4>2. QED BY <2>4, <4>1
    <3>3. QED BY <3>1, <3>2 DEF SizesUnderWay
  <2>6. SizeHere' BY <2>4 DEF SizeHere
  <2>7. MachineOf' BY <1>i, <2>3 DEF MachineOf
  <2>8. QED BY <1>j, <2>5, <2>6, <2>7
<1>4. CASE Clear \/ LibraryChanges \/ UNCHANGED vars \/ Load
  BY <1>0, <1>4 DEF Clear, LibraryChanges, vars, Load
<1>5. CASE Break
  <2>1. phase' = "error"
        /\ UNCHANGED <<size, boots, toWorker, toPage, machine, machines, tasks, dropped>>
    BY <1>5 DEF Break
  <2>2. SizesUnderWay' /\ SizeHere'
    BY <1>i, <2>1 DEF SizesUnderWay, SizeHere, UnderWay
  <2>3. MachineOf' BY <1>i, <2>1 DEF MachineOf
  <2>4. QED BY <1>j, <2>2, <2>3
<1>6. CASE Hear
  <2>1. /\ Head(toPage) = toPage[1] /\ 1 \in DOMAIN toPage
        /\ \A i \in DOMAIN toPage' :
              i + 1 \in DOMAIN toPage /\ toPage'[i] = toPage[i + 1]
    BY <1>6, Hearing
  <2>2. UNCHANGED <<size, boots, toWorker, machine, machines, tasks, dropped>>
        /\ (phase' = phase \/ phase' = toPage[1].type)
    BY <1>6, <2>1 DEF Hear
  <2>3. SizesUnderWay' /\ SizeHere'
    BY <1>i, <2>2 DEF SizesUnderWay, SizeHere, UnderWay
  <2>4. MachineOf' BY <1>i, <2>1, <2>2 DEF MachineOf
  <2>5. QED BY <1>j, <2>3, <2>4
<1>7. CASE ReceiveBoot
  <2>1. Receive("boot") BY <1>7 DEF ReceiveBoot
  <2>2. UNCHANGED <<size, boots, phase, toPage, machine, machines>> /\ loaded = "yes"
    BY <1>7 DEF ReceiveBoot, Receive
  <2>3. 1 \in UnderWay("boot") /\ Head(toWorker) = toWorker[1]
    BY <2>1, Receiving
  <2>4. toWorker[1].boot = boots /\ tasks[boots].at = "none" /\ phase = "starting"
    BY <2>2, <2>3 DEF LoopInv
  <2>5. boots \in Boots BY <1>p, <2>4 DEF LoopInv, Busy
  <2>6. tasks' = [tasks EXCEPT ![boots] = Task("staging", toWorker[1])]
    BY <1>7, <2>3, <2>4 DEF ReceiveBoot
  <2>7. /\ tasks'[boots].at = "staging" /\ tasks'[boots].request = toWorker[1]
        /\ \A b \in Boots : b # boots => tasks'[b] = tasks[b]
    BY <1>t, <2>5, <2>6 DEF Task
  <2>8. machine # boots BY <1>i, <2>4, <2>5 DEF MachineOf
  <2>9. SizeHere'
    <3> SUFFICES ASSUME UnderWay("resize")' = {}
        PROVE  \A b \in Boots :
                 /\ tasks'[b].at = "staging" => tasks'[b].request.size = size
                 /\ ~(machine' = b /\ b = boots')
      BY <2>2 DEF SizeHere
    <3>1. UnderWay("resize") = {}
      <4>1. 1 \notin UnderWay("resize")
            /\ \A i \in UnderWay("resize") : i # 1 => i - 1 \in UnderWay("resize")'
        BY <2>1, Receiving
      <4>2. QED BY <4>1
    <3>2. toWorker[1].size = size BY <1>i, <2>3, <3>1 DEF SizesUnderWay
    <3>3. \A b \in Boots : b # boots => tasks[b].at # "staging"
      BY DEF LoopInv, Active
    <3>4. QED BY <2>2, <2>7, <2>8, <3>2, <3>3
  <2>10. MachineOf' BY <1>i, <2>2, <2>7, <2>8 DEF MachineOf
  <2>11. SizesUnderWay' BY <1>i, <2>1, SizesMoveUp
  <2>12. QED BY <1>j, <2>9, <2>10, <2>11
<1>8. CASE ReceiveInput \/ ReceiveStop
  <2>1. PICK type \in {"input", "stop"} : Receive(type)
    BY <1>8 DEF ReceiveInput, ReceiveStop
  <2>2. UNCHANGED <<size, boots, toPage, phase, machine, machines, tasks, dropped>>
    BY <1>8 DEF ReceiveInput, ReceiveStop, Receive
  <2>3. UnderWay("resize")' = {} => UnderWay("resize") = {}
    <3>1. 1 \notin UnderWay("resize")
          /\ \A i \in UnderWay("resize") : i # 1 => i - 1 \in UnderWay("resize")'
      BY <2>1, Receiving
    <3>2. QED BY <3>1
  <2>4. SizesUnderWay' BY <1>i, <2>1, SizesMoveUp
  <2>5. SizeHere' BY <1>i, <2>2, <2>3 DEF SizeHere
  <2>6. MachineOf' BY <1>i, <2>2 DEF MachineOf
  <2>7. QED BY <1>j, <2>4, <2>5, <2>6
<1>9. CASE ReceiveResize
  <2>1. Receive("resize") /\ BetweenTurns BY <1>9 DEF ReceiveResize, Receive
  <2>2. UNCHANGED <<size, boots, toPage, phase, machine, tasks>>
    BY <1>9 DEF ReceiveResize, Receive
  <2>3. 1 \in UnderWay("resize") /\ Head(toWorker) = toWorker[1]
    BY <2>1, Receiving
  <2>4. SizesUnderWay' BY <1>i, <2>1, SizesMoveUp
  <2>5. CASE machines' = machines /\ dropped' = TRUE
    <3>1. SizeHere' BY <2>5 DEF SizeHere
    <3>2. MachineOf' BY <1>i, <2>2, <2>5 DEF MachineOf
    <3>3. QED BY <1>j, <2>4, <3>1, <3>2
  <2>6. CASE /\ machine # 0 /\ machines[machine].state = "live"
             /\ machines' = Sized(machine, Head(toWorker).size)
             /\ dropped' = (tasks[boots].at = "staging")
    <3>1. machine \in Boots BY <1>p, <2>6
    <3>2. /\ machines'[machine].state = "live"
          /\ machines'[machine].size = toWorker[1].size
          /\ \A b \in Boots : b # machine => machines'[b] = machines[b]
      BY <1>t, <2>3, <2>6, <3>1 DEF Sized, LiveMachine
    <3>3. SizeHere'
      <4> SUFFICES ASSUME UnderWay("resize")' = {}, tasks[boots].at # "staging"
          PROVE  /\ \A b \in Boots : tasks[b].at # "staging"
                 /\ toWorker[1].size = size
        BY <2>2, <2>6, <3>2 DEF SizeHere
      <4>1. \A b \in Boots : tasks[b].at # "staging" BY DEF LoopInv, Active
      <4>2. \A j \in UnderWay("resize") : j <= 1
        <5>1. \A j \in UnderWay("resize") :
                j \in Nat /\ (j # 1 => j - 1 \in UnderWay("resize")')
          BY <2>1, Receiving
        <5>2. QED BY <5>1
      <4>3. QED BY <1>i, <2>3, <4>1, <4>2 DEF SizesUnderWay
    <3>4. MachineOf' BY <1>i, <2>2, <3>2 DEF MachineOf
    <3>5. QED BY <1>j, <2>4, <3>3, <3>4
  <2>7. QED BY <1>9, <2>5, <2>6 DEF ReceiveResize
<1>10. ASSUME NEW b \in Boots, Continue(b) PROVE SizeInv'
  <2>1. /\ Continues(b)
        /\ MachinesStay(b) \/ MachineIsCreated(b) \/ MachineIsLost(b)
    BY <1>10, Continuing
  <2>2. /\ Active(b) /\ UNCHANGED <<size, boots, phase, toWorker, dropped>>
        /\ \A q \in Boots \ {b} : tasks'[q] = tasks[q]
        /\ tasks'[b].at \in {"staging", "created", "drive", "end"}
        /\ tasks'[b].at = "staging" => tasks'[b] = tasks[b]
    BY <2>1 DEF Continues
  <2>3. b = boots BY <2>2 DEF LoopInv
  <2>4. UNCHANGED <<UnderWay("boot"), UnderWay("resize")>>
    BY <2>2 DEF UnderWay
  <2>5. SizesUnderWay' BY <1>i, <2>2, <2>4 DEF SizesUnderWay
  <2>6. \A i \in DOMAIN toPage' : toPage'[i].type = "running" =>
          \/ i \in DOMAIN toPage /\ toPage[i].type = "running"
          \/ machine' = b
    <3>1. PICK chunks, ending :
            /\ Says(b, chunks, ending)
            /\ ending = Word(b, "running") => machine' = b
      BY <2>1 DEF Continues
    <3>2. \A i \in DOMAIN toPage : toPage'[i] = toPage[i] BY <3>1, Saying
    <3>3. ASSUME NEW i \in DOMAIN toPage' \ DOMAIN toPage,
                 toPage'[i].type = "running"
          PROVE  ending = Word(b, "running")
      BY <3>1, <3>3, Saying
    <3>4. QED BY <3>1, <3>2, <3>3
  <2>7. CASE MachinesStay(b)
    <3>1. UNCHANGED <<machine, machines>>
          /\ (tasks[b].at = "staging" => tasks'[b].at \in {"staging", "end"})
          /\ (tasks[b].at # "staging" => tasks'[b].at \in {"drive", "end"})
      BY <2>7 DEF MachinesStay
    <3>2. tasks[b].at \in {"staging", "created", "drive"} BY <2>2 DEF Active
    <3>3. \A q \in Boots : tasks'[q].at = "staging" => tasks'[q] = tasks[q]
      BY <2>2
    <3>4. SizeHere' BY <1>i, <2>2, <2>4, <3>1, <3>3 DEF SizeHere
    <3>5. /\ tasks'[b].at \in {"none", "staging"} => machine # b
          /\ tasks'[b].at \in {"created", "drive"} => machine = b
      BY <1>i, <3>1, <3>2 DEF MachineOf
    <3>6. MachineOf' BY <1>i, <2>2, <2>3, <2>6, <3>1, <3>5 DEF MachineOf
    <3>7. QED BY <1>j, <2>5, <3>4, <3>6
  <2>8. CASE MachineIsCreated(b)
    <3>1. /\ tasks[b].at = "staging" /\ tasks'[b].at = "created" /\ machine' = b
          /\ machines'[b] = LiveMachine(tasks[b].request.size)
      BY <2>8 DEF MachineIsCreated, Asked
    <3>2. machines'[b].state = "live" /\ machines'[b].size = tasks[b].request.size
      BY <3>1 DEF LiveMachine
    <3>3. \A q \in Boots \ {b} : tasks[q].at \notin {"staging", "created", "drive"}
      BY <2>3 DEF LoopInv, Active
    <3>4. SizeHere'
      <4>1. \A q \in Boots : tasks'[q].at # "staging" BY <2>2, <3>1, <3>3
      <4>2. UnderWay("resize") = {} /\ ~dropped => machines'[b].size = size
        BY <1>i, <3>1, <3>2 DEF SizeHere
      <4>3. QED BY <2>2, <2>4, <3>1, <4>1, <4>2 DEF SizeHere
    <3>5. MachineOf'
      BY <1>i, <2>2, <2>3, <2>6, <3>1, <3>2, <3>3 DEF MachineOf
    <3>6. QED BY <1>j, <2>5, <3>4, <3>5
  <2>9. CASE MachineIsLost(b)
    <3>1. /\ tasks[b].at = "staging" /\ tasks'[b].at = "end" /\ machine' = machine
          /\ machines' = Destroyed
      BY <2>9 DEF MachineIsLost
    <3>2. machine # b BY <1>i, <3>1 DEF MachineOf
    <3>3. machines'[b] = machines[b] BY <3>1, <3>2 DEF Destroyed
    <3>4. \A q \in Boots : tasks'[q].at = "staging" => tasks'[q] = tasks[q]
      BY <2>2
    <3>5. SizeHere' BY <1>i, <2>2, <2>3, <2>4, <3>1, <3>2, <3>4 DEF SizeHere
    <3>6. MachineOf' BY <1>i, <2>2, <2>3, <2>6, <3>1, <3>2 DEF MachineOf
    <3>7. QED BY <1>j, <2>5, <3>5, <3>6
  <2>10. QED BY <2>1, <2>7, <2>8, <2>9
<1>11. QED
  BY <1>1, <1>2, <1>3, <1>4, <1>5, <1>6, <1>7, <1>8, <1>9, <1>10
     DEF Next, User, ReceiveAny

(* A machine that runs has a console of the terminal's size once every     *)
(* resize has been handled, unless no machine heard of one, for any number *)
(* of boots and any set of sizes.                                          *)
THEOREM ConsoleHasSize == Spec => []ConsoleFits
<1>1. Init => SizeInv
  <2> SUFFICES ASSUME Init PROVE SizeInv
    OBVIOUS
  <2>1. \A type : UnderWay(type) = {} BY EmptySeq DEF Init, UnderWay
  <2>2. DOMAIN toPage = {} BY EmptySeq DEF Init
  <2>3. /\ boots = 0 /\ machine = 0 /\ phase = "idle"
        /\ \A b \in Boots : b # 0 /\ tasks[b].at = "none"
    BY PlaygroundAssumption DEF Init, Boots, Over
  <2>4. QED BY <2>1, <2>2, <2>3 DEF SizeInv
<1>2. TypeOK /\ LoopInv /\ SizeInv /\ [Next]_vars => SizeInv' BY SizeStep
<1>3. TypeOK /\ LoopInv /\ SizeInv => ConsoleFits
  <2> SUFFICES ASSUME TypeOK, LoopInv, SizeInv, phase = "running", ~dropped,
                      UnderWay("resize") = {}
      PROVE  machines[boots].size = size
    BY DEF ConsoleFits
  <2>1. boots \in Boots /\ machine = boots
    BY PlaygroundAssumption DEF LoopInv, SizeInv, Busy, TypeOK, Boots
  <2>2. QED BY <2>1 DEF SizeInv
<1>4. QED BY <1>1, <1>2, <1>3, TypeCorrect, LoopInvariant, PTL DEF Spec

=============================================================================
