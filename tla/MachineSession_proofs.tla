------------------------ MODULE MachineSession_proofs -----------------------
(***************************************************************************)
(* Theorems about MachineSession, for any number of callers, any output    *)
(* and any requests, over each of the bindings.                            *)
(***************************************************************************)
EXTENDS MachineSession, SequenceTheorems, TLAPS

-----------------------------------------------------------------------------
(* A sequence cut in two.                                                  *)
LEMMA Cut ==
    ASSUME NEW S, NEW s \in Seq(S), NEW k \in 0 .. Len(s)
    PROVE  /\ SubSeq(s, 1, k) \in Seq(S) /\ Len(SubSeq(s, 1, k)) = k
           /\ \A i \in 1 .. k : SubSeq(s, 1, k)[i] = s[i]
           /\ SubSeq(s, k + 1, Len(s)) \in Seq(S)
           /\ Len(SubSeq(s, k + 1, Len(s))) = Len(s) - k
           /\ \A i \in 1 .. Len(s) - k : SubSeq(s, k + 1, Len(s))[i] = s[k + i]
<1>1. k \in Int /\ 1 \in Int /\ k + 1 \in Int /\ Len(s) \in Int /\ Len(s) \in Nat OBVIOUS
<1>2. (\A i \in 1 .. k : s[i] \in S) /\ (\A i \in k + 1 .. Len(s) : s[i] \in S) OBVIOUS
<1>3. /\ SubSeq(s, 1, k) \in Seq(S)
      /\ Len(SubSeq(s, 1, k)) = IF 1 <= k THEN k - 1 + 1 ELSE 0
      /\ \A i \in 1 .. k - 1 + 1 : SubSeq(s, 1, k)[i] = s[1 + i - 1]
  BY <1>1, <1>2, SubSeqProperties
<1>4. /\ SubSeq(s, k + 1, Len(s)) \in Seq(S)
      /\ Len(SubSeq(s, k + 1, Len(s))) = IF k + 1 <= Len(s) THEN Len(s) - (k + 1) + 1 ELSE 0
      /\ \A i \in 1 .. Len(s) - (k + 1) + 1 : SubSeq(s, k + 1, Len(s))[i] = s[k + 1 + i - 1]
  BY <1>1, <1>2, SubSeqProperties
<1>5. \A i \in 1 .. k : SubSeq(s, 1, k)[i] = s[i]
  <2>1. \A i \in 1 .. k : i \in 1 .. k - 1 + 1 /\ 1 + i - 1 = i BY <1>1
  <2>2. QED BY <1>3, <2>1
<1>6. \A i \in 1 .. Len(s) - k : SubSeq(s, k + 1, Len(s))[i] = s[k + i]
  <2>1. \A i \in 1 .. Len(s) - k : i \in 1 .. Len(s) - (k + 1) + 1 /\ k + 1 + i - 1 = k + i
    BY <1>1
  <2>2. QED BY <1>4, <2>1
<1>7. /\ (IF 1 <= k THEN k - 1 + 1 ELSE 0) = k
      /\ (IF k + 1 <= Len(s) THEN Len(s) - (k + 1) + 1 ELSE 0) = Len(s) - k
  BY <1>1
<1>8. QED BY <1>3, <1>4, <1>5, <1>6, <1>7

(* What consuming up to n bytes returns, and what it leaves.               *)
LEMMA TakeAndRest ==
    ASSUME TypeOK, NEW n \in Nat
    PROVE  /\ Least(n, Len(console)) \in 0 .. Len(console)
           /\ Take(n) \in Seq(1 .. MaxOutput) /\ Len(Take(n)) = Least(n, Len(console))
           /\ \A i \in 1 .. Least(n, Len(console)) : Take(n)[i] = console[i]
           /\ Rest(n) \in Seq(1 .. MaxOutput)
           /\ Len(Rest(n)) = Len(console) - Least(n, Len(console))
           /\ \A i \in 1 .. Len(console) - Least(n, Len(console)) :
                  Rest(n)[i] = console[Least(n, Len(console)) + i]
<1>1. console \in Seq(1 .. MaxOutput) BY DEF TypeOK
<1>2. Least(n, Len(console)) \in 0 .. Len(console) BY <1>1 DEF Least
<1>3. QED BY <1>1, <1>2, Cut DEF Take, Rest

(* What a caller may be doing, and that the machine moves leaves all of it *)
(* but the mark.                                                           *)
LEMMA CallerValues ==
    ASSUME TypeOK
    PROVE  /\ Idle \in CallerStates
           /\ \A n \in Nat : Reading(n) \in CallerStates
           /\ Receiving(request) \in CallerStates
           /\ \A s \in CallerStates :
                  /\ [s EXCEPT !.moved = TRUE] \in CallerStates
                  /\ [s EXCEPT !.moved = TRUE].moved
                  /\ [s EXCEPT !.moved = TRUE].doing = s.doing
           /\ Idle.doing = "nothing"
           /\ \A n \in Nat : Reading(n).doing = "read"
           /\ Receiving(request).want = request.length
<1>1. Idle \in CallerStates
  BY SessionAssumption DEF Idle, NoRequest, CallerStates, Requests
<1>2. \A n \in Nat : Reading(n) \in CallerStates /\ Reading(n).doing = "read"
  BY <1>1 DEF Reading, CallerStates
<1>3. Receiving(request) \in CallerStates /\ Receiving(request).want = request.length
  <2>1. request \in Requests BY DEF TypeOK
  <2>2. request.length \in Nat
    <3>1. request.length \in Lengths \cup {0} BY <2>1 DEF Requests
    <3>2. Lengths \subseteq Nat BY SessionAssumption
    <3>3. CASE request.length = 0 BY <3>3
    <3>4. CASE request.length \in Lengths BY <3>2, <3>4
    <3>5. QED BY <3>1, <3>3, <3>4
  <2>3. QED BY <1>1, <2>1, <2>2 DEF Receiving, CallerStates
<1>4. \A s \in CallerStates :
          /\ [s EXCEPT !.moved = TRUE] \in CallerStates
          /\ [s EXCEPT !.moved = TRUE].moved
          /\ [s EXCEPT !.moved = TRUE].doing = s.doing
  BY DEF CallerStates
<1>5. Idle.doing = "nothing" BY DEF Idle
<1>6. QED BY <1>1, <1>2, <1>3, <1>4, <1>5

(* Every step keeps the types.                                             *)
LEMMA TypeStep ==
    ASSUME TypeOK, [Next]_vars
    PROVE  TypeOK'
<1> USE SessionAssumption, CallerValues DEF TypeOK
<1>1. ASSUME NEW c \in Callers, RunPrints(c)
      PROVE  TypeOK'
  <2>1. printed + 1 \in 1 .. MaxOutput /\ printed + 1 \in 0 .. MaxOutput BY <1>1 DEF RunPrints
  <2>2. console' \in Seq(1 .. MaxOutput) BY <1>1, <2>1 DEF RunPrints
  <2>3. caller' \in [Callers -> CallerStates] BY <1>1 DEF RunPrints, Moved
  <2>4. QED BY <1>1, <2>1, <2>2, <2>3 DEF RunPrints
<1>2. ASSUME NEW c \in Callers, RunYields(c)
      PROVE  TypeOK'
  <2>1. request' \in Requests
    <3>1. PICK n \in Lengths : request' = [id |-> request.id + 1, length |-> n]
      BY <1>2 DEF RunYields
    <3>2. request.id + 1 \in 0 .. MaxRequests BY <1>2 DEF RunYields, Requests
    <3>3. QED BY <3>1, <3>2 DEF Requests
  <2>2. caller' \in [Callers -> CallerStates] BY <1>2 DEF RunYields, Moved
  <2>3. QED BY <1>2, <2>1, <2>2 DEF RunYields
<1>3. ASSUME NEW c \in Callers, Ask(c) \/ (\E n \in 1 .. MaxOutput : AskFor(c, n))
      PROVE  TypeOK'
  <2>1. Len(console) \in Nat /\ 1 .. MaxOutput \subseteq Nat OBVIOUS
  <2>2. PICK n \in Nat : caller' = [caller EXCEPT ![c] = Reading(n)]
    BY <1>3, <2>1 DEF Ask, AskFor
  <2>3. Reading(n) \in CallerStates OBVIOUS
  <2>4. caller' \in [Callers -> CallerStates] BY <2>2, <2>3
  <2>5. QED BY <1>3, <2>4 DEF Ask, AskFor
<1>4. ASSUME NEW c \in Callers, Consume(c) \/ ConsumeLost(c)
      PROVE  TypeOK'
  <2> DEFINE n == caller[c].want
  <2>1. n \in Nat BY DEF CallerStates
  <2>2. Take(n) \in Seq(1 .. MaxOutput) /\ Rest(n) \in Seq(1 .. MaxOutput)
    BY <2>1, TakeAndRest
  <2>3. {Take(n)[i] : i \in DOMAIN Take(n)} \subseteq 1 .. MaxOutput BY <2>2
  <2>4. got[c] \o Take(n) \in Seq(1 .. MaxOutput) BY <2>2, ConcatProperties
  <2>5. caller' \in [Callers -> CallerStates] BY <1>4 DEF Consume, ConsumeLost
  <2>6. got' \in [Callers -> Seq(1 .. MaxOutput)] BY <1>4, <2>4 DEF Consume, ConsumeLost
  <2>7. lost' \subseteq 1 .. MaxOutput BY <1>4, <2>3 DEF Consume, ConsumeLost
  <2>8. console' \in Seq(1 .. MaxOutput) BY <1>4, <2>2 DEF Consume, ConsumeLost
  <2>9. QED BY <1>4, <2>5, <2>6, <2>7, <2>8 DEF Consume, ConsumeLost
<1>5. ASSUME NEW c \in Callers, GiveUp(c) \/ Receive(c) \/ Fetch(c) \/ Probe(c)
      PROVE  TypeOK'
  <2>1. caller' \in [Callers -> CallerStates] BY <1>5 DEF GiveUp, Receive, Fetch, Probe
  <2>2. QED BY <1>5, <2>1 DEF GiveUp, Receive, Fetch, Probe
<1>6. CASE UNCHANGED vars BY <1>6 DEF vars
<1>7. QED BY <1>1, <1>2, <1>3, <1>4, <1>5, <1>6 DEF Next

(* The variables keep their types.                                         *)
THEOREM TypeCorrect == Spec => []TypeOK
<1>1. Init => TypeOK
  BY SessionAssumption DEF Init, TypeOK, CallerStates, Idle, NoRequest, Requests
<1>2. QED BY <1>1, TypeStep, PTL DEF Spec

-----------------------------------------------------------------------------
(* A caller that knows a length knows that of the machine's request, until *)
(* somebody runs the machine.                                              *)
LengthIsKnown ==
    \A c \in Callers :
        caller[c].doing = "receive" /\ ~caller[c].moved => caller[c].want = request.length

(* Every step keeps both.                                                  *)
LEMMA AnswersStep ==
    ASSUME TypeOK, LengthIsKnown, AnswersAreOfOneRequest, [Next]_vars
    PROVE  LengthIsKnown' /\ AnswersAreOfOneRequest'
<1> USE CallerValues DEF LengthIsKnown
<1>t. caller \in [Callers -> CallerStates] BY DEF TypeOK
<1>a. ASSUME UNCHANGED answers PROVE AnswersAreOfOneRequest'
  BY <1>a DEF AnswersAreOfOneRequest
<1>1. ASSUME NEW c \in Callers, RunPrints(c) \/ RunYields(c)
      PROVE  LengthIsKnown' /\ UNCHANGED answers
  <2>1. \A d \in Callers : caller'[d].doing = "receive" => caller'[d].moved
    BY <1>t, <1>1 DEF RunPrints, RunYields, Moved
  <2>2. QED BY <1>1, <2>1 DEF RunPrints, RunYields
<1>2. ASSUME NEW c \in Callers, Ask(c) \/ (\E n \in 1 .. MaxOutput : AskFor(c, n))
      PROVE  LengthIsKnown' /\ UNCHANGED answers
  <2>1. Len(console) \in Nat /\ 1 .. MaxOutput \subseteq Nat
    BY SessionAssumption DEF TypeOK
  <2>2. caller'[c].doing = "read" /\ \A d \in Callers \ {c} : caller'[d] = caller[d]
    BY <1>t, <1>2, <2>1 DEF Ask, AskFor
  <2>3. QED BY <1>2, <2>2 DEF Ask, AskFor
<1>3. ASSUME NEW c \in Callers, Consume(c) \/ ConsumeLost(c) \/ GiveUp(c)
      PROVE  LengthIsKnown' /\ UNCHANGED answers
  BY <1>t, <1>3 DEF Consume, ConsumeLost, GiveUp
<1>4. ASSUME NEW c \in Callers, Probe(c)
      PROVE  LengthIsKnown' /\ UNCHANGED answers
  BY <1>t, <1>4 DEF Probe
<1>r. ASSUME NEW length, NEW moved \in BOOLEAN, length = request.length \/ moved,
             AnswersAreOfOneRequest, Received(request.id, request.id, length, moved)
      PROVE  AnswersAreOfOneRequest'
  <2> DEFINE new == [named |-> request.id, data |-> request.id, length |-> length,
                     whole |-> length = request.length, moved |-> moved]
  <2>1. new.named = new.data /\ (new.whole \/ new.moved) BY <1>r
  <2>2. answers' = answers \cup {new} BY <1>r DEF Received
  <2> HIDE DEF new
  <2>3. QED BY <1>r, <2>1, <2>2 DEF AnswersAreOfOneRequest
<1>5. ASSUME NEW c \in Callers, Receive(c)
      PROVE  LengthIsKnown' /\ AnswersAreOfOneRequest'
  <2>1. AnswersAreOfOneRequest' BY <1>5, <1>r DEF Receive
  <2>2. QED BY <1>5, <2>1 DEF Receive
<1>6. ASSUME NEW c \in Callers, Fetch(c)
      PROVE  LengthIsKnown' /\ AnswersAreOfOneRequest'
  <2>1. caller[c].moved \in BOOLEAN BY <1>t DEF CallerStates
  <2>2. ~caller[c].moved => Least(caller[c].want, request.length) = request.length
    BY <1>6 DEF Fetch, Least
  <2>3. AnswersAreOfOneRequest' BY <1>6, <1>r, <2>1, <2>2 DEF Fetch, Fetched
  <2>4. LengthIsKnown' BY <1>t, <1>6 DEF Fetch
  <2>5. QED BY <2>3, <2>4
<1>7. CASE UNCHANGED vars BY <1>7, <1>a DEF vars
<1>8. QED BY <1>a, <1>1, <1>2, <1>3, <1>4, <1>5, <1>6, <1>7 DEF Next

(* What receiveCmioRequest returns is of one request, and all of it unless *)
(* the machine was run between its two calls.                              *)
THEOREM OneRequestAnswers == Spec => []AnswersAreOfOneRequest
<1>1. Init => LengthIsKnown /\ AnswersAreOfOneRequest
  BY DEF Init, LengthIsKnown, AnswersAreOfOneRequest, Idle
<1>2. TypeOK /\ LengthIsKnown /\ AnswersAreOfOneRequest /\ [Next]_vars
          => (LengthIsKnown /\ AnswersAreOfOneRequest)'
  BY AnswersStep
<1>3. QED BY TypeCorrect, <1>1, <1>2, PTL DEF Spec

-----------------------------------------------------------------------------
(* Bytes leave the buffer in the order in which they were printed: those   *)
(* up to Delivered have left it, the others are in it.                     *)
Delivered == printed - Len(console)

BufferIsTheRest ==
    /\ Delivered \in Nat
    /\ \A i \in 1 .. Len(console) : console[i] = Delivered + i

(* Each byte that has left the buffer went to one caller or was lost.      *)
Apportioned ==
    /\ 1 .. Delivered = lost \cup UNION {Given(c) : c \in Callers}
    /\ \A c \in Callers : Given(c) \cap lost = {}
    /\ \A c \in Callers : \A d \in Callers \ {c} : Given(c) \cap Given(d) = {}

InOrder(s) == \A i, j \in DOMAIN s : i < j => s[i] < s[j]

OutputInv ==
    /\ BufferIsTheRest
    /\ Apportioned
    /\ \A c \in Callers : InOrder(got[c])
    /\ lost # {} => binding = "rpc"

(* Numbers of bytes are natural numbers.                                   *)
LEMMA SeqOfNat ==
    ASSUME NEW s \in Seq(1 .. MaxOutput)
    PROVE  s \in Seq(Nat) /\ Len(s) \in Nat /\ DOMAIN s = 1 .. Len(s)
<1>1. 1 .. MaxOutput \subseteq Nat BY SessionAssumption
<1>2. s \in Seq(Nat) BY <1>1, SeqMonotonic
<1>3. QED BY <1>2

(* The values of a sequence that counts on from D.                         *)
LEMMA CountingOn ==
    ASSUME NEW D \in Nat, NEW s \in Seq(Nat), \A i \in 1 .. Len(s) : s[i] = D + i
    PROVE  {s[i] : i \in DOMAIN s} = D + 1 .. D + Len(s)
<1>1. DOMAIN s = 1 .. Len(s) /\ Len(s) \in Nat OBVIOUS
<1>2. \A i \in DOMAIN s : s[i] \in D + 1 .. D + Len(s) BY <1>1
<1>3. ASSUME NEW m \in D + 1 .. D + Len(s) PROVE \E i \in DOMAIN s : s[i] = m
  <2>1. m - D \in 1 .. Len(s) /\ D + (m - D) = m BY <1>1
  <2>2. QED BY <1>1, <2>1
<1>4. QED BY <1>2, <1>3

(* An interval cut in two.                                                 *)
LEMMA Interval ==
    ASSUME NEW D \in Nat, NEW k \in Nat
    PROVE  /\ 1 .. D + k = (1 .. D) \cup (D + 1 .. D + k)
           /\ (1 .. D) \cap (D + 1 .. D + k) = {}
  OBVIOUS

(* What is buffered is what has not left.                                  *)
LEMMA BufferedIs ==
    ASSUME TypeOK, BufferIsTheRest
    PROVE  /\ Buffered = Delivered + 1 .. Delivered + Len(console)
           /\ Len(console) \in Nat /\ Delivered + Len(console) = printed
<1>1. /\ console \in Seq(1 .. MaxOutput) /\ 1 .. MaxOutput \subseteq Nat
      /\ printed \in Nat
  BY SessionAssumption DEF TypeOK
<1>2. console \in Seq(Nat) /\ Len(console) \in Nat BY <1>1, SeqOfNat
<1>3. Delivered + Len(console) = printed BY <1>1, <1>2 DEF Delivered
<1>4. {console[i] : i \in DOMAIN console} = Delivered + 1 .. Delivered + Len(console)
  <2> HIDE DEF Delivered
  <2>1. Delivered \in Nat /\ \A i \in 1 .. Len(console) : console[i] = Delivered + i
    BY DEF BufferIsTheRest
  <2>2. QED BY <1>2, <2>1, CountingOn
<1>5. QED BY <1>2, <1>3, <1>4 DEF Buffered

(* OutputInv says more than OutputIsDelivered.                             *)
LEMMA OutputImplied ==
    ASSUME TypeOK, OutputInv
    PROVE  OutputIsDelivered
<1>1. /\ Buffered = Delivered + 1 .. Delivered + Len(console)
      /\ Len(console) \in Nat /\ Delivered + Len(console) = printed
      /\ Delivered \in Nat
  BY BufferedIs DEF OutputInv, BufferIsTheRest
<1>2. /\ 1 .. Delivered + Len(console) = (1 .. Delivered) \cup Buffered
      /\ (1 .. Delivered) \cap Buffered = {}
  BY <1>1, Interval
<1>3. 1 .. printed = (1 .. Delivered) \cup Buffered BY <1>1, <1>2
<1>4. 1 .. Delivered = lost \cup UNION {Given(c) : c \in Callers} BY DEF OutputInv, Apportioned
<1>5. 1 .. printed = Buffered \cup lost \cup UNION {Given(c) : c \in Callers}
  BY <1>3, <1>4
<1>6. ASSUME NEW c \in Callers PROVE Given(c) \cap (Buffered \cup lost) = {}
  <2>1. Given(c) \subseteq 1 .. Delivered BY <1>4
  <2>2. Given(c) \cap lost = {} BY DEF OutputInv, Apportioned
  <2>3. QED BY <1>2, <2>1, <2>2
<1>7. \A c \in Callers : InOrder(got[c]) /\ \A d \in Callers \ {c} : Given(c) \cap Given(d) = {}
  BY DEF OutputInv, Apportioned
<1>8. lost # {} => binding = "rpc" BY DEF OutputInv
<1>9. QED BY <1>5, <1>6, <1>7, <1>8 DEF OutputIsDelivered, InOrder

(* Printing appends to the buffer and lets nothing out of it.              *)
LEMMA PrintingKeeps ==
    ASSUME TypeOK, OutputInv, NEW c \in Callers, RunPrints(c)
    PROVE  OutputInv'
<1>1. /\ console \in Seq(1 .. MaxOutput) /\ printed \in Nat
      /\ console' = Append(console, printed + 1) /\ printed' = printed + 1
      /\ UNCHANGED <<got, lost, binding>>
  BY SessionAssumption, RunPrints(c) DEF TypeOK, RunPrints
<1>2. Len(console) \in Nat /\ Len(console') = Len(console) + 1 BY <1>1
<1>3. /\ \A i \in 1 .. Len(console) : console'[i] = console[i]
      /\ console'[Len(console) + 1] = printed + 1
  BY <1>1, <1>2
<1>4. Delivered' = Delivered BY <1>1, <1>2 DEF Delivered
<1>5. BufferIsTheRest'
  <2>1. Delivered \in Nat /\ Delivered + (Len(console) + 1) = printed + 1
    BY <1>1, <1>2 DEF Delivered, OutputInv, BufferIsTheRest
  <2>2. \A i \in 1 .. Len(console) : console[i] = Delivered + i
    BY DEF OutputInv, BufferIsTheRest
  <2> HIDE DEF Delivered
  <2>3. \A i \in 1 .. Len(console) + 1 : console'[i] = Delivered + i
    <3>1. \A i \in 1 .. Len(console) + 1 : i \in 1 .. Len(console) \/ i = Len(console) + 1
      BY <1>2
    <3>2. QED BY <1>3, <2>1, <2>2, <3>1
  <2>4. QED BY <1>2, <1>4, <2>1, <2>3 DEF BufferIsTheRest
<1>6. \A d \in Callers : Given(d)' = Given(d) /\ got'[d] = got[d] BY <1>1 DEF Given
<1>7. Apportioned' BY <1>1, <1>4, <1>6 DEF OutputInv, Apportioned
<1>8. QED BY <1>1, <1>5, <1>6, <1>7 DEF OutputInv

(* Consuming lets out the bytes that follow those that were let out.       *)
LEMMA ConsumingAdvances ==
    ASSUME TypeOK, OutputInv, NEW n \in Nat, console' = Rest(n), printed' = printed
    PROVE  /\ Delivered \in Nat /\ Delivered' = Delivered + Len(Take(n))
           /\ BufferIsTheRest'
           /\ Take(n) \in Seq(Nat) /\ Len(Take(n)) \in Nat
           /\ \A i \in 1 .. Len(Take(n)) : Take(n)[i] = Delivered + i
<1> DEFINE k == Least(n, Len(console))
<1>1. /\ k \in 0 .. Len(console) /\ Len(Take(n)) = k
      /\ \A i \in 1 .. k : Take(n)[i] = console[i]
      /\ Len(Rest(n)) = Len(console) - k
      /\ \A i \in 1 .. Len(console) - k : Rest(n)[i] = console[k + i]
      /\ Take(n) \in Seq(1 .. MaxOutput)
  BY TakeAndRest
<1> HIDE DEF k
<1>2. Len(console) \in Nat /\ printed \in Nat /\ Delivered \in Nat
  BY DEF TypeOK, OutputInv, BufferIsTheRest
<1>3. Delivered' = Delivered + k BY <1>1, <1>2 DEF Delivered
<1>4. \A i \in 1 .. Len(console) : console[i] = Delivered + i
  BY DEF OutputInv, BufferIsTheRest
<1>5. \A i \in 1 .. Len(console') : console'[i] = Delivered' + i
  <2>1. \A i \in 1 .. Len(console) - k : k + i \in 1 .. Len(console) BY <1>1, <1>2
  <2>2. \A i \in 1 .. Len(console) - k : Rest(n)[i] = Delivered + (k + i)
    BY <1>1, <1>4, <2>1
  <2>3. \A i \in 1 .. Len(console) - k : Delivered + (k + i) = (Delivered + k) + i
    BY <1>1, <1>2
  <2>4. QED BY <1>1, <1>3, <2>2, <2>3
<1>6. \A i \in 1 .. k : Take(n)[i] = Delivered + i
  <2>1. \A i \in 1 .. k : i \in 1 .. Len(console) BY <1>1, <1>2
  <2>2. QED BY <1>1, <1>4, <2>1
<1>7. BufferIsTheRest'
  <2>1. Delivered' \in Nat BY <1>1, <1>2, <1>3
  <2>2. QED BY <1>5, <2>1 DEF BufferIsTheRest
<1>8. 1 .. MaxOutput \subseteq Nat OBVIOUS
<1>9. QED BY <1>1, <1>2, <1>3, <1>6, <1>7, <1>8

(* What is given on top of what a caller has.                              *)
LEMMA GivenMore ==
    ASSUME NEW D \in Nat, NEW s \in Seq(Nat), NEW t \in Seq(Nat),
           {s[i] : i \in DOMAIN s} \subseteq 1 .. D, InOrder(s),
           \A i \in 1 .. Len(t) : t[i] = D + i
    PROVE  /\ {(s \o t)[i] : i \in DOMAIN (s \o t)}
                  = {s[i] : i \in DOMAIN s} \cup (D + 1 .. D + Len(t))
           /\ InOrder(s \o t)
<1> DEFINE u == s \o t
<1>1. /\ DOMAIN s = 1 .. Len(s) /\ DOMAIN t = 1 .. Len(t)
      /\ Len(s) \in Nat /\ Len(t) \in Nat
  OBVIOUS
<1>2. /\ u \in Seq(Nat) /\ Len(u) = Len(s) + Len(t)
      /\ \A i \in 1 .. Len(s) + Len(t) :
             u[i] = IF i <= Len(s) THEN s[i] ELSE t[i - Len(s)]
  BY ConcatProperties
<1>3. DOMAIN u = 1 .. Len(s) + Len(t) BY <1>2
<1> HIDE DEF u
<1>4. \A i \in 1 .. Len(s) : i \in DOMAIN u /\ u[i] = s[i] /\ s[i] \in 1 .. D
  <2> TAKE i \in 1 .. Len(s)
  <2>1. i \in 1 .. Len(s) + Len(t) /\ i <= Len(s) BY <1>1
  <2>2. u[i] = s[i] BY <1>2, <2>1
  <2>3. i \in DOMAIN s BY <1>1
  <2>4. s[i] \in {s[j] : j \in DOMAIN s} BY <2>3
  <2>5. QED BY <1>3, <2>1, <2>2, <2>4
<1>5. \A i \in 1 .. Len(t) : Len(s) + i \in DOMAIN u /\ u[Len(s) + i] = D + i
  <2> TAKE i \in 1 .. Len(t)
  <2>1. /\ Len(s) + i \in 1 .. Len(s) + Len(t) /\ ~(Len(s) + i <= Len(s))
        /\ (Len(s) + i) - Len(s) = i
    BY <1>1
  <2>2. QED BY <1>2, <1>3, <2>1
<1>6. \A i \in DOMAIN u : i \in 1 .. Len(s) \/ \E j \in 1 .. Len(t) : i = Len(s) + j
  <2> TAKE i \in DOMAIN u
  <2>1. i \notin 1 .. Len(s) => i - Len(s) \in 1 .. Len(t) /\ i = Len(s) + (i - Len(s))
    BY <1>1, <1>3
  <2>2. QED BY <2>1
<1>7. {t[i] : i \in DOMAIN t} = D + 1 .. D + Len(t) BY CountingOn
<1>8. \A i \in DOMAIN t : t[i] = D + i BY <1>1
<1>9. {u[i] : i \in DOMAIN u} = {s[i] : i \in DOMAIN s} \cup {t[i] : i \in DOMAIN t}
  <2>1. \A i \in DOMAIN u : u[i] \in {s[j] : j \in DOMAIN s} \cup {t[j] : j \in DOMAIN t}
    BY <1>1, <1>4, <1>5, <1>6, <1>8
  <2>2. \A j \in DOMAIN s : s[j] \in {u[i] : i \in DOMAIN u} BY <1>1, <1>4
  <2>3. \A j \in DOMAIN t : t[j] \in {u[i] : i \in DOMAIN u} BY <1>1, <1>5, <1>8
  <2>4. QED BY <2>1, <2>2, <2>3
<1>10. ASSUME NEW i \in DOMAIN u, NEW j \in DOMAIN u, i < j PROVE u[i] < u[j]
  <2>1. CASE i \in 1 .. Len(s) /\ j \in 1 .. Len(s)
    BY <1>1, <1>4, <1>10, <2>1 DEF InOrder
  <2>2. ASSUME i \in 1 .. Len(s), NEW l \in 1 .. Len(t), j = Len(s) + l PROVE u[i] < u[j]
    <3>1. u[i] \in 1 .. D /\ u[j] = D + l BY <1>4, <1>5, <2>2
    <3>2. QED BY <3>1
  <2>3. ASSUME j \in 1 .. Len(s), NEW k \in 1 .. Len(t), i = Len(s) + k PROVE FALSE
    BY <1>1, <1>10, <2>3
  <2>4. ASSUME NEW k \in 1 .. Len(t), NEW l \in 1 .. Len(t),
               i = Len(s) + k, j = Len(s) + l
        PROVE  u[i] < u[j]
    <3>1. k < l BY <1>1, <1>10, <2>4
    <3>2. u[i] = D + k /\ u[j] = D + l BY <1>5, <2>4
    <3>3. QED BY <3>1, <3>2
  <2>5. QED BY <1>6, <2>1, <2>2, <2>3, <2>4
<1>11. InOrder(u) BY <1>10 DEF InOrder
<1>12. QED BY <1>7, <1>9, <1>11 DEF u

(* A caller is given the next bytes, which nobody has.                     *)
LEMMA ConsumeKeeps ==
    ASSUME TypeOK, OutputInv, NEW c \in Callers, Consume(c)
    PROVE  OutputInv'
<1> DEFINE n == caller[c].want
           t == Take(n)
           next == Delivered + 1 .. Delivered + Len(t)
<1>1. n \in Nat BY DEF TypeOK, CallerStates
<1>2. /\ Delivered \in Nat /\ Delivered' = Delivered + Len(t)
      /\ BufferIsTheRest'
      /\ t \in Seq(Nat) /\ Len(t) \in Nat
      /\ \A i \in 1 .. Len(t) : t[i] = Delivered + i
  BY <1>1, ConsumingAdvances DEF Consume
<1> HIDE DEF n
<1>3. /\ got \in [Callers -> Seq(1 .. MaxOutput)] /\ 1 .. MaxOutput \subseteq Nat
      /\ got' = [got EXCEPT ![c] = got[c] \o t] /\ lost' = lost /\ binding' = binding
  BY SessionAssumption DEF TypeOK, Consume, n
<1> HIDE DEF t
<1>4. /\ got[c] \in Seq(Nat)
      /\ got'[c] = got[c] \o t /\ \A d \in Callers \ {c} : got'[d] = got[d]
  <2>1. got[c] \in Seq(1 .. MaxOutput) BY <1>3
  <2>2. got[c] \in Seq(Nat) BY <2>1, SeqOfNat
  <2>3. QED BY <1>3, <2>2
<1>5. /\ 1 .. Delivered = lost \cup UNION {Given(d) : d \in Callers}
      /\ \A d \in Callers : Given(d) \cap lost = {} /\ InOrder(got[d])
      /\ \A d \in Callers : \A e \in Callers \ {d} : Given(d) \cap Given(e) = {}
  BY DEF OutputInv, Apportioned
<1>6. {(got[c] \o t)[i] : i \in DOMAIN (got[c] \o t)} = Given(c) \cup next
      /\ InOrder(got[c] \o t)
  <2>1. {got[c][i] : i \in DOMAIN got[c]} \subseteq 1 .. Delivered BY <1>5 DEF Given
  <2>2. InOrder(got[c]) BY <1>5
  <2> HIDE DEF Delivered
  <2>3. QED BY <1>2, <1>4, <2>1, <2>2, GivenMore DEF Given
<1>7. /\ Given(c)' = Given(c) \cup next
      /\ \A d \in Callers \ {c} : Given(d)' = Given(d)
  BY <1>4, <1>6 DEF Given
<1>8. \A d \in Callers : InOrder(got'[d]) BY <1>4, <1>5, <1>6
<1>9. /\ 1 .. Delivered' = (1 .. Delivered) \cup next
      /\ (1 .. Delivered) \cap next = {}
  BY <1>2, Interval
<1> HIDE DEF next
<1>10. \A d \in Callers : Given(d) \subseteq 1 .. Delivered BY <1>5
<1>11. Apportioned'
  <2>1. UNION {Given(d)' : d \in Callers} = next \cup UNION {Given(d) : d \in Callers}
    <3>1. \A d \in Callers : Given(d)' \subseteq next \cup Given(d) BY <1>7
    <3>2. \A d \in Callers : Given(d) \subseteq Given(d)' BY <1>7
    <3>3. next \subseteq Given(c)' BY <1>7
    <3>4. QED BY <3>1, <3>2, <3>3
  <2>2. 1 .. Delivered' = lost' \cup UNION {Given(d)' : d \in Callers}
    BY <1>3, <1>5, <1>9, <2>1
  <2>3. \A d \in Callers : Given(d)' \cap lost' = {}
    <3>1. lost \subseteq 1 .. Delivered BY <1>5
    <3>2. QED BY <1>3, <1>5, <1>7, <1>9, <3>1
  <2>4. ASSUME NEW d \in Callers, NEW e \in Callers \ {d} PROVE Given(d)' \cap Given(e)' = {}
    <3>1. CASE d # c /\ e # c BY <1>5, <1>7, <3>1
    <3>2. CASE d = c /\ e # c
      <4>1. Given(e)' = Given(e) /\ Given(d)' = Given(d) \cup next BY <1>7, <3>2
      <4>2. Given(d) \cap Given(e) = {} /\ Given(e) \cap next = {} BY <1>5, <1>9, <1>10
      <4>3. QED BY <4>1, <4>2
    <3>3. CASE d # c /\ e = c
      <4>1. Given(d)' = Given(d) /\ Given(e)' = Given(e) \cup next BY <1>7, <3>3
      <4>2. Given(d) \cap Given(e) = {} /\ Given(d) \cap next = {} BY <1>5, <1>9, <1>10
      <4>3. QED BY <4>1, <4>2
    <3>4. QED BY <3>1, <3>2, <3>3
  <2>5. QED BY <2>2, <2>3, <2>4 DEF Apportioned
<1>12. lost' # {} => binding' = "rpc" BY <1>3 DEF OutputInv
<1>13. QED BY <1>2, <1>8, <1>11, <1>12 DEF OutputInv

(* The next bytes are lost with the answer that carried them.              *)
LEMMA ConsumeLostKeeps ==
    ASSUME TypeOK, OutputInv, NEW c \in Callers, ConsumeLost(c)
    PROVE  OutputInv'
<1> DEFINE n == caller[c].want
           t == Take(n)
           next == Delivered + 1 .. Delivered + Len(t)
<1>1. n \in Nat BY DEF TypeOK, CallerStates
<1>2. /\ Delivered \in Nat /\ Delivered' = Delivered + Len(t)
      /\ BufferIsTheRest'
      /\ t \in Seq(Nat) /\ Len(t) \in Nat
      /\ \A i \in 1 .. Len(t) : t[i] = Delivered + i
  BY <1>1, ConsumingAdvances DEF ConsumeLost
<1>3. lost' = lost \cup {t[i] : i \in DOMAIN t} /\ got' = got /\ binding' = "rpc"
  BY DEF ConsumeLost
<1> HIDE DEF n, t
<1>4. lost' = lost \cup next
  <2> HIDE DEF Delivered
  <2>1. {t[i] : i \in DOMAIN t} = next BY <1>2, CountingOn
  <2>2. QED BY <1>3, <2>1
<1>5. /\ 1 .. Delivered = lost \cup UNION {Given(d) : d \in Callers}
      /\ \A d \in Callers : Given(d) \cap lost = {} /\ InOrder(got[d])
      /\ \A d \in Callers : \A e \in Callers \ {d} : Given(d) \cap Given(e) = {}
  BY DEF OutputInv, Apportioned
<1>6. /\ 1 .. Delivered' = (1 .. Delivered) \cup next
      /\ (1 .. Delivered) \cap next = {}
  BY <1>2, Interval
<1> HIDE DEF next
<1>7. \A d \in Callers : Given(d)' = Given(d) /\ got'[d] = got[d] BY <1>3 DEF Given
<1>8. Apportioned'
  <2>1. UNION {Given(d)' : d \in Callers} = UNION {Given(d) : d \in Callers} BY <1>7
  <2>2. 1 .. Delivered' = lost' \cup UNION {Given(d)' : d \in Callers}
    BY <1>4, <1>5, <1>6, <2>1
  <2>3. \A d \in Callers : Given(d)' \cap lost' = {}
    <3>1. \A d \in Callers : Given(d) \subseteq 1 .. Delivered BY <1>5
    <3>2. QED BY <1>4, <1>5, <1>6, <1>7, <3>1
  <2>4. \A d \in Callers : \A e \in Callers \ {d} : Given(d)' \cap Given(e)' = {}
    BY <1>5, <1>7
  <2>5. QED BY <2>2, <2>3, <2>4 DEF Apportioned
<1>9. QED BY <1>2, <1>3, <1>5, <1>7, <1>8 DEF OutputInv

(* Every step keeps OutputInv.                                             *)
LEMMA OutputStep ==
    ASSUME TypeOK, OutputInv, [Next]_vars
    PROVE  OutputInv'
<1>1. ASSUME UNCHANGED <<binding, console, printed, got, lost>>
      PROVE  OutputInv'
  <2>1. BufferIsTheRest' BY <1>1 DEF OutputInv, BufferIsTheRest, Delivered
  <2>2. Delivered' = Delivered BY <1>1 DEF Delivered
  <2>3. \A c \in Callers : Given(c)' = Given(c) BY <1>1 DEF Given
  <2>4. UNION {Given(c)' : c \in Callers} = UNION {Given(c) : c \in Callers} BY <2>3
  <2>5. Apportioned' BY <1>1, <2>2, <2>3, <2>4 DEF OutputInv, Apportioned
  <2>6. QED BY <1>1, <2>1, <2>5 DEF OutputInv
<1>2. ASSUME NEW c \in Callers,
             \/ RunYields(c) \/ Ask(c) \/ (\E n \in 1 .. MaxOutput : AskFor(c, n))
             \/ GiveUp(c) \/ Receive(c) \/ Probe(c) \/ Fetch(c)
      PROVE  OutputInv'
  BY <1>1, <1>2 DEF RunYields, Ask, AskFor, GiveUp, Receive, Probe, Fetch
<1>3. CASE UNCHANGED vars BY <1>1, <1>3 DEF vars
<1>4. QED BY <1>2, <1>3, PrintingKeeps, ConsumeKeeps, ConsumeLostKeeps DEF Next

(* Whoever reads, runs or fails in between: each byte printed is buffered, *)
(* was given to exactly one caller in its order, or went with an answer    *)
(* that was lost on its way from a server.                                 *)
THEOREM OutputDelivered == Spec => []OutputIsDelivered
<1>1. Init => OutputInv
  BY DEF Init, OutputInv, BufferIsTheRest, Apportioned, Delivered, Given, InOrder
<1>2. TypeOK /\ OutputInv /\ [Next]_vars => OutputInv' BY OutputStep
<1>3. TypeOK /\ OutputInv => OutputIsDelivered BY OutputImplied
<1>4. QED BY TypeCorrect, <1>1, <1>2, <1>3, PTL DEF Spec
=============================================================================
