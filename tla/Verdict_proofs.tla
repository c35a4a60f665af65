--------------------------- MODULE Verdict_proofs ---------------------------
(***************************************************************************)
(* Theorems about the two ends of the verdict on an input.  GuestLoop,     *)
(* which gives it inside the machine: for any number of requests, handlers *)
(* composed from any number, and a device that may be closed at any moment.*)
(* WaitForInput, which polls a node for it: for any number of retries, any *)
(* statuses, and any order of the node's answers and the passing of time.  *)
(***************************************************************************)
EXTENDS GuestLoop, WaitForInput, SequenceTheorems, TLAPS

-----------------------------------------------------------------------------
(* What each of the properties says of one verdict.                        *)
Earned(v) ==
    v.accept <=>
        /\ ~Failed(v)
        /\ \/ Ran(v, "true")
           \/ handlers[v.request].mode = "plain" /\ Ran(v, "nothing")

Stops(v) == Silent(v) \cup (IF handlers[v.request].mode = "chain" THEN {"true"} ELSE {})

Asked(v) ==
    /\ \A k \in 1 .. Len(v.settled) - 1 : v.settled[k] \notin Stops(v)
    /\ \/ Len(v.settled) = handlers[v.request].count
       \/ Len(v.settled) > 0 /\ v.settled[Len(v.settled)] \in Stops(v)

Judged(v) == Earned(v) /\ Asked(v) /\ (v.reported <=> Failed(v))

LEMMA JudgedMeans ==
    ASSUME \A n \in DOMAIN verdicts : Judged(verdicts[n])
    PROVE  VerdictIsEarned /\ EveryoneIsAsked /\ FailuresAreReported
  BY DEF Judged, Earned, Asked, Stops, VerdictIsEarned, EveryoneIsAsked, FailuresAreReported

-----------------------------------------------------------------------------
(* The request being handled, as finish would report it.                   *)
Current == [request |-> request, accept |-> accept, settled |-> settled,
            reported |-> reported]

Verdicts == [request : Types, accept : BOOLEAN,
             settled : Seq(Settlements), reported : BOOLEAN]

LoopTypes ==
    /\ handlers \in [Types -> Configurations]
    /\ pc \in {"finish", "handle", "report", "resolved", "rejected", "report failed"}
    /\ accept \in BOOLEAN /\ reported \in BOOLEAN
    /\ request \in Types \cup {"none"}
    /\ settled \in Seq(Settlements) /\ Len(settled) <= MaxHandlers
    /\ device \in {"open", "closed"}
    /\ verdicts \in Seq(Verdicts)

(* While handlers are asked none has stopped the asking, and one is left;  *)
(* when an error is reported the last one asked has failed; and a request  *)
(* whose verdict is decided is judged as the properties say.               *)
LoopInv ==
    /\ LoopTypes
    /\ HandedOut <= MaxRequests
    /\ \A n \in DOMAIN verdicts : Judged(verdicts[n])
    /\ pc = "finish" /\ request # "none" => Judged(Current)
    /\ pc = "handle" =>
           /\ request # "none" /\ ~reported
           /\ handlers[request].mode # "missing"
           /\ \A k \in 1 .. Len(settled) : settled[k] \notin Stops(Current)
           /\ \/ Len(settled) < handlers[request].count
              \/ handlers[request].count = 0 /\ Len(settled) = 0
    /\ pc = "report" =>
           /\ request # "none" /\ ~reported /\ ~accept
           /\ Len(settled) > 0 /\ settled[Len(settled)] \in Silent(Current)
           /\ \A k \in 1 .. Len(settled) - 1 : settled[k] \notin Stops(Current)

(* The configurations a handler can be asked in.                           *)
LEMMA ConfigurationFacts ==
    ASSUME NEW c \in Configurations
    PROVE  /\ c.mode \in {"missing", "plain", "chain", "broadcast"}
           /\ c.count \in Nat /\ c.count <= MaxHandlers
           /\ c.mode = "plain" => c.count = 1
           /\ c.mode = "missing" => c.count = 0
  BY BoundsAssumption DEF Configurations

(* A sequence that one more is appended to.                                *)
LEMMA Appended ==
    ASSUME NEW S, NEW s \in Seq(S), NEW e \in S
    PROVE  /\ Append(s, e) \in Seq(S) /\ Len(Append(s, e)) = Len(s) + 1
           /\ Len(s) \in Nat /\ DOMAIN Append(s, e) = 1 .. Len(s) + 1
           /\ \A k \in 1 .. Len(s) : Append(s, e)[k] = s[k]
           /\ Append(s, e)[Len(s) + 1] = e
  OBVIOUS

(* The lengths are natural numbers.                                        *)
LEMMA Lengths ==
    ASSUME LoopInv
    PROVE  /\ verdicts \in Seq(Verdicts) /\ Len(verdicts) \in Nat
           /\ settled \in Seq(Settlements) /\ Len(settled) \in Nat
           /\ DOMAIN settled = 1 .. Len(settled)
<1>1. verdicts \in Seq(Verdicts) /\ settled \in Seq(Settlements) BY DEF LoopInv, LoopTypes
<1>2. QED BY <1>1

(* finish adds the current request to those judged.                        *)
LEMMA TellKeeps ==
    ASSUME LoopInv, pc = "finish", Tell, UNCHANGED handlers
    PROVE  /\ verdicts' \in Seq(Verdicts)
           /\ (\A n \in DOMAIN verdicts : Judged(verdicts[n]))'
           /\ Len(verdicts') = HandedOut /\ HandedOut \in Nat
<1>1. verdicts \in Seq(Verdicts) /\ Len(verdicts) \in Nat BY Lengths
<1>2. \A v : Judged(v)' <=> Judged(v)
  BY DEF Judged, Earned, Asked, Stops, Silent, Failed, Ran
<1>3. \A n \in DOMAIN verdicts : Judged(verdicts[n]) BY DEF LoopInv
<1>4. CASE request = "none"
  <2>1. verdicts' = verdicts BY <1>4 DEF Tell
  <2>2. QED BY <1>1, <1>2, <1>3, <1>4, <2>1 DEF HandedOut
<1>5. CASE request # "none"
  <2>1. verdicts' = Append(verdicts, Current) BY <1>5 DEF Tell, Current
  <2>2. Current \in Verdicts BY <1>5 DEF LoopInv, LoopTypes, Current, Verdicts
  <2>3. Judged(Current) BY <1>5 DEF LoopInv
  <2>4. \A n \in DOMAIN verdicts' : Judged(verdicts'[n])
    <3>1. /\ DOMAIN verdicts' = 1 .. Len(verdicts) + 1
          /\ \A k \in 1 .. Len(verdicts) : verdicts'[k] = verdicts[k]
          /\ verdicts'[Len(verdicts) + 1] = Current
      BY <1>1, <2>1, <2>2, Appended
    <3>2. \A k \in 1 .. Len(verdicts) + 1 : k \in 1 .. Len(verdicts) \/ k = Len(verdicts) + 1
      BY <1>1
    <3>3. DOMAIN verdicts = 1 .. Len(verdicts) BY <1>1
    <3>4. QED BY <1>3, <2>3, <3>1, <3>2, <3>3
  <2>5. verdicts' \in Seq(Verdicts) /\ Len(verdicts') = HandedOut /\ HandedOut \in Nat
    BY <1>1, <1>5, <2>1, <2>2 DEF HandedOut
  <2>6. QED BY <1>2, <2>4, <2>5
<1>6. QED BY <1>4, <1>5

(* A handler settles: the request is decided, fails, or goes on being      *)
(* asked of the next handler.                                              *)
LEMMA SettlingKeeps ==
    ASSUME LoopInv, NEW how \in Settlements, HandlerSettles(how)
    PROVE  LoopInv'
<1> DEFINE config == handlers[request]
           u == Append(settled, how)
<1>1. /\ pc = "handle" /\ settled' = u /\ config.count > 0
      /\ UNCHANGED <<handlers, request, device, reported, verdicts>>
  BY DEF HandlerSettles
<1>2. /\ LoopTypes /\ HandedOut <= MaxRequests /\ \A n \in DOMAIN verdicts : Judged(verdicts[n])
      /\ request \in Types /\ reported = FALSE /\ config.mode # "missing"
      /\ settled \in Seq(Settlements) /\ handlers \in [Types -> Configurations]
      /\ \A k \in 1 .. Len(settled) : settled[k] \notin Stops(Current)
      /\ Len(settled) < config.count
  BY <1>1, ConfigurationFacts DEF LoopInv, LoopTypes
<1>3. /\ config.mode \in {"plain", "chain", "broadcast"} /\ config.count \in Nat
      /\ config.count <= MaxHandlers /\ (config.mode = "plain" => config.count = 1)
  BY <1>2, ConfigurationFacts
<1>4. /\ u \in Seq(Settlements) /\ Len(u) = Len(settled) + 1 /\ Len(settled) \in Nat
      /\ DOMAIN u = 1 .. Len(settled) + 1 /\ DOMAIN settled = 1 .. Len(settled)
      /\ \A k \in 1 .. Len(settled) : u[k] = settled[k]
      /\ u[Len(settled) + 1] = how
  BY <1>2, Appended
<1> HIDE DEF u, config
<1>5. /\ Silent(Current)' = Silent(Current) /\ Stops(Current)' = Stops(Current)
      /\ Silent(Current) = IF config.mode = "plain" THEN {"throws"} ELSE {"throws", "nothing"}
      /\ Stops(Current) = Silent(Current) \cup (IF config.mode = "chain" THEN {"true"} ELSE {})
  BY <1>1 DEF Silent, Stops, Current, config
<1>6. \A v : Judged(v)' <=> Judged(v)
  BY <1>1 DEF Judged, Earned, Asked, Stops, Silent, Failed, Ran
<1>7. (\A n \in DOMAIN verdicts : Judged(verdicts[n]))' BY <1>1, <1>2, <1>6
<1>8. HandedOut' <= MaxRequests BY <1>1, <1>2 DEF HandedOut
<1>9. \A k \in 1 .. Len(u) - 1 : u[k] \notin Stops(Current)
  BY <1>2, <1>4
<1>10. \A x : Ran(Current, x)' <=> Ran(Current, x) \/ x = how
  <2> TAKE x
  <2>1. Ran(Current, x) <=> \E n \in 1 .. Len(settled) : settled[n] = x
    BY <1>4 DEF Ran, Current
  <2>2. Ran(Current, x)' <=> \E n \in 1 .. Len(settled) + 1 : u[n] = x
    BY <1>1, <1>4 DEF Ran, Current
  <2>3. 1 .. Len(settled) + 1 = (1 .. Len(settled)) \cup {Len(settled) + 1} BY <1>4
  <2>4. QED BY <1>4, <2>1, <2>2, <2>3
<1>11. \A x \in Stops(Current) : ~Ran(Current, x)
  BY <1>2, <1>4 DEF Ran, Current
<1>12. /\ (\E x \in Silent(Current) : Ran(Current, x)') <=> how \in Silent(Current)
       /\ Failed(Current)' <=> how \in Silent(Current)
  BY <1>5, <1>10, <1>11 DEF Failed, Current
<1>t. /\ handlers' \in [Types -> Configurations] /\ reported' \in BOOLEAN
      /\ request' \in Types \cup {"none"} /\ device' \in {"open", "closed"}
      /\ settled' \in Seq(Settlements) /\ Len(settled') <= MaxHandlers
      /\ verdicts' \in Seq(Verdicts)
      /\ accept \in BOOLEAN
  <2>1. Len(settled') <= MaxHandlers BY <1>1, <1>2, <1>3, <1>4, BoundsAssumption
  <2>2. QED BY <1>1, <1>2, <1>4, <2>1 DEF LoopTypes
<1>13. ASSUME how \in Silent(Current), Fail PROVE LoopInv'
  <2>1. pc' = "report" /\ accept' = FALSE BY <1>13 DEF Fail
  <2>2. LoopTypes' BY <1>t, <2>1 DEF LoopTypes
  <2>3. QED BY <1>1, <1>2, <1>4, <1>5, <1>7, <1>8, <1>9, <1>13, <2>1, <2>2 DEF LoopInv
<1>14. ASSUME how \notin Stops(Current), Len(u) < config.count, AskNext PROVE LoopInv'
  <2>1. pc' = "handle" /\ accept' = accept BY <1>1, <1>14 DEF AskNext
  <2>2. LoopTypes' BY <1>t, <2>1 DEF LoopTypes
  <2>3. \A k \in 1 .. Len(u) : u[k] \notin Stops(Current)
    <3>1. \A k \in 1 .. Len(u) : k \in 1 .. Len(u) - 1 \/ k = Len(settled) + 1 BY <1>4
    <3>2. QED BY <1>4, <1>9, <1>14, <3>1
  <2>4. QED BY <1>1, <1>2, <1>5, <1>7, <1>8, <1>14, <2>1, <2>2, <2>3 DEF LoopInv, config
<1>15. ASSUME NEW choice \in BOOLEAN, Decide(choice), how \notin Silent(Current),
              Len(u) = config.count \/ how \in Stops(Current),
              choice <=> \/ Ran(Current, "true") \/ how = "true"
                         \/ config.mode = "plain" /\ how = "nothing"
       PROVE  LoopInv'
  <2>1. pc' = "finish" /\ accept' = choice BY <1>15 DEF Decide
  <2>2. LoopTypes' BY <1>t, <2>1 DEF LoopTypes
  <2>3. ~Failed(Current)' BY <1>12, <1>15
  <2>4. config.mode = "plain" => ~Ran(Current, "nothing")
    <3>1. config.mode = "plain" => Len(settled) = 0 BY <1>2, <1>3, <1>4
    <3>2. QED BY <1>4, <3>1 DEF Ran, Current
  <2>5. Earned(Current)'
    <3>1. /\ Current'.accept = choice /\ handlers' = handlers
          /\ Current'.request = request
      BY <1>1, <2>1 DEF Current
    <3>2. Ran(Current, "true")' <=> Ran(Current, "true") \/ how = "true" BY <1>10
    <3>3. Ran(Current, "nothing")' <=> Ran(Current, "nothing") \/ how = "nothing" BY <1>10
    <3>4. QED BY <1>15, <2>3, <2>4, <3>1, <3>2, <3>3 DEF Earned, config
  <2>6. Asked(Current)'
    <3>1. /\ Current'.settled = u /\ Current'.request = request /\ handlers' = handlers
          /\ Stops(Current)' = Stops(Current)
      BY <1>1, <1>5 DEF Current
    <3>2. Len(u) > 0 /\ u[Len(u)] = how BY <1>4
    <3>3. QED BY <1>9, <1>15, <3>1, <3>2 DEF Asked, config
  <2>7. ~Current'.reported BY <1>1, <1>2 DEF Current
  <2>8. Judged(Current)' BY <2>3, <2>5, <2>6, <2>7 DEF Judged
  <2>9. QED BY <1>1, <1>7, <1>8, <2>1, <2>2, <2>8 DEF LoopInv
<1>16. CASE config.mode = "plain" /\ Plain(how)
  <2>1. Len(u) = config.count BY <1>2, <1>3, <1>4, <1>16
  <2>2. ~Ran(Current, "true")
    <3>1. Len(settled) = 0 BY <1>2, <1>3, <1>4, <1>16
    <3>2. QED BY <1>4, <3>1 DEF Ran, Current
  <2>3. CASE how = "throws" BY <1>5, <1>13, <1>16, <2>3 DEF Plain
  <2>4. CASE how # "throws"
    <3>1. Decide(how # "false") BY <1>16, <2>4 DEF Plain
    <3>2. how # "false" <=> how = "true" \/ how = "nothing" BY <2>4 DEF Settlements
    <3>3. how \notin Silent(Current) BY <1>5, <1>16, <2>4
    <3>4. QED BY <1>15, <1>16, <2>1, <2>2, <3>1, <3>2, <3>3
  <2>5. QED BY <2>3, <2>4
<1>17. CASE config.mode = "chain" /\ Chain(how)
  <2>1. Stops(Current) = {"throws", "nothing", "true"} /\ Silent(Current) = {"throws", "nothing"}
    BY <1>5, <1>17
  <2>2. ~Ran(Current, "true") BY <1>11, <2>1
  <2>3. CASE how \in {"throws", "nothing"}
    <3>1. Fail BY <1>17, <2>3 DEF Chain
    <3>2. QED BY <1>13, <2>1, <2>3, <3>1
  <2>4. CASE how = "true"
    <3>1. Decide(TRUE) BY <1>17, <2>4 DEF Chain
    <3>2. QED BY <1>15, <1>17, <2>1, <2>4, <3>1
  <2>5. CASE how = "false"
    <3>1. CASE Last
      <4>1. Decide(FALSE) BY <1>17, <2>5, <3>1 DEF Chain
      <4>2. Len(u) = config.count BY <1>4, <3>1 DEF Last, config
      <4>3. QED BY <1>15, <1>17, <2>1, <2>2, <2>5, <4>1, <4>2
    <3>2. CASE ~Last
      <4>1. AskNext BY <1>17, <2>5, <3>2 DEF Chain
      <4>2. Len(u) < config.count BY <1>2, <1>3, <1>4, <3>2 DEF Last, config
      <4>3. QED BY <1>14, <2>1, <2>5, <4>1, <4>2
    <3>3. QED BY <3>1, <3>2
  <2>6. QED BY <2>3, <2>4, <2>5 DEF Settlements
<1>18. CASE config.mode = "broadcast" /\ Broadcast(how)
  <2>1. Stops(Current) = {"throws", "nothing"} /\ Silent(Current) = {"throws", "nothing"}
    BY <1>5, <1>18
  <2>2. Ran(Current, "true") <=> Claimed BY DEF Ran, Current, Claimed
  <2>3. CASE how \in {"throws", "nothing"}
    <3>1. Fail BY <1>18, <2>3 DEF Broadcast
    <3>2. QED BY <1>13, <2>1, <2>3, <3>1
  <2>4. CASE how \in {"true", "false"}
    <3>1. CASE Last
      <4>1. Decide(Claimed \/ how = "true") BY <1>18, <2>4, <3>1 DEF Broadcast
      <4>2. Len(u) = config.count BY <1>4, <3>1 DEF Last, config
      <4>3. (Claimed \/ how = "true") \in BOOLEAN OBVIOUS
      <4>4. QED BY <1>15, <1>18, <2>1, <2>2, <2>4, <4>1, <4>2, <4>3
    <3>2. CASE ~Last
      <4>1. AskNext BY <1>18, <2>4, <3>2 DEF Broadcast
      <4>2. Len(u) < config.count BY <1>2, <1>3, <1>4, <3>2 DEF Last, config
      <4>3. QED BY <1>14, <2>1, <2>4, <4>1, <4>2
    <3>3. QED BY <3>1, <3>2
  <2>5. QED BY <2>3, <2>4 DEF Settlements
<1>19. QED BY <1>16, <1>17, <1>18 DEF HandlerSettles, config

(* finish returns the next request, which starts with a clean slate.       *)
LEMMA FinishKeeps ==
    ASSUME LoopInv, NEW type \in Types, Finish(type)
    PROVE  LoopInv'
<1>1. /\ pc = "finish" /\ HandedOut < MaxRequests /\ Tell /\ Receive(type)
      /\ UNCHANGED <<handlers, device>>
  BY DEF Finish
<1>2. /\ request' = type /\ type # "none" /\ settled' = << >> /\ reported' = FALSE
      /\ IF handlers[type].mode = "missing" THEN accept' = FALSE /\ pc' = pc
                                            ELSE pc' = "handle" /\ accept' = accept
  BY <1>1 DEF Receive, Types
<1>3. /\ verdicts' \in Seq(Verdicts)
      /\ (\A n \in DOMAIN verdicts : Judged(verdicts[n]))'
      /\ Len(verdicts') = HandedOut /\ HandedOut \in Nat
  BY <1>1, TellKeeps
<1>4. HandedOut' <= MaxRequests
  <2>1. HandedOut' = HandedOut + 1 BY <1>2, <1>3 DEF HandedOut
  <2>2. QED BY <1>1, <1>3, <2>1, BoundsAssumption
<1>5. settled' \in Seq(Settlements) /\ Len(settled') = 0 /\ DOMAIN settled' = {} BY <1>2
<1>6. /\ handlers \in [Types -> Configurations] /\ accept \in BOOLEAN
      /\ device \in {"open", "closed"}
  BY DEF LoopInv, LoopTypes
<1>7. handlers[type] \in Configurations BY <1>6
<1>8. LoopTypes'
  <2>1. Len(settled') <= MaxHandlers BY <1>5, BoundsAssumption
  <2>2. accept' \in BOOLEAN /\ pc' \in {"finish", "handle"} BY <1>1, <1>2, <1>6
  <2>3. QED BY <1>1, <1>2, <1>3, <1>5, <1>6, <2>1, <2>2 DEF LoopTypes
<1>9. \A x : ~Ran(Current, x)' BY <1>2, <1>5 DEF Ran, Current
<1>10. CASE handlers[type].mode = "missing"
  <2>1. handlers[type].count = 0 BY <1>7, <1>10, ConfigurationFacts
  <2>2. /\ Current'.accept = FALSE /\ Current'.reported = FALSE
        /\ Current'.request = type /\ handlers' = handlers /\ Current'.settled = << >>
    BY <1>1, <1>2, <1>10 DEF Current
  <2>3. ~Failed(Current)' BY <1>9 DEF Failed
  <2>4. Earned(Current)' BY <1>9, <1>10, <2>2 DEF Earned
  <2>5. Asked(Current)' BY <1>5, <2>1, <2>2 DEF Asked
  <2>6. Judged(Current)' BY <2>2, <2>3, <2>4, <2>5 DEF Judged
  <2>7. QED BY <1>1, <1>2, <1>3, <1>4, <1>8, <1>10, <2>6 DEF LoopInv
<1>11. CASE handlers[type].mode # "missing"
  <2>1. pc' = "handle" BY <1>2, <1>11
  <2>2. handlers[type].count \in Nat BY <1>7, ConfigurationFacts
  <2>3. Len(settled') < handlers[type].count \/ handlers[type].count = 0
    BY <1>5, <2>2
  <2>4. QED BY <1>1, <1>2, <1>3, <1>4, <1>5, <1>8, <1>11, <2>1, <2>3 DEF LoopInv
<1>12. QED BY <1>10, <1>11

(* What changes neither handlers nor the judged requests.                  *)
LEMMA JudgedStays ==
    ASSUME UNCHANGED <<handlers, verdicts>>
    PROVE  /\ \A v : Judged(v)' <=> Judged(v)
           /\ LoopInv => (\A n \in DOMAIN verdicts : Judged(verdicts[n]))'
<1>1. \A v : Judged(v)' <=> Judged(v)
  BY DEF Judged, Earned, Asked, Stops, Silent, Failed, Ran
<1>2. QED BY <1>1 DEF LoopInv

(* run ends: with or without the last verdict told.                        *)
LEMMA EndingKeeps ==
    ASSUME LoopInv, FinishExhausted \/ FinishThrows
    PROVE  LoopInv'
<1>1. /\ pc = "finish" /\ pc' \in {"resolved", "rejected"} /\ request' = "none"
      /\ UNCHANGED <<handlers, accept, settled, device, reported>>
  BY DEF FinishExhausted, FinishThrows
<1>2. /\ verdicts' \in Seq(Verdicts)
      /\ (\A n \in DOMAIN verdicts : Judged(verdicts[n]))'
      /\ Len(verdicts') <= MaxRequests
  <2>1. CASE Tell
    <3>1. HandedOut <= MaxRequests BY DEF LoopInv
    <3>2. QED BY <1>1, <2>1, <3>1, TellKeeps
  <2>2. CASE UNCHANGED verdicts
    <3>1. Len(verdicts) <= MaxRequests
      <4>1. Len(verdicts) \in Nat BY Lengths
      <4>2. QED BY <4>1, BoundsAssumption DEF LoopInv, HandedOut
    <3>2. QED BY <1>1, <2>2, <3>1, JudgedStays DEF LoopInv, LoopTypes
  <2>3. QED BY <2>1, <2>2 DEF FinishExhausted, FinishThrows
<1>3. HandedOut' <= MaxRequests
  <2>1. Len(verdicts') \in Nat BY <1>2
  <2>2. QED BY <1>1, <1>2, <2>1 DEF HandedOut
<1>4. LoopTypes' BY <1>1, <1>2 DEF LoopInv, LoopTypes
<1>5. QED BY <1>1, <1>2, <1>3, <1>4 DEF LoopInv

(* Nobody is asked, an error is reported or not, the device is closed.     *)
LEMMA OthersKeep ==
    ASSUME LoopInv, NobodyIsAsked \/ Report \/ ReportThrows \/ Close
    PROVE  LoopInv'
<1>1. UNCHANGED <<handlers, request, settled, verdicts>>
  BY DEF NobodyIsAsked, Report, ReportThrows, Close
<1>2. (\A n \in DOMAIN verdicts : Judged(verdicts[n]))' /\ HandedOut' <= MaxRequests
  BY <1>1, JudgedStays DEF LoopInv, HandedOut
<1>3. LoopTypes'
  BY <1>1 DEF LoopInv, LoopTypes, NobodyIsAsked, Decide, Report, ReportThrows, Close
<1>4. /\ Silent(Current)' = Silent(Current) /\ Stops(Current)' = Stops(Current)
      /\ (Failed(Current)' <=> Failed(Current)) /\ \A x : Ran(Current, x)' <=> Ran(Current, x)
  BY <1>1 DEF Silent, Stops, Failed, Ran, Current
<1>5. settled \in Seq(Settlements) /\ Len(settled) \in Nat /\ DOMAIN settled = 1 .. Len(settled)
  BY Lengths
<1>6. CASE NobodyIsAsked
  <2>1. /\ pc = "handle" /\ pc' = "finish" /\ accept' = FALSE /\ reported' = reported
        /\ handlers[request].count = 0
    BY <1>6 DEF NobodyIsAsked, Decide
  <2>2. /\ Len(settled) = 0 /\ ~reported /\ request # "none" /\ request \in Types
        /\ handlers \in [Types -> Configurations]
    BY <1>5, <2>1 DEF LoopInv, LoopTypes
  <2>3. \A x : ~Ran(Current, x)' BY <1>4, <1>5, <2>2 DEF Ran, Current
  <2>4. ~Failed(Current)' BY <2>3 DEF Failed
  <2>5. /\ Current'.accept = FALSE /\ Current'.reported = reported
        /\ Current'.settled = settled /\ Current'.request = request
    BY <1>1, <2>1 DEF Current
  <2>6. Earned(Current)' BY <2>3, <2>5 DEF Earned
  <2>7. Asked(Current)' BY <1>1, <2>1, <2>2, <2>5 DEF Asked
  <2>8. Judged(Current)' BY <2>2, <2>4, <2>5, <2>6, <2>7 DEF Judged
  <2>9. QED BY <1>2, <1>3, <2>1, <2>8 DEF LoopInv
<1>7. CASE Report
  <2>1. pc = "report" /\ pc' = "finish" /\ accept' = accept /\ reported' = TRUE
    BY <1>7 DEF Report
  <2>2. /\ ~accept /\ Len(settled) > 0 /\ settled[Len(settled)] \in Silent(Current)
        /\ \A k \in 1 .. Len(settled) - 1 : settled[k] \notin Stops(Current)
    BY <2>1 DEF LoopInv
  <2>3. /\ Current'.accept = accept /\ Current'.reported = TRUE
        /\ Current'.settled = settled /\ Current'.request = request
    BY <1>1, <2>1 DEF Current
  <2>4. Failed(Current)'
    <3>1. Ran(Current, settled[Len(settled)]) BY <1>5, <2>2 DEF Ran, Current
    <3>2. Failed(Current) BY <2>2, <3>1 DEF Failed
    <3>3. QED BY <1>4, <3>2
  <2>5. Earned(Current)' BY <2>2, <2>3, <2>4 DEF Earned
  <2>6. Asked(Current)' BY <1>4, <2>2, <2>3 DEF Asked, Stops
  <2>7. Judged(Current)' BY <2>3, <2>4, <2>5, <2>6 DEF Judged
  <2>8. QED BY <1>2, <1>3, <2>1, <2>7 DEF LoopInv
<1>8. CASE ReportThrows
  <2>1. pc' = "report failed" BY <1>8 DEF ReportThrows
  <2>2. QED BY <1>2, <1>3, <2>1 DEF LoopInv
<1>9. CASE Close
  <2>1. pc = "handle" /\ UNCHANGED <<pc, accept, reported>> BY <1>9 DEF Close
  <2>2. QED BY <1>1, <1>2, <1>3, <1>4, <2>1 DEF LoopInv
<1>10. QED BY <1>6, <1>7, <1>8, <1>9

(* Nothing happens.                                                        *)
LEMMA StutteringKeeps ==
    ASSUME LoopInv, UNCHANGED vars
    PROVE  LoopInv'
<1>1. UNCHANGED <<handlers, pc, accept, request, settled, device, reported, verdicts>>
  BY DEF vars
<1>2. HandedOut' = HandedOut BY <1>1 DEF HandedOut
<1>3. Judged(Current)' <=> Judged(Current)
  BY <1>1 DEF Judged, Earned, Asked, Stops, Silent, Failed, Ran, Current
<1>4. Stops(Current)' = Stops(Current) /\ Silent(Current)' = Silent(Current)
  BY <1>1 DEF Stops, Silent, Current
<1>5. (\A n \in DOMAIN verdicts : Judged(verdicts[n]))' BY <1>1, JudgedStays
<1>6. LoopTypes' BY <1>1 DEF LoopInv, LoopTypes
<1>7. QED BY <1>1, <1>2, <1>3, <1>4, <1>5, <1>6 DEF LoopInv

(* LoopInv holds in every state.                                           *)
LEMMA LoopInvHolds == Spec => []LoopInv
<1>1. Init => LoopInv
  <2> SUFFICES ASSUME Init PROVE LoopInv OBVIOUS
  <2>1. /\ handlers \in [Types -> Configurations] /\ pc = "finish" /\ accept = TRUE
        /\ request = "none" /\ settled = << >> /\ device = "open" /\ reported = FALSE
        /\ verdicts = << >>
    BY DEF Init
  <2>2. LoopTypes
    <3>1. /\ settled \in Seq(Settlements) /\ Len(settled) = 0 /\ verdicts \in Seq(Verdicts)
      BY <2>1
    <3>2. Len(settled) <= MaxHandlers BY <3>1, BoundsAssumption
    <3>3. QED BY <2>1, <3>1, <3>2 DEF LoopTypes
  <2>3. HandedOut <= MaxRequests BY <2>1, BoundsAssumption DEF HandedOut
  <2>4. QED BY <2>1, <2>2, <2>3 DEF LoopInv
<1>2. LoopInv /\ [Next]_vars => LoopInv'
  BY StutteringKeeps, FinishKeeps, EndingKeeps, SettlingKeeps, OthersKeep DEF Next
<1>3. QED BY <1>1, <1>2, PTL DEF Spec

(* Types.                                                                  *)
THEOREM TypeCorrect == Spec => []TypeOK
<1>1. LoopInv => TypeOK
  <2> SUFFICES ASSUME LoopInv PROVE TypeOK OBVIOUS
  <2>1. Len(verdicts) \in Nat BY Lengths
  <2>2. Len(verdicts) <= MaxRequests BY <2>1, BoundsAssumption DEF LoopInv, HandedOut
  <2>3. QED BY <2>2 DEF LoopInv, LoopTypes, TypeOK, Verdicts
<1>2. QED BY <1>1, LoopInvHolds, PTL

(* An input is accepted exactly if no handler that was asked failed and    *)
(* one of them claimed it; nothing is left over of an earlier verdict.     *)
THEOREM VerdictsAreEarned == Spec => []VerdictIsEarned
<1>1. LoopInv => VerdictIsEarned BY JudgedMeans DEF LoopInv
<1>2. QED BY <1>1, LoopInvHolds, PTL

(* chain stops at the first claim, broadcast asks everyone, and both stop  *)
(* at the first failure.                                                   *)
THEOREM AskingIsComplete == Spec => []EveryoneIsAsked
<1>1. LoopInv => EveryoneIsAsked BY JudgedMeans DEF LoopInv
<1>2. QED BY <1>1, LoopInvHolds, PTL

(* The machine hears of a rejection by failure after its report.           *)
THEOREM ReportsPrecedeVerdicts == Spec => []FailuresAreReported
<1>1. LoopInv => FailuresAreReported BY JudgedMeans DEF LoopInv
<1>2. QED BY <1>1, LoopInvHolds, PTL

-----------------------------------------------------------------------------
(* The retries that are counted never exceed those that were given.        *)
RetriesAreCounted ==
    /\ phase \in {"asking", "answered", "sleeping"} => tries <= options.retryCount
    /\ phase = "failed" => tries <= options.retryCount + 1

(* An answer is what the node holds, or the NONE that it held before.      *)
AnswerIsSeen == answer \in {"nothing", "error", "NONE", input}

(* Why an attempt that failed did so.                                      *)
FailureIsTold ==
    /\ phase = "resolved" =>
           /\ answer \in Statuses
           /\ options.waitProcessing => answer # "NONE"
           /\ options.rejectErrors => answer \in {"NONE", "ACCEPTED"}
    /\ phase \in {"failed", "rejected"} => failure # "none"
    /\ phase = "answered" => answer # "nothing"
    /\ phase \in {"failed", "rejected"} =>
           /\ failure = "unprocessed" => options.waitProcessing /\ answer = "NONE"
           /\ failure = "request" => answer = "error"
    /\ failure = "refused" =>
           phase = "rejected" /\ options.rejectErrors /\ answer = input /\ input \in Refusals

PollingInv == PollingTypeOK /\ RetriesAreCounted /\ AnswerIsSeen /\ FailureIsTold /\ GivesUpWhenDue

-----------------------------------------------------------------------------
(* PollingInv holds initially.                                                    *)
LEMMA PollingInvInit ==
    ASSUME PollingInit
    PROVE  PollingInv
<1> USE RetriesAssumption DEF PollingInit
<1>1. PollingTypeOK
  <2>1. 0 \in 0 .. MaxRetries + 1 OBVIOUS
  <2>2. QED BY <2>1 DEF PollingTypeOK, Phases
<1>2. 0 <= options.retryCount OBVIOUS
<1>3. RetriesAreCounted BY <1>2 DEF RetriesAreCounted
<1>4. AnswerIsSeen /\ FailureIsTold /\ GivesUpWhenDue
  BY DEF AnswerIsSeen, FailureIsTold, GivesUpWhenDue
<1>5. QED BY <1>1, <1>3, <1>4 DEF PollingInv

(* Every step keeps the types.                                             *)
LEMMA PollingTypeStep ==
    ASSUME PollingInv, [PollingNext]_pollingVars
    PROVE  PollingTypeOK'
<1> USE RetriesAssumption DEF PollingInv, PollingTypeOK, Phases, Statuses, Final
<1>1. CASE InputChanges BY <1>1 DEF InputChanges
<1>2. CASE TimePasses BY <1>2 DEF TimePasses
<1>3. CASE NodeAnswers BY <1>3 DEF NodeAnswers
<1>4. CASE Arrives BY <1>4 DEF Arrives
<1>5. ASSUME NEW why \in {"request", "unprocessed"}, phase = "answered", FailAttempt(why)
      PROVE  PollingTypeOK'
  <2>1. tries + 1 \in 0 .. MaxRetries + 1 BY <1>5 DEF RetriesAreCounted
  <2>2. QED BY <1>5, <2>1 DEF FailAttempt
<1>6. CASE RequestFails BY <1>5, <1>6 DEF RequestFails
<1>7. CASE NotProcessed BY <1>5, <1>7 DEF NotProcessed
<1>8. CASE Abort BY <1>8 DEF Abort
<1>9. CASE Resolve BY <1>9 DEF Resolve
<1>10. CASE Sleep BY <1>10 DEF Sleep
<1>11. CASE GiveUp BY <1>11 DEF GiveUp
<1>12. CASE Wake BY <1>12 DEF Wake
<1>13. CASE Requery
  <2>1. 0 \in 0 .. MaxRetries + 1 /\ queries - 1 \in 0 .. MaxQueries BY <1>13 DEF Requery
  <2>2. QED BY <1>13, <2>1 DEF Requery
<1>14. CASE UNCHANGED pollingVars BY <1>14 DEF pollingVars
<1>15. QED
  BY <1>1, <1>2, <1>3, <1>4, <1>6, <1>7, <1>8, <1>9, <1>10, <1>11, <1>12, <1>13, <1>14
     DEF PollingNext, Attempt

(* Every step keeps what is said of retries, answers and failures.         *)
LEMMA PollingInvStep ==
    ASSUME PollingInv, [PollingNext]_pollingVars
    PROVE  PollingInv'
<1>t. PollingTypeOK' BY PollingTypeStep
<1> USE RetriesAssumption, RefusalsAssumption, <1>t
    DEF PollingInv, PollingTypeOK, Phases, Statuses, Final, RetriesAreCounted, AnswerIsSeen, FailureIsTold,
        GivesUpWhenDue
<1>1. CASE InputChanges BY <1>1 DEF InputChanges
<1>2. CASE TimePasses BY <1>2 DEF TimePasses
<1>3. CASE NodeAnswers BY <1>3 DEF NodeAnswers
<1>4. CASE Arrives BY <1>4 DEF Arrives
<1>6. CASE RequestFails BY <1>6 DEF RequestFails, FailAttempt
<1>7. CASE NotProcessed BY <1>7 DEF NotProcessed, FailAttempt, Unprocessed
<1>8. CASE Abort BY <1>8 DEF Abort, Unprocessed, Refused
<1>9. CASE Resolve BY <1>9 DEF Resolve, Unprocessed, Refused
<1>10. CASE Sleep BY <1>10 DEF Sleep, TryAgain
<1>11. CASE GiveUp BY <1>11 DEF GiveUp, TryAgain
<1>12. CASE Wake BY <1>12 DEF Wake
<1>13. CASE Requery BY <1>13 DEF Requery
<1>14. CASE UNCHANGED pollingVars BY <1>14 DEF pollingVars
<1>15. QED
  BY <1>1, <1>2, <1>3, <1>4, <1>6, <1>7, <1>8, <1>9, <1>10, <1>11, <1>12, <1>13, <1>14
     DEF PollingNext, Attempt

(* PollingInv says more than the properties the runs check.                       *)
LEMMA PollingInvImplies ==
    ASSUME PollingInv
    PROVE  EndsByAnswer
BY RefusalsAssumption DEF PollingInv, PollingTypeOK, Statuses, Final, AnswerIsSeen, FailureIsTold, EndsByAnswer

-----------------------------------------------------------------------------
(* The variables of the polling keep their types: no more retries are ever *)
(* counted than one past the bound.                                        *)
THEOREM PollingTypeCorrect == PollingSpec => []PollingTypeOK
<1>1. PollingInv => PollingTypeOK BY DEF PollingInv
<1>2. QED BY PollingInvInit, PollingInvStep, <1>1, PTL DEF PollingSpec

(* A call ends by an answer of the node that its options let through, or   *)
(* by the failure of its last attempt, whatever the node answers and when. *)
THEOREM AnswersDecide == PollingSpec => []EndsByAnswer
BY PollingInvInit, PollingInvStep, PollingInvImplies, PTL DEF PollingSpec

(* A call gives up after all its retries or past its time, and no refusal  *)
(* of an input is asked about again.                                       *)
THEOREM NoEarlyGivingUp == PollingSpec => []GivesUpWhenDue
<1>1. PollingInv => GivesUpWhenDue BY DEF PollingInv
<1>2. QED BY PollingInvInit, PollingInvStep, <1>1, PTL DEF PollingSpec
=============================================================================
