---------------------------- MODULE GlassesProofs ----------------------------
(***************************************************************************)
(* Proofs about Glasses for any number of questions, answers, fetches and  *)
(* faults: types, where answers go, how long they stay, and that the       *)
(* bridge deletes only what it has fetched.                                *)
(***************************************************************************)
EXTENDS Glasses, Integers, TLAPS

\* A question that has run out has been noted.
ExpiredLapsed ==
  \A r \in Rids : askExp[r] # 0 /\ askExp[r] <= now => r \in lapsed

\* The routine learns of a relayed question after its registration only.
SentRegistered ==
  \A r \in RelayRids : r \in send \cup knows => askExp[r] # 0 \/ r \in lapsed

\* An answer on its way to the box is to a question that is not registered.
PutUnregistered ==
  \A h \in Puts : apc[h] = "put" => (arid[h] \in RelayRids => arid[h] \in lapsed)

Routed ==
  /\ ExpiredLapsed
  /\ SentRegistered
  /\ PutUnregistered
  /\ RelayAnswerStaysOffBridge

\* The expiry that is left to the answer of r.
Due(r) ==
  IF first[r] = 0 THEN promise[r] ELSE Least(promise[r], first[r] - 1 + Grace)

FirstPast == \A r \in Rids : first[r] <= now + 1

\* A fetch that has read a question has read its present answer, and an expiry
\* that leaves it enough time.
ReadCurrent ==
  \A t \in Takes, r \in Rids \ crossed :
    tpc[t] = "mark" /\ trid[t] = r /\ askText[r] # 0 =>
      ttext[t] = askText[r] /\ texp[t] >= Due(r)

\* AnswerKept, over all ids.
KeptLong == \A r \in Rids \ crossed : askText[r] # 0 => askExp[r] >= Due(r)

Kept ==
  /\ FirstPast
  /\ ReadCurrent
  /\ KeptLong

\* What the bridge may delete it has fetched.
AckedSeen ==
  \A r \in pulled \cup acking :
    boxExp[r] # 0 => boxText[r] \in seen[r] \/ r \in rewritten

USE GlassesAssumption

----------------------------------------------------------------------------
(* Types.                                                                  *)

LEMMA TypeInit == Init => TypeOK
  BY DEF Init, TypeOK

LEMMA TypeStep == TypeOK /\ [Next]_vars => TypeOK'
<1> SUFFICES ASSUME TypeOK, [Next]_vars PROVE TypeOK'
  OBVIOUS
<1>0. CASE UNCHANGED vars
  BY <1>0 DEF TypeOK, vars, asks, box, answering, taking, bridge, ghost
<1>1. CASE Tick
  <2>1. now' \in 0..MaxTime
    BY <1>1 DEF TypeOK, Tick
  <2>2. lapsed' \subseteq Rids
    BY <1>1 DEF TypeOK, Tick, Lapse
  <2> QED BY <1>1, <2>1, <2>2 DEF TypeOK, Tick, asks, box, answering, taking, bridge, ghost
<1>2. CASE Pull
  <2> PICK S \in SUBSET Rids :
        /\ pulled' = S
        /\ seen' = [r \in Rids |-> IF r \in S THEN seen[r] \cup {boxText[r]} ELSE seen[r]]
        /\ PassOver(S)
    BY <1>2 DEF Pull
  <2>1. seen' \in [Rids -> SUBSET Nat]
    BY DEF TypeOK
  <2>2. passed' \in [Rids -> Nat]
    BY DEF TypeOK, PassOver
  <2> QED BY <1>2, <2>1, <2>2 DEF TypeOK, Pull, asks, box, answering, taking, ghost
<1>3. CASE Ack
  <2>1. faults' \in 0..MaxFaults
    BY <1>3 DEF TypeOK, Ack, Fault
  <2> QED BY <1>3, <2>1 DEF TypeOK, Ack, asks, box, answering, taking, ghost
<1>4. ASSUME NEW r \in Rids, SweepAsk(r) PROVE TypeOK'
  BY <1>4 DEF TypeOK, SweepAsk, box, answering, taking, bridge, ghost
<1>5. ASSUME NEW r \in Rids, SweepAnswer(r) PROVE TypeOK'
  BY <1>5 DEF TypeOK, SweepAnswer, DeleteAnswer, asks, answering, taking, bridge, ghost
<1>6. ASSUME NEW r \in Rids, RegisterAsk(r) PROVE TypeOK'
  <2>1. faults' \in 0..MaxFaults
    BY <1>6 DEF TypeOK, RegisterAsk, Fault
  <2>2. nasks' \in 0..MaxAsks
    BY <1>6 DEF TypeOK, RegisterAsk
  <2>3. /\ askExp' \in [Rids -> Nat] /\ askText' \in [Rids -> Nat]
        /\ delivered' \subseteq Rids
    <3>1. CASE Register(r)
      BY <3>1 DEF TypeOK, Register
    <3>2. CASE UNCHANGED asks
      BY <3>2 DEF TypeOK, asks
    <3> QED BY <1>6, <3>1, <3>2 DEF RegisterAsk
  <2>4. send' \subseteq RelayRids
    BY <1>6 DEF TypeOK, RegisterAsk
  <2> QED BY <1>6, <2>1, <2>2, <2>3, <2>4
          DEF TypeOK, RegisterAsk, box, answering, taking, bridge, ghost
<1>7. ASSUME NEW r \in Rids, Webhook(r) PROVE TypeOK'
  <2>1. faults' \in 0..MaxFaults
    BY <1>7 DEF TypeOK, Webhook, Fault
  <2> QED BY <1>7, <2>1 DEF TypeOK, Webhook, asks, box, answering, taking, bridge, ghost
<1>8. ASSUME NEW r \in Rids, AckOne(r) PROVE TypeOK'
  <2>1. faults' \in 0..MaxFaults
    BY <1>8 DEF TypeOK, AckOne, Fault
  <2>2. boxExp' \in [Rids -> Nat] /\ boxText' \in [Rids -> Nat] /\ boxTime' \in [Rids -> Nat]
    <3>1. CASE DeleteAnswer(r)
      BY <3>1 DEF TypeOK, DeleteAnswer
    <3>2. CASE UNCHANGED box
      BY <3>2 DEF TypeOK, box
    <3> QED BY <1>8, <3>1, <3>2 DEF AckOne
  <2>3. acking' \subseteq Rids
    BY <1>8 DEF TypeOK, AckOne
  <2> QED BY <1>8, <2>1, <2>2, <2>3 DEF TypeOK, AckOne, asks, answering, taking, ghost
<1>9. ASSUME NEW h \in Puts, NEW r \in Rids, PutAnswer(h, r) PROVE TypeOK'
  BY <1>9 DEF TypeOK, PutAnswer, Fault, asks, box, answering, taking, bridge, ghost
<1>10. ASSUME NEW h \in Puts, AnswerAsk(h) PROVE TypeOK'
  <2>1. faults' \in 0..MaxFaults
    BY <1>10 DEF TypeOK, AnswerAsk, Fault
  <2>2. /\ askExp' \in [Rids -> Nat] /\ askText' \in [Rids -> Nat]
        /\ promise' \in [Rids -> Nat] /\ first' \in [Rids -> Nat] /\ crossed' \subseteq Rids
    <3>1. CASE Store(h)
      <4>1. arid[h] \in Rids /\ atext[h] \in Nat
        BY <1>10 DEF TypeOK, AnswerAsk
      <4>2. crossed' \subseteq Rids
        BY <3>1, <4>1 DEF TypeOK, Store
      <4>3. now + TTL \in Nat
        BY DEF TypeOK
      <4> QED BY <3>1, <4>1, <4>2, <4>3 DEF TypeOK, Store
    <3>2. CASE UNCHANGED <<askExp, askText, promise, first, crossed>>
      BY <3>2 DEF TypeOK
    <3> QED BY <1>10, <3>1, <3>2 DEF AnswerAsk
  <2> QED BY <1>10, <2>1, <2>2 DEF TypeOK, AnswerAsk, AnswerDone, box, taking, bridge
<1>11. ASSUME NEW h \in Puts, Put(h) PROVE TypeOK'
  <2>1. faults' \in 0..MaxFaults
    BY <1>11 DEF TypeOK, Put, Fault
  <2>2. /\ boxExp' \in [Rids -> Nat] /\ boxText' \in [Rids -> Nat]
        /\ boxTime' \in [Rids -> Nat] /\ rewritten' \subseteq Rids
        /\ passed' \in [Rids -> Nat]
    <3>1. CASE Leave(h)
      <4>1. arid[h] \in Rids /\ atext[h] \in Nat
        BY <1>11 DEF TypeOK, Put
      <4>2. rewritten' \subseteq Rids
        BY <3>1, <4>1 DEF TypeOK, Leave
      <4>3. now \in Nat /\ now + TTL \in Nat
        BY DEF TypeOK
      <4> QED BY <3>1, <4>1, <4>2, <4>3 DEF TypeOK, Leave
    <3>2. CASE UNCHANGED <<box, rewritten, passed>>
      BY <3>2 DEF TypeOK, box
    <3> QED BY <1>11, <3>1, <3>2 DEF Put
  <2> QED BY <1>11, <2>1, <2>2 DEF TypeOK, Put, AnswerDone, asks, taking, bridge
<1>12. ASSUME NEW t \in Takes, NEW r \in Rids, TakeAskReply(t, r) PROVE TypeOK'
  BY <1>12 DEF TypeOK, TakeAskReply, Taken, Tell, Alive, asks, box, answering, taking, bridge
<1>13. ASSUME NEW t \in Takes, MarkDelivered(t) PROVE TypeOK'
  <2>1. faults' \in 0..MaxFaults
    BY <1>13 DEF TypeOK, MarkDelivered, Fault
  <2>2. trid[t] \in Rids /\ ttext[t] \in Nat
    BY <1>13 DEF TypeOK, MarkDelivered
  <2>3. askExp' \in [Rids -> Nat] /\ delivered' \subseteq Rids /\ lapsed' \subseteq Rids
        /\ first' \in [Rids -> Nat]
    <3>1. CASE Mark(t)
      <4>1. Shortened(t) \in Nat /\ now + 1 \in Nat
        BY DEF TypeOK, Shortened, Least
      <4>2. askExp' \in [Rids -> Nat] /\ first' \in [Rids -> Nat]
        BY <3>1, <2>2, <4>1 DEF TypeOK, Mark, Taken
      <4>3. delivered' \subseteq Rids /\ lapsed' \subseteq Rids
        BY <3>1, <2>2 DEF TypeOK, Mark, Lapse
      <4> QED BY <4>2, <4>3
    <3>2. CASE UNCHANGED <<askExp, delivered, lapsed, first>>
      BY <3>2 DEF TypeOK
    <3> QED BY <1>13, <3>1, <3>2 DEF MarkDelivered
  <2>4. told' \in [Rids -> SUBSET Nat]
    BY <1>13, <2>2 DEF TypeOK, MarkDelivered, Tell
  <2> QED BY <1>13, <2>1, <2>3, <2>4 DEF TypeOK, MarkDelivered, box, answering, bridge
<1> QED BY <1>0, <1>1, <1>2, <1>3, <1>4, <1>5, <1>6, <1>7, <1>8, <1>9, <1>10, <1>11,
           <1>12, <1>13 DEF Next

\* The variables keep their types: TypeOK holds in every reachable state.
THEOREM TypeCorrect == Spec => []TypeOK
  BY TypeInit, TypeStep, PTL DEF Spec
----------------------------------------------------------------------------
(* Where answers go.                                                       *)

LEMMA RoutedInit == Init => Routed
  BY DEF Init, Routed, ExpiredLapsed, SentRegistered, PutUnregistered,
         RelayAnswerStaysOffBridge

\* What a step does to the expiries of questions.
LEMMA Expiries ==
  ASSUME TypeOK, [Next]_vars
  PROVE  \/ UNCHANGED <<askExp, now, lapsed>>
         \/ Tick
         \/ \E r \in Rids : SweepAsk(r)
         \/ \E r \in Rids : askExp' = [askExp EXCEPT ![r] = now + TTL] /\ UNCHANGED <<now, lapsed>>
         \/ \E t \in Takes : MarkDelivered(t) /\ Mark(t) /\ now' = now
<1>0. CASE UNCHANGED vars
  BY <1>0 DEF vars, asks
<1>1. CASE Pull \/ Ack
  BY <1>1 DEF Pull, Ack, asks
<1>2. ASSUME NEW r \in Rids, SweepAnswer(r) \/ Webhook(r) \/ AckOne(r)
      PROVE  UNCHANGED <<askExp, now, lapsed>>
  BY <1>2 DEF SweepAnswer, Webhook, AckOne, asks
<1>3. ASSUME NEW r \in Rids, RegisterAsk(r)
      PROVE  \/ UNCHANGED <<askExp, now, lapsed>>
             \/ askExp' = [askExp EXCEPT ![r] = now + TTL] /\ UNCHANGED <<now, lapsed>>
  BY <1>3 DEF RegisterAsk, Register, asks
<1>4. ASSUME NEW h \in Puts, (\E r \in Rids : PutAnswer(h, r)) \/ Put(h)
      PROVE  UNCHANGED <<askExp, now, lapsed>>
  BY <1>4 DEF PutAnswer, Put, asks
<1>5. ASSUME NEW h \in Puts, AnswerAsk(h)
      PROVE  \/ UNCHANGED <<askExp, now, lapsed>>
             \/ \E r \in Rids :
                  askExp' = [askExp EXCEPT ![r] = now + TTL] /\ UNCHANGED <<now, lapsed>>
  <2>1. arid[h] \in Rids
    BY <1>5 DEF TypeOK, AnswerAsk
  <2> QED BY <1>5, <2>1 DEF AnswerAsk, Store
<1>6. ASSUME NEW t \in Takes, NEW r \in Rids, TakeAskReply(t, r)
      PROVE  UNCHANGED <<askExp, now, lapsed>>
  BY <1>6 DEF TakeAskReply, asks
<1>7. ASSUME NEW t \in Takes, MarkDelivered(t)
      PROVE  UNCHANGED <<askExp, now, lapsed>> \/ (Mark(t) /\ now' = now)
  BY <1>7 DEF MarkDelivered
<1> QED BY <1>0, <1>1, <1>2, <1>3, <1>4, <1>5, <1>6, <1>7 DEF Next

\* A mark leaves an expiry.
LEMMA MarkExpiry ==
  ASSUME TypeOK, NEW t \in Takes, MarkDelivered(t), Mark(t)
  PROVE  /\ trid[t] \in Rids /\ Shortened(t) \in Nat \ {0}
         /\ askExp' = [askExp EXCEPT ![trid[t]] = Shortened(t)]
         /\ lapsed' = lapsed \cup {r \in Rids : askExp'[r] # 0 /\ askExp'[r] <= now}
<1>1. trid[t] \in Rids /\ texp[t] \in Nat \ {0} /\ now \in Nat
  BY DEF TypeOK, MarkDelivered
<1> QED BY <1>1 DEF Mark, Lapse, Shortened, Least

LEMMA ExpiredStep == TypeOK /\ ExpiredLapsed /\ [Next]_vars => ExpiredLapsed'
<1> SUFFICES ASSUME TypeOK, ExpiredLapsed, [Next]_vars,
                    NEW q \in Rids, askExp'[q] # 0, askExp'[q] <= now'
             PROVE  q \in lapsed'
  BY DEF ExpiredLapsed
<1>1. CASE UNCHANGED <<askExp, now, lapsed>>
  BY <1>1 DEF ExpiredLapsed
<1>2. CASE Tick
  BY <1>2 DEF Tick, Lapse, asks
<1>3. ASSUME NEW r \in Rids, SweepAsk(r) PROVE q \in lapsed'
  BY <1>3 DEF SweepAsk, ExpiredLapsed, TypeOK
<1>4. ASSUME NEW r \in Rids, askExp' = [askExp EXCEPT ![r] = now + TTL], UNCHANGED <<now, lapsed>>
      PROVE  q \in lapsed'
  BY <1>4 DEF ExpiredLapsed, TypeOK
<1>5. ASSUME NEW t \in Takes, MarkDelivered(t), Mark(t), now' = now PROVE q \in lapsed'
  BY <1>5, MarkExpiry
<1> QED BY <1>1, <1>2, <1>3, <1>4, <1>5, Expiries

\* A question that was registered stays so until it has run out.
LEMMA Registered ==
  ASSUME TypeOK, ExpiredLapsed, [Next]_vars,
         NEW q \in Rids, askExp[q] # 0 \/ q \in lapsed
  PROVE  askExp'[q] # 0 \/ q \in lapsed'
<1>1. CASE UNCHANGED <<askExp, now, lapsed>>
  BY <1>1
<1>2. CASE Tick
  BY <1>2 DEF Tick, Lapse, asks
<1>3. ASSUME NEW r \in Rids, SweepAsk(r) PROVE askExp'[q] # 0 \/ q \in lapsed'
  BY <1>3 DEF SweepAsk, ExpiredLapsed, Alive, TypeOK
<1>4. ASSUME NEW r \in Rids, askExp' = [askExp EXCEPT ![r] = now + TTL], UNCHANGED <<now, lapsed>>
      PROVE  askExp'[q] # 0 \/ q \in lapsed'
  BY <1>4 DEF TypeOK
<1>5. ASSUME NEW t \in Takes, MarkDelivered(t), Mark(t), now' = now
      PROVE  askExp'[q] # 0 \/ q \in lapsed'
  BY <1>5, MarkExpiry DEF TypeOK
<1> QED BY <1>1, <1>2, <1>3, <1>4, <1>5, Expiries

LEMMA LapsedGrows == TypeOK /\ [Next]_vars => lapsed \subseteq lapsed'
<1> SUFFICES ASSUME TypeOK, [Next]_vars PROVE lapsed \subseteq lapsed'
  OBVIOUS
<1> QED BY Expiries DEF Tick, SweepAsk, Mark, Lapse

LEMMA SentStep ==
  TypeOK /\ ExpiredLapsed /\ SentRegistered /\ [Next]_vars => SentRegistered'
<1> SUFFICES ASSUME TypeOK, ExpiredLapsed, SentRegistered, [Next]_vars,
                    NEW q \in RelayRids, q \in send' \cup knows'
             PROVE  askExp'[q] # 0 \/ q \in lapsed'
  BY DEF SentRegistered
<1>1. CASE q \in send \cup knows
  BY <1>1, Registered DEF SentRegistered
<1>2. CASE RegisterAsk(q)
  BY <1>1, <1>2 DEF RegisterAsk, Register, TypeOK
<1>3. \/ (send' \cup knows') \subseteq (send \cup knows)
      \/ \E r \in Rids : send' = send \cup {r} /\ knows' = knows /\ RegisterAsk(r)
  <2>0. CASE UNCHANGED vars
    BY <2>0 DEF vars
  <2>1. CASE Tick \/ Pull \/ Ack
    BY <2>1 DEF Tick, Pull, Ack
  <2>2. ASSUME NEW r \in Rids, SweepAsk(r) \/ SweepAnswer(r) \/ AckOne(r) \/ Webhook(r)
        PROVE  (send' \cup knows') \subseteq (send \cup knows)
    BY <2>2 DEF SweepAsk, SweepAnswer, AckOne, Webhook
  <2>3. ASSUME NEW r \in Rids, RegisterAsk(r)
        PROVE  \/ (send' \cup knows') \subseteq (send \cup knows)
               \/ send' = send \cup {r} /\ knows' = knows
    BY <2>3 DEF RegisterAsk
  <2>4. ASSUME NEW h \in Puts, NEW r \in Rids, PutAnswer(h, r)
        PROVE  (send' \cup knows') \subseteq (send \cup knows)
    BY <2>4 DEF PutAnswer
  <2>5. ASSUME NEW t \in Takes, NEW r \in Rids, TakeAskReply(t, r)
        PROVE  (send' \cup knows') \subseteq (send \cup knows)
    BY <2>5 DEF TakeAskReply
  <2>6. ASSUME NEW h \in Puts, AnswerAsk(h) \/ Put(h)
        PROVE  (send' \cup knows') \subseteq (send \cup knows)
    BY <2>6 DEF AnswerAsk, Put
  <2>7. ASSUME NEW t \in Takes, MarkDelivered(t)
        PROVE  (send' \cup knows') \subseteq (send \cup knows)
    BY <2>7 DEF MarkDelivered
  <2> QED BY <2>0, <2>1, <2>2, <2>3, <2>4, <2>5, <2>6, <2>7 DEF Next
<1> QED BY <1>1, <1>2, <1>3

\* A look at a relayed question finds it alive, or it has run out before.
LEMMA LookedAt ==
  ASSUME TypeOK, ExpiredLapsed, SentRegistered,
         NEW r \in RelayRids, r \in knows, ~Alive(r)
  PROVE  r \in lapsed
  BY DEF ExpiredLapsed, SentRegistered, Alive, TypeOK

LEMMA PutStep ==
  TypeOK /\ ExpiredLapsed /\ SentRegistered /\ PutUnregistered /\ [Next]_vars
    => PutUnregistered'
<1> SUFFICES ASSUME TypeOK, ExpiredLapsed, SentRegistered, PutUnregistered, [Next]_vars,
                    NEW g \in Puts, apc'[g] = "put", arid'[g] \in RelayRids
             PROVE  arid'[g] \in lapsed'
  BY DEF PutUnregistered
<1>1. CASE apc'[g] = apc[g] /\ arid'[g] = arid[g]
  BY <1>1, LapsedGrows DEF PutUnregistered
<1>2. ASSUME NEW h \in Puts, NEW r \in Rids, PutAnswer(h, r) PROVE arid'[g] \in lapsed'
  <2>1. CASE h = g /\ arid' = [arid EXCEPT ![h] = r]
             /\ apc' = [apc EXCEPT ![h] = IF Alive(r) THEN "update" ELSE "put"]
    <3>1. arid'[g] = r /\ ~Alive(r)
      BY <2>1 DEF TypeOK
    <3>2. r \in knows /\ lapsed' = lapsed
      BY <1>2 DEF PutAnswer
    <3> QED BY <3>1, <3>2, LookedAt
  <2>2. CASE UNCHANGED answering
    BY <2>2, <1>1 DEF answering
  <2>3. CASE h # g
    BY <1>1, <1>2, <2>3 DEF PutAnswer, answering, TypeOK
  <2> QED BY <1>2, <2>1, <2>2, <2>3 DEF PutAnswer
<1>3. ASSUME NEW h \in Puts, AnswerAsk(h) \/ Put(h) PROVE arid'[g] \in lapsed'
  <2>1. AnswerDone(h)
    BY <1>3 DEF AnswerAsk, Put
  <2> QED BY <1>1, <2>1 DEF AnswerDone, TypeOK
<1>4. UNCHANGED answering \/ (\E h \in Puts : AnswerAsk(h) \/ Put(h) \/ \E r \in Rids : PutAnswer(h, r))
  BY DEF Next, vars, Tick, Pull, Ack, SweepAsk, SweepAnswer, RegisterAsk, Webhook, AckOne,
         MarkDelivered, TakeAskReply
<1> QED BY <1>1, <1>2, <1>3, <1>4 DEF answering

LEMMA BoxStep ==
  TypeOK /\ PutUnregistered /\ RelayAnswerStaysOffBridge /\ [Next]_vars
    => RelayAnswerStaysOffBridge'
<1> SUFFICES ASSUME TypeOK, PutUnregistered, RelayAnswerStaysOffBridge, [Next]_vars,
                    NEW q \in RelayRids, boxExp'[q] # 0
             PROVE  q \in lapsed'
  BY DEF RelayAnswerStaysOffBridge
<1>1. CASE boxExp[q] # 0
  BY <1>1, LapsedGrows DEF RelayAnswerStaysOffBridge
<1>2. ASSUME NEW h \in Puts, Put(h) PROVE q \in lapsed'
  <2>1. CASE Leave(h) /\ arid[h] = q
    BY <1>2, <2>1, LapsedGrows DEF Put, PutUnregistered
  <2>2. CASE UNCHANGED <<box, rewritten>>
    BY <1>1, <2>2 DEF box
  <2>3. CASE Leave(h) /\ arid[h] # q
    BY <1>1, <2>3 DEF Leave, TypeOK
  <2> QED BY <1>2, <2>1, <2>2, <2>3 DEF Put
<1>3. ASSUME NEW r \in Rids, SweepAnswer(r) \/ AckOne(r) PROVE q \in lapsed'
  BY <1>1, <1>3 DEF SweepAnswer, AckOne, DeleteAnswer, box, TypeOK
<1>4. \/ UNCHANGED box
      \/ \E h \in Puts : Put(h)
      \/ \E r \in Rids : SweepAnswer(r) \/ AckOne(r)
  BY DEF Next, vars, Tick, Pull, Ack, SweepAsk, RegisterAsk, Webhook, PutAnswer, AnswerAsk,
         MarkDelivered, TakeAskReply
<1> QED BY <1>1, <1>2, <1>3, <1>4 DEF box

\* Answers to relayed questions stay out of the bridge's box for any number of
\* requests: RelayAnswerStaysOffBridge holds in every reachable state.
THEOREM RelayAnswersStayOff == Spec => []RelayAnswerStaysOffBridge
<1>1. Init => TypeOK /\ Routed
  BY TypeInit, RoutedInit
<1>2. TypeOK /\ Routed /\ [Next]_vars => (TypeOK /\ Routed)'
  BY TypeStep, ExpiredStep, SentStep, PutStep, BoxStep DEF Routed
<1>3. Routed => RelayAnswerStaysOffBridge
  BY DEF Routed
<1> QED BY <1>1, <1>2, <1>3, PTL DEF Spec
----------------------------------------------------------------------------
(* How long answers stay.                                                  *)

LEMMA KeptInit == Init => Kept
  BY DEF Init, Kept, FirstPast, ReadCurrent, KeptLong

\* What a step does to the questions and to the fetches of their answers.
LEMMA Questions ==
  ASSUME TypeOK, [Next]_vars
  PROVE  \/ UNCHANGED <<now, askExp, askText, promise, first, crossed, tpc, trid, ttext, texp>>
         \/ Tick
         \/ \E r \in Rids : SweepAsk(r) \/ (RegisterAsk(r) /\ Register(r))
         \/ \E h \in Puts : AnswerAsk(h) /\ Store(h)
         \/ \E t \in Takes, r \in Rids : TakeAskReply(t, r)
         \/ \E t \in Takes : MarkDelivered(t)
<1>0. CASE UNCHANGED vars
  BY <1>0 DEF vars, asks, taking, ghost
<1>1. CASE Pull \/ Ack
  BY <1>1 DEF Pull, Ack, asks, taking, ghost
<1>2. ASSUME NEW r \in Rids, SweepAnswer(r) \/ Webhook(r) \/ AckOne(r)
      PROVE  UNCHANGED <<now, askExp, askText, promise, first, crossed, tpc, trid, ttext, texp>>
  BY <1>2 DEF SweepAnswer, Webhook, AckOne, asks, taking, ghost
<1>3. ASSUME NEW r \in Rids, RegisterAsk(r)
      PROVE  \/ UNCHANGED <<now, askExp, askText, promise, first, crossed, tpc, trid, ttext, texp>>
             \/ Register(r)
  BY <1>3 DEF RegisterAsk, asks, taking, ghost
<1>4. ASSUME NEW h \in Puts, (\E r \in Rids : PutAnswer(h, r)) \/ Put(h)
      PROVE  UNCHANGED <<now, askExp, askText, promise, first, crossed, tpc, trid, ttext, texp>>
  BY <1>4 DEF PutAnswer, Put, asks, taking, ghost
<1>5. ASSUME NEW h \in Puts, AnswerAsk(h)
      PROVE  \/ UNCHANGED <<now, askExp, askText, promise, first, crossed, tpc, trid, ttext, texp>>
             \/ Store(h)
  BY <1>5 DEF AnswerAsk, taking
<1> QED BY <1>0, <1>1, <1>2, <1>3, <1>4, <1>5 DEF Next

LEMMA StoreFacts ==
  ASSUME TypeOK, NEW h \in Puts, AnswerAsk(h), Store(h)
  PROVE  /\ arid[h] \in Rids
         /\ askExp'[arid[h]] = now + TTL /\ promise'[arid[h]] = now + TTL
         /\ first'[arid[h]] = 0
         /\ \A r \in Rids \ {arid[h]} :
              /\ askExp'[r] = askExp[r] /\ askText'[r] = askText[r]
              /\ promise'[r] = promise[r] /\ first'[r] = first[r]
              /\ r \in crossed' <=> r \in crossed
         /\ \A t \in Takes : tpc[t] = "mark" /\ trid[t] = arid[h] => arid[h] \in crossed'
         /\ UNCHANGED <<now, tpc, trid, ttext, texp>>
<1>1. arid[h] \in Rids
  BY DEF TypeOK, AnswerAsk
<1> QED BY <1>1 DEF TypeOK, AnswerAsk, Store, taking

\* Taking the answer of r at its expiry or later, or with DeliveredGrace left.
LEMMA TakenFacts ==
  ASSUME TypeOK, FirstPast, NEW r \in Rids, Taken(r, askText[r]), promise' = promise
  PROVE  /\ \A q \in Rids \ {r} : first'[q] = first[q]
         /\ first'[r] \in Nat \ {0} /\ first'[r] <= now + 1
         /\ Due(r)' \in Int /\ Due(r)' <= Due(r) /\ Due(r)' <= now + Grace
<1>1. /\ first'[r] = (IF first[r] = 0 THEN now + 1 ELSE first[r])
      /\ \A q \in Rids \ {r} : first'[q] = first[q]
  BY DEF TypeOK, Taken
<1>2. first[r] \in Nat /\ now \in Nat /\ promise[r] \in Nat /\ first[r] <= now + 1
  BY DEF TypeOK, FirstPast
<1>3. Due(r)' = Least(promise[r], first'[r] - 1 + Grace)
  BY <1>1, <1>2 DEF Due
<1>4. Due(r) = IF first[r] = 0 THEN promise[r] ELSE Least(promise[r], first[r] - 1 + Grace)
  BY DEF Due
<1> QED BY <1>1, <1>2, <1>3, <1>4 DEF Least

LEMMA MarkFacts ==
  ASSUME TypeOK, NEW t \in Takes, MarkDelivered(t), Mark(t)
  PROVE  /\ trid[t] \in Rids
         /\ askExp' = [askExp EXCEPT ![trid[t]] = Least(texp[t], now + Grace)]
         /\ Taken(trid[t], ttext[t])
  BY DEF TypeOK, MarkDelivered, Mark, Shortened

LEMMA FirstStep == TypeOK /\ FirstPast /\ [Next]_vars => FirstPast'
<1> SUFFICES ASSUME TypeOK, FirstPast, [Next]_vars, NEW q \in Rids
             PROVE  first'[q] <= now' + 1
  BY DEF FirstPast
<1>1. first[q] \in Nat /\ now \in Nat /\ first[q] <= now + 1
  BY DEF TypeOK, FirstPast
<1>2. CASE UNCHANGED <<now, first>>
  BY <1>1, <1>2
<1>3. CASE Tick
  BY <1>1, <1>3 DEF Tick, ghost
<1>4. ASSUME NEW r \in Rids, SweepAsk(r) \/ RegisterAsk(r) PROVE UNCHANGED <<now, first>>
  BY <1>4 DEF SweepAsk, RegisterAsk, ghost
<1>5. ASSUME NEW h \in Puts, AnswerAsk(h), Store(h) PROVE first'[q] <= now' + 1
  BY <1>1, <1>5, StoreFacts
<1>6. ASSUME NEW r \in Rids, NEW x \in Nat, Taken(r, x), now' = now PROVE first'[q] <= now' + 1
  BY <1>1, <1>6 DEF Taken, TypeOK
<1>7. ASSUME NEW t \in Takes, NEW r \in Rids, TakeAskReply(t, r) PROVE first'[q] <= now' + 1
  <2>1. askText[r] \in Nat
    BY DEF TypeOK
  <2> QED BY <1>2, <1>6, <1>7, <2>1 DEF TakeAskReply
<1>8. ASSUME NEW t \in Takes, MarkDelivered(t) PROVE first'[q] <= now' + 1
  <2>1. trid[t] \in Rids /\ ttext[t] \in Nat
    BY <1>8 DEF TypeOK, MarkDelivered
  <2> QED BY <1>2, <1>6, <1>8, <2>1 DEF MarkDelivered, Mark
<1> QED BY <1>2, <1>3, <1>4, <1>5, <1>7, <1>8, Questions

LEMMA DueInt == TypeOK => \A r \in Rids : Due(r) \in Int /\ askExp[r] \in Nat
  BY DEF TypeOK, Due, Least

LEMMA ReadStep == TypeOK /\ Kept /\ [Next]_vars => ReadCurrent'
<1> SUFFICES ASSUME TypeOK, FirstPast, ReadCurrent, KeptLong, [Next]_vars,
                    NEW u \in Takes, NEW q \in Rids,
                    tpc'[u] = "mark", trid'[u] = q, q \notin crossed', askText'[q] # 0
             PROVE  ttext'[u] = askText'[q] /\ texp'[u] >= Due(q)'
  BY DEF Kept, ReadCurrent
<1>1. CASE UNCHANGED <<askText, promise, first, crossed, tpc, trid, ttext, texp>>
  BY <1>1 DEF ReadCurrent, Due
<1>2. CASE Tick
  BY <1>1, <1>2 DEF Tick, asks, taking, ghost
<1>3. ASSUME NEW r \in Rids, SweepAsk(r) \/ (RegisterAsk(r) /\ Register(r))
      PROVE  ttext'[u] = askText'[q] /\ texp'[u] >= Due(q)'
  <2>1. /\ askText' = [askText EXCEPT ![r] = 0]
        /\ UNCHANGED <<promise, first, crossed, tpc, trid, ttext, texp>>
    BY <1>3 DEF SweepAsk, RegisterAsk, Register, taking, ghost
  <2>2. q # r /\ askText'[q] = askText[q]
    BY <2>1 DEF TypeOK
  <2> QED BY <2>1, <2>2 DEF ReadCurrent, Due
<1>4. ASSUME NEW h \in Puts, AnswerAsk(h), Store(h)
      PROVE  ttext'[u] = askText'[q] /\ texp'[u] >= Due(q)'
  <2>1. UNCHANGED <<tpc, trid, ttext, texp>> /\ q # arid[h]
    BY <1>4, StoreFacts
  <2>2. /\ askText'[q] = askText[q] /\ promise'[q] = promise[q] /\ first'[q] = first[q]
        /\ q \notin crossed
    BY <1>4, <2>1, StoreFacts
  <2>3. ttext[u] = askText[q] /\ texp[u] >= Due(q)
    BY <2>1, <2>2 DEF ReadCurrent
  <2>4. Due(q)' = Due(q) BY <2>2 DEF Due
  <2> QED BY <2>1, <2>2, <2>3, <2>4
<1>5. ASSUME NEW t \in Takes, NEW r \in Rids, TakeAskReply(t, r)
      PROVE  ttext'[u] = askText'[q] /\ texp'[u] >= Due(q)'
  <2>1. UNCHANGED <<askExp, askText, promise, crossed>> /\ askText[r] # 0
    BY <1>5 DEF TakeAskReply, asks
  <2>2. CASE Taken(r, askText[r]) /\ UNCHANGED taking
    <3>1. ttext[u] = askText[q] /\ texp[u] >= Due(q) /\ texp[u] \in Nat /\ Due(q) \in Int
      BY <2>1, <2>2, DueInt DEF ReadCurrent, taking, TypeOK
    <3>2. Due(q)' <= Due(q) /\ Due(q)' \in Int
      <4>1. CASE q = r
        BY <2>1, <2>2, <4>1, TakenFacts
      <4>2. CASE q # r
        <5>1. first'[q] = first[q] /\ promise'[q] = promise[q]
          BY <2>1, <2>2, <4>2, TakenFacts
        <5>2. Due(q)' = Due(q)
          BY <5>1 DEF Due
        <5> QED BY <3>1, <5>2
      <4> QED BY <4>1, <4>2
    <3> QED BY <2>1, <2>2, <3>1, <3>2 DEF taking
  <2>3. CASE /\ r \notin delivered
             /\ tpc' = [tpc EXCEPT ![t] = "mark"]
             /\ trid' = [trid EXCEPT ![t] = r]
             /\ ttext' = [ttext EXCEPT ![t] = askText[r]]
             /\ texp' = [texp EXCEPT ![t] = askExp[r]]
             /\ UNCHANGED <<told, first>>
    <3>1. CASE u = t
      <4>1. q = r /\ ttext'[u] = askText[r] /\ texp'[u] = askExp[r]
        BY <2>3, <3>1 DEF TypeOK
      <4> QED BY <2>1, <2>3, <4>1 DEF KeptLong, Due
    <3>2. CASE u # t
      <4>1. trid[u] = q /\ ttext'[u] = ttext[u] /\ texp'[u] = texp[u] /\ tpc[u] = "mark"
        BY <2>3, <3>2 DEF TypeOK
      <4> QED BY <2>1, <2>3, <4>1 DEF ReadCurrent, Due
    <3> QED BY <3>1, <3>2
  <2> QED BY <1>5, <2>2, <2>3 DEF TakeAskReply
<1>6. ASSUME NEW t \in Takes, MarkDelivered(t)
      PROVE  ttext'[u] = askText'[q] /\ texp'[u] >= Due(q)'
  <2>1. UNCHANGED <<askText, promise, crossed>>
    BY <1>6 DEF MarkDelivered
  <2>2. u # t /\ tpc[u] = "mark" /\ trid[u] = q /\ ttext'[u] = ttext[u] /\ texp'[u] = texp[u]
    BY <1>6 DEF MarkDelivered, TypeOK
  <2>3. texp[u] \in Nat /\ texp[u] >= Due(q) /\ ttext[u] = askText[q] /\ Due(q) \in Int
    BY <2>1, <2>2, DueInt DEF ReadCurrent, TypeOK
  <2>4. CASE first'[q] = first[q]
    BY <2>1, <2>2, <2>3, <2>4 DEF Due
  <2>5. CASE Mark(t)
    <3>1. CASE trid[t] = q
      <4>1. ttext[t] = askText[q]
        BY <1>6, <2>1, <3>1 DEF ReadCurrent, MarkDelivered
      <4>2. Taken(q, askText[q])
        BY <1>6, <2>5, <3>1, <4>1, MarkFacts
      <4>3. Due(q)' <= Due(q) /\ Due(q)' \in Int
        BY <2>1, <4>2, TakenFacts
      <4> QED BY <2>1, <2>2, <2>3, <4>3
    <3>2. CASE trid[t] # q
      BY <1>6, <2>4, <2>5, <3>2, MarkFacts DEF Taken, TypeOK
    <3> QED BY <3>1, <3>2
  <2> QED BY <1>6, <2>4, <2>5 DEF MarkDelivered
<1> QED BY <1>1, <1>2, <1>3, <1>4, <1>5, <1>6, Questions

LEMMA KeptStep == TypeOK /\ Kept /\ [Next]_vars => KeptLong'
<1> SUFFICES ASSUME TypeOK, FirstPast, ReadCurrent, KeptLong, [Next]_vars,
                    NEW q \in Rids, q \notin crossed', askText'[q] # 0
             PROVE  askExp'[q] >= Due(q)'
  BY DEF Kept, KeptLong
<1>t. /\ askExp[q] \in Nat /\ promise[q] \in Nat /\ first[q] \in Nat /\ now \in Nat
      /\ Due(q) \in Int
  BY DEF TypeOK, Due, Least
<1>1. CASE UNCHANGED <<askExp, askText, promise, first, crossed>>
  BY <1>1 DEF KeptLong, Due
<1>2. CASE Tick
  BY <1>1, <1>2 DEF Tick, asks, ghost
<1>3. ASSUME NEW r \in Rids, SweepAsk(r) \/ (RegisterAsk(r) /\ Register(r))
      PROVE  askExp'[q] >= Due(q)'
  <2>1. q # r /\ askText'[q] = askText[q] /\ askExp'[q] = askExp[q]
    BY <1>3 DEF SweepAsk, RegisterAsk, Register, TypeOK
  <2>2. UNCHANGED <<promise, first, crossed>>
    BY <1>3 DEF SweepAsk, RegisterAsk, ghost
  <2> QED BY <2>1, <2>2 DEF KeptLong, Due
<1>4. ASSUME NEW h \in Puts, AnswerAsk(h), Store(h) PROVE askExp'[q] >= Due(q)'
  <2>1. CASE q = arid[h]
    BY <1>4, <1>t, <2>1, StoreFacts DEF Due
  <2>2. CASE q # arid[h]
    BY <1>4, <2>2, StoreFacts DEF KeptLong, Due
  <2> QED BY <2>1, <2>2
<1>5. ASSUME NEW t \in Takes, NEW r \in Rids, TakeAskReply(t, r) PROVE askExp'[q] >= Due(q)'
  <2>1. UNCHANGED <<askExp, askText, promise, crossed>>
    BY <1>5 DEF TakeAskReply, asks
  <2>2. CASE first' = first
    BY <1>1, <2>1, <2>2
  <2>3. CASE Taken(r, askText[r])
    <3>1. Due(q)' <= Due(q) /\ Due(q)' \in Int
      BY <1>t, <2>1, <2>3, TakenFacts DEF Due, Least
    <3> QED BY <1>t, <2>1, <3>1 DEF KeptLong
  <2> QED BY <1>5, <2>2, <2>3 DEF TakeAskReply
<1>6. ASSUME NEW t \in Takes, MarkDelivered(t) PROVE askExp'[q] >= Due(q)'
  <2>1. UNCHANGED <<askText, promise, crossed>>
    BY <1>6 DEF MarkDelivered
  <2>2. CASE UNCHANGED <<askExp, first>>
    BY <1>1, <2>1, <2>2
  <2>3. CASE Mark(t)
    <3>1. CASE trid[t] = q
      <4>1. ttext[t] = askText[q] /\ texp[t] >= Due(q) /\ texp[t] \in Nat
        BY <1>6, <2>1, <3>1 DEF ReadCurrent, MarkDelivered, TypeOK
      <4>2. Due(q)' <= Due(q) /\ Due(q)' <= now + Grace /\ Due(q)' \in Int
        BY <1>6, <1>t, <2>1, <2>3, <3>1, <4>1, MarkFacts, TakenFacts DEF Due, Least
      <4>3. askExp'[q] = Least(texp[t], now + Grace)
        BY <1>6, <2>3, <3>1, MarkFacts DEF TypeOK
      <4> QED BY <1>t, <4>1, <4>2, <4>3 DEF Least
    <3>2. CASE trid[t] # q
      <4>1. askExp'[q] = askExp[q] /\ first'[q] = first[q]
        BY <1>6, <2>3, <3>2, MarkFacts DEF Taken, TypeOK
      <4> QED BY <2>1, <4>1 DEF KeptLong, Due
    <3> QED BY <3>1, <3>2
  <2> QED BY <1>6, <2>2, <2>3 DEF MarkDelivered
<1> QED BY <1>1, <1>2, <1>3, <1>4, <1>5, <1>6, Questions

\* An answer stays as long as was promised, and for DeliveredGrace once it was
\* taken, for any number of overlapping fetches and answers.
THEOREM AnswersKept == Spec => []AnswerKept
<1>1. Init => TypeOK /\ Kept
  BY TypeInit, KeptInit
<1>2. TypeOK /\ Kept /\ [Next]_vars => (TypeOK /\ Kept)'
  BY TypeStep, FirstStep, ReadStep, KeptStep DEF Kept
<1>3. Kept => AnswerKept
  BY DEF Kept, KeptLong, AnswerKept, Due
<1> QED BY <1>1, <1>2, <1>3, PTL DEF Spec

----------------------------------------------------------------------------
(* The bridge.                                                             *)

LEMMA AckedInit == Init => AckedSeen
  BY DEF Init, AckedSeen

\* What a step does to the box and to the bridge.
LEMMA Boxes ==
  ASSUME TypeOK, [Next]_vars
  PROVE  \/ UNCHANGED <<boxExp, boxText, pulled, acking, seen, rewritten>>
         \/ Pull \/ Ack
         \/ \E r \in Rids : SweepAnswer(r) \/ AckOne(r)
         \/ \E h \in Puts : Put(h) /\ Leave(h)
<1>0. CASE UNCHANGED vars \/ Tick
  BY <1>0 DEF vars, Tick, box, bridge, ghost
<1>1. ASSUME NEW r \in Rids, SweepAsk(r) \/ RegisterAsk(r) \/ Webhook(r)
      PROVE  UNCHANGED <<boxExp, boxText, pulled, acking, seen, rewritten>>
  BY <1>1 DEF SweepAsk, RegisterAsk, Webhook, box, bridge, ghost
<1>2. ASSUME NEW h \in Puts, (\E r \in Rids : PutAnswer(h, r)) \/ AnswerAsk(h)
      PROVE  UNCHANGED <<boxExp, boxText, pulled, acking, seen, rewritten>>
  BY <1>2 DEF PutAnswer, AnswerAsk, box, bridge, ghost
<1>3. ASSUME NEW h \in Puts, Put(h)
      PROVE  \/ UNCHANGED <<boxExp, boxText, pulled, acking, seen, rewritten>>
             \/ Leave(h)
  BY <1>3 DEF Put, box, bridge
<1>4. ASSUME NEW t \in Takes, (\E r \in Rids : TakeAskReply(t, r)) \/ MarkDelivered(t)
      PROVE  UNCHANGED <<boxExp, boxText, pulled, acking, seen, rewritten>>
  BY <1>4 DEF TakeAskReply, MarkDelivered, box, bridge
<1> QED BY <1>0, <1>1, <1>2, <1>3, <1>4 DEF Next

LEMMA AckedStep == TypeOK /\ AckedSeen /\ [Next]_vars => AckedSeen'
<1> SUFFICES ASSUME TypeOK, AckedSeen, [Next]_vars,
                    NEW q \in pulled' \cup acking', boxExp'[q] # 0
             PROVE  boxText'[q] \in seen'[q] \/ q \in rewritten'
  BY DEF AckedSeen
<1>1. CASE UNCHANGED <<boxExp, boxText, pulled, acking, seen, rewritten>>
  BY <1>1 DEF AckedSeen
<1>2. CASE Pull
  <2> PICK S \in SUBSET Rids :
        /\ pulled' = S
        /\ seen' = [r \in Rids |-> IF r \in S THEN seen[r] \cup {boxText[r]} ELSE seen[r]]
    BY <1>2 DEF Pull
  <2>1. boxText' = boxText /\ q \in S
    BY <1>2 DEF Pull, box
  <2> QED BY <2>1
<1>3. CASE Ack
  BY <1>3 DEF Ack, AckedSeen, box, ghost
<1>4. ASSUME NEW r \in Rids, SweepAnswer(r) \/ AckOne(r)
      PROVE  boxText'[q] \in seen'[q] \/ q \in rewritten'
  <2>1. q \in pulled \cup acking /\ q \in Rids /\ UNCHANGED <<seen, rewritten>>
    BY <1>4 DEF SweepAnswer, AckOne, bridge, ghost, TypeOK
  <2>2. boxExp[q] # 0 /\ boxText'[q] = boxText[q]
    <3>1. CASE DeleteAnswer(r)
      BY <2>1, <3>1 DEF DeleteAnswer, TypeOK
    <3>2. CASE UNCHANGED box
      BY <3>2 DEF box
    <3> QED BY <1>4, <3>1, <3>2 DEF SweepAnswer, AckOne
  <2> QED BY <2>1, <2>2 DEF AckedSeen
<1>5. ASSUME NEW h \in Puts, Put(h), Leave(h)
      PROVE  boxText'[q] \in seen'[q] \/ q \in rewritten'
  <2>1. arid[h] \in Rids /\ UNCHANGED <<pulled, acking, seen>>
    BY <1>5 DEF Put, bridge, TypeOK
  <2>2. q \in Rids
    BY <2>1 DEF TypeOK
  <2>3. CASE q = arid[h]
    BY <1>5, <2>1, <2>3 DEF Leave
  <2>4. CASE q # arid[h]
    <3>1. boxExp'[q] = boxExp[q] /\ boxText'[q] = boxText[q] /\ rewritten \subseteq rewritten'
      BY <1>5, <2>1, <2>2, <2>4 DEF Leave, TypeOK
    <3> QED BY <2>1, <3>1 DEF AckedSeen
  <2> QED BY <2>3, <2>4
<1> QED BY <1>1, <1>2, <1>3, <1>4, <1>5, Boxes

\* The bridge deletes only what it has fetched, whatever is put, fails or is
\* cut off between its two requests.
THEOREM BridgeDeletesSeen == Spec => BridgeLosesNothing
<1>1. TypeOK /\ AckedSeen /\ [Next]_vars =>
        [\A r \in Rids :
           (boxExp[r] > now /\ boxExp'[r] = 0) => boxText[r] \in seen[r] \/ r \in rewritten]_vars
  <2> SUFFICES ASSUME TypeOK, AckedSeen, [Next]_vars,
                      NEW q \in Rids, boxExp[q] > now, boxExp'[q] = 0
               PROVE  boxText[q] \in seen[q] \/ q \in rewritten
    OBVIOUS
  <2>1. boxExp[q] \in Nat /\ now \in Nat /\ boxExp[q] # 0
    BY DEF TypeOK
  <2>2. boxExp'[q] # boxExp[q]
    BY <2>1
  <2>3. CASE Pull \/ Ack
    BY <2>2, <2>3 DEF Pull, Ack, box
  <2>4. ASSUME NEW r \in Rids, SweepAnswer(r) PROVE FALSE
    BY <2>1, <2>2, <2>4 DEF SweepAnswer, DeleteAnswer, TypeOK
  <2>5. ASSUME NEW r \in Rids, AckOne(r) PROVE q \in acking
    BY <2>2, <2>5 DEF AckOne, DeleteAnswer, box, TypeOK
  <2>6. ASSUME NEW h \in Puts, Put(h), Leave(h) PROVE FALSE
    <3>1. arid[h] \in Rids /\ now + TTL # 0
      BY <2>1, <2>6 DEF Put, TypeOK
    <3> QED BY <2>2, <2>6, <3>1 DEF Leave, TypeOK
  <2> QED BY <2>1, <2>2, <2>3, <2>4, <2>5, <2>6, Boxes DEF AckedSeen
<1> QED BY TypeInit, TypeStep, AckedInit, AckedStep, <1>1, PTL DEF Spec, BridgeLosesNothing
=============================================================================
