---------------------------- MODULE ViewerProofs ----------------------------
(***************************************************************************)
(* For all times, sizes and any number of inputs: input is sent in the     *)
(* order it was given and never before the handshake of its line, and the  *)
(* room it took is given back.  For every geometry: facts about the scroll *)
(* computation of the same page.                                           *)
(***************************************************************************)
EXTENDS Viewer, Scroll, DataLemmas, SequenceTheorems

\* Sequences of numbers and inputs, whatever the bounds of a run.
Seqs ==
  /\ accepted \in Seq(Nat) /\ delivered \in Seq(Nat)
  /\ inputQ \in Seq([id : Nat, size : Nat])

\* Input is only kept in order because an open line has nothing waiting.
OpenMeansFlushed == ws = "open" => inputQ = <<>>

OrderInv == Seqs /\ OpenMeansFlushed /\ InputInOrder

Message == [kind : {"HELLO_V2", "RESIZE", "input"}, id : Nat]

InputFrom3(l) == \A i \in 3..Len(l) : l[i].kind = "input"

Greeted(l) == Len(l) >= 2 /\ l[1] = Hello[1] /\ l[2] = Hello[2]

\* HelloFirst, an element at a time; closing a line adds nothing to its log.
LogInv ==
  /\ log \in Seq(Message)
  /\ ws = "connecting" => log = <<>>
  /\ ws = "open" => Greeted(log)
  /\ InputFrom3(log)

Inv == OrderInv /\ LogInv

-----------------------------------------------------------------------------
(* Sequences *)

LEMMA IdsType ==
  ASSUME NEW q \in Seq([id : Nat, size : Nat])
  PROVE  Ids(q) \in Seq(Nat) /\ Len(Ids(q)) = Len(q)
<1>1. q \in [1..Len(q) -> [id : Nat, size : Nat]] /\ Len(q) \in Nat
  BY LenProperties
<1>2. \A i \in 1..Len(q) : q[i].id \in Nat BY <1>1
<1>3. Ids(q) \in [1..Len(q) -> Nat] BY <1>2 DEF Ids
<1>4. Ids(q) \in Seq(Nat)
  <2>1. Ids(q) \in UNION {[1..n -> Nat] : n \in Nat} BY <1>1, <1>3
  <2> QED BY <2>1, SeqDef, Zenon
<1>5. Len(Ids(q)) = Len(q)
  <2>1. DOMAIN Ids(q) = 1..Len(q) BY DEF Ids
  <2>2. Len(Ids(q)) \in Nat /\ DOMAIN Ids(q) = 1..Len(Ids(q))
    BY <1>4, LenProperties
  <2> QED BY <1>1, <2>1, <2>2
<1> QED BY <1>4, <1>5

LEMMA IdsAppend ==
  ASSUME NEW q \in Seq([id : Nat, size : Nat]), NEW b \in [id : Nat, size : Nat]
  PROVE  Ids(Append(q, b)) = Append(Ids(q), b.id)
<1>1. Append(q, b) \in Seq([id : Nat, size : Nat]) /\ Len(Append(q, b)) = Len(q) + 1
      /\ Len(q) \in Nat
  BY AppendProperties
<1>2. Ids(q) \in Seq(Nat) /\ Len(Ids(q)) = Len(q) BY IdsType
<1>3. Ids(Append(q, b)) \in Seq(Nat) /\ Len(Ids(Append(q, b))) = Len(q) + 1
  BY <1>1, IdsType
<1>4. Append(Ids(q), b.id) \in Seq(Nat) /\ Len(Append(Ids(q), b.id)) = Len(q) + 1
  BY <1>2, AppendProperties
<1>5. ASSUME NEW i \in 1..(Len(q) + 1)
      PROVE  Ids(Append(q, b))[i] = Append(Ids(q), b.id)[i]
  <2>1. Ids(Append(q, b))[i] = Append(q, b)[i].id BY <1>1 DEF Ids
  <2>2. CASE i \in 1..Len(q)
    <3>1. Append(q, b)[i] = q[i] BY <2>2, AppendProperties
    <3>2. Append(Ids(q), b.id)[i] = Ids(q)[i] BY <1>2, <2>2, AppendProperties
    <3>3. Ids(q)[i] = q[i].id BY <2>2 DEF Ids
    <3> QED BY <2>1, <3>1, <3>2, <3>3
  <2>3. CASE i = Len(q) + 1
    <3>1. Append(q, b)[i] = b BY <2>3, AppendProperties
    <3>2. Append(Ids(q), b.id)[i] = b.id BY <1>2, <2>3, AppendProperties
    <3> QED BY <2>1, <3>1, <3>2
  <2>4. i \in 1..Len(q) \/ i = Len(q) + 1 BY <1>1
  <2> QED BY <2>2, <2>3, <2>4
<1> QED BY <1>3, <1>4, <1>5, SeqEqual

\* Accepting an input while others wait keeps the order.
LEMMA ConcatAppend ==
  ASSUME NEW s \in Seq(Nat), NEW t \in Seq(Nat), NEW n \in Nat
  PROVE  Append(s \o t, n) = s \o Append(t, n)
<1>1. <<n>> \in Seq(Nat) OBVIOUS
<1>2. Append(s \o t, n) = (s \o t) \o <<n>> BY ConcatProperties, AppendIsConcat
<1>3. Append(t, n) = t \o <<n>> BY AppendIsConcat
<1>4. (s \o t) \o <<n>> = s \o (t \o <<n>>) BY <1>1, ConcatAssociative
<1> QED BY <1>2, <1>3, <1>4

LEMMA EmptyIds == Ids(<<>>) = <<>>
BY DEF Ids

-----------------------------------------------------------------------------
(* The order of the input *)

\* What no step but those of the input and of onopen touches.
LEMMA OrderFrame ==
  ASSUME OrderInv, UNCHANGED <<accepted, delivered, inputQ>>,
         ws' = "open" => ws = "open"
  PROVE  OrderInv'
BY DEF OrderInv, Seqs, OpenMeansFlushed, InputInOrder

\* Asking for the line never opens it at once.
LEMMA RequestOrder ==
  ASSUME requestConnect
  PROVE  ws' = "open" => ws = "open"
BY DEF requestConnect, connect

\* What waits goes out in its order.
LEMMA FlushOrder ==
  ASSUME OrderInv, accepted' = accepted, delivered' = delivered \o Ids(inputQ),
         inputQ' = <<>>
  PROVE  OrderInv'
<1>1. /\ accepted \in Seq(Nat) /\ delivered \in Seq(Nat)
      /\ Ids(inputQ) \in Seq(Nat) /\ accepted = delivered \o Ids(inputQ)
  BY IdsType DEF OrderInv, Seqs, InputInOrder
<1>2. delivered \o Ids(inputQ) \in Seq(Nat) BY <1>1, ConcatProperties
<1>3. delivered' \o <<>> = delivered' BY <1>2, ConcatEmptySeq
<1>4. InputInOrder' BY <1>1, <1>3, EmptyIds DEF InputInOrder
<1>5. Seqs' BY <1>1, <1>2, EmptySeq DEF Seqs
<1> QED BY <1>4, <1>5 DEF OrderInv, OpenMeansFlushed

\* An input is sent, waits or is refused.
LEMMA SendOrder ==
  ASSUME OrderInv, NEW b \in [id : Nat, size : Nat], sendBytes(b)
  PROVE  OrderInv'
<1>1. /\ accepted \in Seq(Nat) /\ delivered \in Seq(Nat)
      /\ inputQ \in Seq([id : Nat, size : Nat]) /\ Ids(inputQ) \in Seq(Nat)
      /\ accepted = delivered \o Ids(inputQ) /\ b.id \in Nat
  BY IdsType DEF OrderInv, Seqs, InputInOrder
<1>2. CASE /\ ws = "open" /\ ws' = ws
           /\ accepted' = Append(accepted, b.id)
           /\ delivered' = Append(delivered, b.id) /\ inputQ' = inputQ
  <2>1. inputQ = <<>> BY <1>2 DEF OrderInv, OpenMeansFlushed
  <2>2. accepted = delivered BY <1>1, <2>1, EmptyIds, ConcatEmptySeq
  <2>3. Append(delivered, b.id) \in Seq(Nat) BY <1>1, AppendProperties
  <2>4. Append(delivered, b.id) \o <<>> = Append(delivered, b.id)
    BY <2>3, ConcatEmptySeq
  <2>5. InputInOrder' BY <1>2, <2>1, <2>2, <2>4, EmptyIds DEF InputInOrder
  <2>6. Seqs' BY <1>1, <1>2, <2>2, <2>3 DEF Seqs
  <2> QED BY <1>2, <2>1, <2>5, <2>6 DEF OrderInv, OpenMeansFlushed
<1>3. CASE UNCHANGED <<ws, accepted, delivered, inputQ>>
  BY <1>3, OrderFrame
<1>4. CASE /\ ws # "open" /\ requestConnect
           /\ accepted' = Append(accepted, b.id)
           /\ inputQ' = Append(inputQ, b) /\ delivered' = delivered
  <2>1. Ids(Append(inputQ, b)) = Append(Ids(inputQ), b.id) BY <1>1, IdsAppend
  <2>2. Append(delivered \o Ids(inputQ), b.id) = delivered \o Append(Ids(inputQ), b.id)
    BY <1>1, ConcatAppend
  <2>3. InputInOrder' BY <1>1, <1>4, <2>1, <2>2 DEF InputInOrder
  <2>4. Append(accepted, b.id) \in Seq(Nat) BY <1>1, AppendProperties
  <2>5. Append(inputQ, b) \in Seq([id : Nat, size : Nat]) BY <1>1, AppendProperties
  <2>6. Seqs' BY <1>1, <1>4, <2>4, <2>5 DEF Seqs
  <2>7. ws' # "open" BY <1>4, RequestOrder
  <2> QED BY <2>3, <2>6, <2>7 DEF OrderInv, OpenMeansFlushed
<1> QED BY <1>2, <1>3, <1>4 DEF sendBytes, queue

\* The inputs of a run are numbered, and their sizes are numbers.
LEMMA InputType ==
  ASSUME OrderInv, NEW size \in Nat
  PROVE  Input(next, size) \in [id : Nat, size : Nat]
<1>1. Len(accepted) \in Nat BY LenProperties DEF OrderInv, Seqs
<1> QED BY <1>1 DEF Input, next

LEMMA NextOrder == OrderInv /\ [Next]_vars => OrderInv'
<1> SUFFICES ASSUME OrderInv, [Next]_vars PROVE OrderInv' OBVIOUS
<1>1. CASE onopen
  BY <1>1, FlushOrder DEF onopen, flushQ
<1>2. CASE Closing \/ onclose \/ oncloseStale
  <2>1. UNCHANGED <<accepted, delivered, inputQ>> /\ (ws' = "open" => ws = "open")
    BY <1>2 DEF Closing, onclose, oncloseStale, queue
  <2> QED BY <2>1, OrderFrame
<1>3. CASE onData
  <2>1. sendBytes(Input(next, 1)) BY <1>3 DEF onData
  <2> QED BY <2>1, InputType, SendOrder
<1>4. CASE sendImageBlob
  <2>1. CASE sendBytes(Input(next, Big))
    <3>1. Big \in Nat BY ViewerAssumption
    <3> QED BY <2>1, <3>1, InputType, SendOrder
  <2>2. CASE UNCHANGED <<ws, queue>>
    BY <2>2, OrderFrame DEF queue
  <2> QED BY <1>4, <2>1, <2>2 DEF sendImageBlob
<1>5. CASE pickImage \/ Tick \/ UNCHANGED vars
  <2>1. UNCHANGED <<accepted, delivered, inputQ, ws>>
    BY <1>5 DEF pickImage, Tick, vars, queue
  <2> QED BY <2>1, OrderFrame
<1>6. CASE onSnapshot \/ visibilitychange \/ watchFires \/ retryFires
  <2>1. UNCHANGED <<accepted, delivered, inputQ>>
    BY <1>6 DEF onSnapshot, visibilitychange, watchFires, retryFires, queue
  <2>2. requestConnect \/ ws' = ws
    BY <1>6 DEF onSnapshot, visibilitychange, watchFires, retryFires
  <2> QED BY <2>1, <2>2, RequestOrder, OrderFrame
<1> QED BY <1>1, <1>2, <1>3, <1>4, <1>5, <1>6 DEF Next

LEMMA InitOrder == Init => OrderInv
<1> SUFFICES ASSUME Init PROVE OrderInv OBVIOUS
<1>1. accepted = <<>> /\ delivered = <<>> /\ inputQ = <<>> BY DEF Init
<1>2. \A S : <<>> \in Seq(S) BY EmptySeq
<1>3. <<>> = <<>> \o Ids(<<>>)
  <2>1. <<>> \in Seq(Nat) BY <1>2
  <2> QED BY <2>1, EmptyIds, ConcatEmptySeq
<1> QED BY <1>1, <1>2, <1>3 DEF OrderInv, Seqs, OpenMeansFlushed, InputInOrder

\* Whatever is typed while the line comes and goes is sent in the order it was
\* typed, each input once, or still waits.
THEOREM InputStaysInOrder == Spec => []InputInOrder
<1>1. OrderInv => InputInOrder BY DEF OrderInv
<1> QED BY <1>1, InitOrder, NextOrder, PTL DEF Spec

-----------------------------------------------------------------------------
(* The handshake *)

LEMMA HelloType == Hello \in Seq(Message) /\ Len(Hello) = 2
BY DEF Hello, HelloV2, Resize, Message

LEMMA LogHello == LogInv => HelloFirst
<1> SUFFICES ASSUME LogInv PROVE HelloFirst OBVIOUS
<1>1. ASSUME ws = "open" PROVE SubSeq(log, 1, 2) = Hello
  <2>1. log \in Seq(Message) /\ Len(log) \in Nat /\ Len(log) >= 2
        /\ log[1] = Hello[1] /\ log[2] = Hello[2]
    BY <1>1 DEF LogInv, Greeted
  <2>2. log[1] \in Message /\ log[2] \in Message BY <2>1, HelloType
  <2>3. \A i \in 1..2 : log[i] \in Message
    <3>1. 1..2 = {1, 2} OBVIOUS
    <3> QED BY <2>2, <3>1
  <2>4. /\ SubSeq(log, 1, 2) \in Seq(Message) /\ Len(SubSeq(log, 1, 2)) = 2
        /\ SubSeq(log, 1, 2)[1] = log[1] /\ SubSeq(log, 1, 2)[2] = log[2]
    BY <2>1, <2>3, SubSeqProperties
  <2>5. \A i \in 1..2 : SubSeq(log, 1, 2)[i] = Hello[i]
    <3>1. 1..2 = {1, 2} OBVIOUS
    <3> QED BY <2>1, <2>4, <3>1
  <2> QED BY <2>4, <2>5, HelloType, SeqEqual
<1> QED BY <1>1 DEF LogInv, HelloFirst, InputFrom3

\* A frame sent on an open line.
LEMMA AppendLog ==
  ASSUME LogInv, ws = "open", ws' = ws, NEW n \in Nat, log' = Append(log, Frame(n))
  PROVE  LogInv'
<1>1. log \in Seq(Message) /\ Len(log) \in Nat /\ Greeted(log) /\ InputFrom3(log)
  BY DEF LogInv
<1>2. Frame(n) \in Message /\ Frame(n).kind = "input" BY DEF Frame, Message
<1>3. /\ log' \in Seq(Message) /\ Len(log') = Len(log) + 1
      /\ \A i \in 1..Len(log) : log'[i] = log[i]
      /\ log'[Len(log) + 1] = Frame(n)
  BY <1>1, <1>2, AppendProperties
<1>4. Greeted(log') BY <1>1, <1>3 DEF Greeted
<1>5. InputFrom3(log')
  <2>1. ASSUME NEW i \in 3..Len(log') PROVE log'[i].kind = "input"
    <3>1. i \in 3..Len(log) \/ i = Len(log) + 1 BY <1>1, <1>3
    <3>2. CASE i \in 3..Len(log)
      <4>1. log'[i] = log[i] BY <1>1, <1>3, <3>2
      <4> QED BY <4>1, <1>1, <3>2 DEF InputFrom3
    <3> QED BY <3>1, <3>2, <1>2, <1>3
  <2> QED BY <2>1 DEF InputFrom3
<1> QED BY <1>3, <1>4, <1>5 DEF LogInv

\* The handshake and what waited behind it.
LEMMA FlushLog ==
  ASSUME OrderInv, flushQ, ws' = "open"
  PROVE  LogInv'
<1> DEFINE w == [i \in 1..Len(inputQ) |-> Frame(inputQ[i].id)]
<1>1. /\ Len(inputQ) \in Nat
      /\ \A i \in 1..Len(inputQ) : inputQ[i].id \in Nat
  <2>1. inputQ \in [1..Len(inputQ) -> [id : Nat, size : Nat]] /\ Len(inputQ) \in Nat
    BY LenProperties DEF OrderInv, Seqs
  <2> QED BY <2>1
<1>2. \A i \in 1..Len(inputQ) : w[i] \in Message /\ w[i].kind = "input"
  BY <1>1 DEF Frame, Message
<1>3. w \in Seq(Message)
  <2>1. w \in [1..Len(inputQ) -> Message] BY <1>2
  <2>2. w \in UNION {[1..n -> Message] : n \in Nat} BY <1>1, <2>1
  <2> QED BY <2>2, SeqDef, Zenon
<1>4. DOMAIN w = 1..Len(w) /\ DOMAIN w = 1..Len(inputQ) BY <1>3, LenProperties
<1> HIDE DEF w
<1>5. log' = Hello \o w BY DEF flushQ, w
<1>6. /\ log' \in Seq(Message) /\ Len(log') = 2 + Len(w) /\ Len(w) \in Nat
      /\ \A i \in 1..(2 + Len(w)) :
           log'[i] = IF i <= 2 THEN Hello[i] ELSE w[i - 2]
  <2> DEFINE h == Hello
  <2>1. h \in Seq(Message) /\ Len(h) = 2 /\ log' = h \o w BY <1>5, HelloType
  <2> HIDE DEF h
  <2>2. /\ h \o w \in Seq(Message) /\ Len(h \o w) = 2 + Len(w) /\ Len(w) \in Nat
        /\ \A i \in 1..(2 + Len(w)) :
             (h \o w)[i] = IF i <= 2 THEN h[i] ELSE w[i - 2]
    <3>1. Len(w) \in Nat BY <1>3, LenProperties
    <3>2. h \o w \in Seq(Message) /\ Len(h \o w) = Len(h) + Len(w)
      BY <1>3, <2>1, ConcatProperties, Zenon
    <3>3. \A i \in 1..(Len(h) + Len(w)) :
            (h \o w)[i] = IF i <= Len(h) THEN h[i] ELSE w[i - Len(h)]
      BY <1>3, <2>1, ConcatProperties, Zenon
    <3> QED BY <2>1, <3>1, <3>2, <3>3
  <2> QED BY <2>1, <2>2 DEF h
<1>7. Greeted(log') BY <1>6 DEF Greeted
<1>8. InputFrom3(log')
  <2>1. ASSUME NEW i \in 3..Len(log') PROVE log'[i].kind = "input"
    <3>1. log'[i] = w[i - 2] /\ i - 2 \in 1..Len(w) BY <1>6
    <3>2. i - 2 \in 1..Len(inputQ) BY <1>4, <3>1
    <3> QED BY <3>1, <3>2, <1>2
  <2> QED BY <2>1 DEF InputFrom3
<1> QED BY <1>6, <1>7, <1>8 DEF LogInv

\* A new socket has nothing on it yet.
LEMMA ConnectLog ==
  ASSUME log' = <<>>, ws' = "connecting"
  PROVE  LogInv'
<1>1. <<>> \in Seq(Message) /\ Len(<<>>) = 0 BY EmptySeq
<1> QED BY <1>1 DEF LogInv, InputFrom3

\* Nothing is sent, and the line is not opened.
LEMMA LogFrame ==
  ASSUME LogInv, log' = log, ws' \in {"open", "connecting"} => ws' = ws
  PROVE  LogInv'
BY DEF LogInv

LEMMA RequestLog ==
  ASSUME LogInv, requestConnect
  PROVE  LogInv'
<1>1. (log' = <<>> /\ ws' = "connecting") \/ (log' = log /\ ws' = ws)
  BY DEF requestConnect, connect
<1> QED BY <1>1, ConnectLog, LogFrame

LEMMA SendLog ==
  ASSUME LogInv, NEW b \in [id : Nat, size : Nat], sendBytes(b)
  PROVE  LogInv'
<1>1. CASE ws = "open" /\ ws' = ws /\ log' = Append(log, Frame(b.id))
  BY <1>1, AppendLog
<1>2. CASE UNCHANGED <<ws, log>> BY <1>2, LogFrame
<1>3. CASE requestConnect BY <1>3, RequestLog
<1> QED BY <1>1, <1>2, <1>3 DEF sendBytes

LEMMA NextLog == OrderInv /\ LogInv /\ [Next]_vars => LogInv'
<1> SUFFICES ASSUME OrderInv, LogInv, [Next]_vars PROVE LogInv' OBVIOUS
<1>1. CASE onopen
  BY <1>1, FlushLog DEF onopen
<1>2. CASE Closing \/ onclose \/ oncloseStale
  <2>1. log' = log /\ (ws' \in {"open", "connecting"} => ws' = ws)
    BY <1>2 DEF Closing, onclose, oncloseStale
  <2> QED BY <2>1, LogFrame
<1>3. CASE onData
  <2>1. sendBytes(Input(next, 1)) BY <1>3 DEF onData
  <2> QED BY <2>1, InputType, SendLog
<1>4. CASE sendImageBlob
  <2>1. CASE sendBytes(Input(next, Big))
    <3>1. Big \in Nat BY ViewerAssumption
    <3> QED BY <2>1, <3>1, InputType, SendLog
  <2>2. CASE UNCHANGED <<ws, log>>
    BY <2>2, LogFrame
  <2> QED BY <1>4, <2>1, <2>2 DEF sendImageBlob
<1>5. CASE pickImage \/ Tick \/ UNCHANGED vars
  <2>1. UNCHANGED <<ws, log>> BY <1>5 DEF pickImage, Tick, vars
  <2> QED BY <2>1, LogFrame
<1>6. CASE onSnapshot \/ visibilitychange \/ watchFires \/ retryFires
  <2>1. requestConnect \/ UNCHANGED <<ws, log>>
    BY <1>6 DEF onSnapshot, visibilitychange, watchFires, retryFires
  <2> QED BY <2>1, RequestLog, LogFrame
<1> QED BY <1>1, <1>2, <1>3, <1>4, <1>5, <1>6 DEF Next

LEMMA InitLog == Init => LogInv
<1> SUFFICES ASSUME Init PROVE LogInv OBVIOUS
<1>1. log = <<>> /\ ws = "connecting" BY DEF Init
<1>2. <<>> \in Seq(Message) /\ Len(<<>>) = 0 BY EmptySeq
<1> QED BY <1>1, <1>2 DEF LogInv, InputFrom3

\* No input is sent before the handshake of its line.
THEOREM HandshakeComesFirst == Spec => []HelloFirst
<1>1. Init => Inv BY InitOrder, InitLog DEF Inv
<1>2. Inv /\ [Next]_vars => Inv' BY NextOrder, NextLog DEF Inv
<1>3. Inv => HelloFirst BY LogHello DEF Inv
<1> QED BY <1>1, <1>2, <1>3, PTL DEF Spec

-----------------------------------------------------------------------------
(* The room that waiting input takes *)

\* The recursion that defines Total is one: there are partial sums, and the
\* last of them is the total.
LEMMA PartialSums ==
  ASSUME NEW q \in Seq([id : Nat, size : Nat])
  PROVE  \E f \in [0..Len(q) -> Nat] :
           /\ f[0] = 0 /\ \A i \in 1..Len(q) : f[i] = f[i - 1] + q[i].size
           /\ Total(q) = f[Len(q)]
<1> DEFINE n == Len(q)
           step == [i \in 1..n |-> [x \in Nat |-> x + q[i].size]]
           IsSum(f) == f = [k \in 0..n |-> IF k = 0 THEN 0 ELSE f[k - 1] + q[k].size]
<1>1. n \in Nat /\ \A i \in 1..n : q[i].size \in Nat
  <2>1. q \in [1..n -> [id : Nat, size : Nat]] /\ n \in Nat BY LenProperties
  <2> QED BY <2>1
<1>2. step \in [1..n -> [Nat -> Nat]] BY <1>1
<1>3. PICK f \in [0..n -> Nat] : Goes(f, n, 0, step)
  <2> HIDE DEF n, step
  <2>1. 0 \in Nat OBVIOUS
  <2> QED BY <1>1, <1>2, <2>1, Recursion
<1>4. \A i \in 1..n : f[i] = f[i - 1] + q[i].size
  <2>1. \A i \in 1..n : f[i - 1] \in Nat BY <1>1
  <2> QED BY <1>3, <2>1 DEF Goes
<1>5. IsSum(f)
  <2> DEFINE g == [k \in 0..n |-> IF k = 0 THEN 0 ELSE f[k - 1] + q[k].size]
  <2>1. \A k \in 0..n : f[k] = g[k]
    <3>1. ASSUME NEW k \in 0..n PROVE f[k] = g[k]
      <4>1. CASE k = 0 BY <4>1, <1>3 DEF Goes
      <4>2. CASE k # 0
        <5>1. k \in 1..n BY <4>2, <1>1
        <5> QED BY <5>1, <4>2, <1>4
      <4> QED BY <4>1, <4>2
    <3> QED BY <3>1
  <2>2. DOMAIN f = DOMAIN g OBVIOUS
  <2> QED BY <2>1, <2>2
<1>6. Total(q) = (CHOOSE h : IsSum(h))[n] BY Zenon DEF Total
<1>7. IsSum(CHOOSE h : IsSum(h))
  <2> HIDE DEF IsSum
  <2> QED BY <1>5
<1> DEFINE s == CHOOSE h : IsSum(h)
<1>8. s = [k \in 0..n |-> IF k = 0 THEN 0 ELSE s[k - 1] + q[k].size] BY <1>7
<1> HIDE DEF s
<1>9. s[0] = 0 /\ \A i \in 1..n : s[i] = s[i - 1] + q[i].size
  <2>1. 0 \in 0..n /\ \A i \in 1..n : i \in 0..n /\ i # 0 BY <1>1
  <2>2. \A k \in 0..n : s[k] = IF k = 0 THEN 0 ELSE s[k - 1] + q[k].size BY <1>8
  <2> QED BY <2>1, <2>2
<1>10. \A i \in 0..n : f[i] = s[i]
  <2> DEFINE T == {i \in 0..n : f[i] = s[i]}
  <2>1. 0 \in T BY <1>1, <1>3, <1>9 DEF Goes
  <2>2. \A k \in 1..n : k - 1 \in T => k \in T BY <1>4, <1>9
  <2> HIDE DEF T, n
  <2>3. \A k \in 0..n : k \in T BY <1>1, <2>1, <2>2, UpTo
  <2> QED BY <2>3 DEF T
<1>11. Total(q) = f[n] BY <1>1, <1>6, <1>10 DEF s
<1> QED BY <1>3, <1>4, <1>11 DEF Goes

LEMMA TotalEmpty == Total(<<>>) = 0
<1>1. <<>> \in Seq([id : Nat, size : Nat]) /\ Len(<<>>) = 0 BY EmptySeq
<1> QED BY <1>1, PartialSums

LEMMA TotalAppend ==
  ASSUME NEW q \in Seq([id : Nat, size : Nat]), NEW b \in [id : Nat, size : Nat]
  PROVE  Total(q) \in Nat /\ Total(Append(q, b)) = Total(q) + b.size
<1> DEFINE n == Len(q)
           r == Append(q, b)
<1>1. /\ n \in Nat /\ r \in Seq([id : Nat, size : Nat]) /\ Len(r) = n + 1
      /\ \A i \in 1..n : r[i] = q[i]
      /\ r[n + 1] = b
  BY AppendProperties
<1>2. PICK f \in [0..n -> Nat] :
        /\ f[0] = 0 /\ \A i \in 1..n : f[i] = f[i - 1] + q[i].size
        /\ Total(q) = f[n]
  BY PartialSums
<1> HIDE DEF r
<1>3. PICK g \in [0..(n + 1) -> Nat] :
        /\ g[0] = 0 /\ \A i \in 1..(n + 1) : g[i] = g[i - 1] + r[i].size
        /\ Total(r) = g[n + 1]
  BY <1>1, PartialSums
<1>4. \A i \in 0..n : f[i] = g[i]
  <2> DEFINE T == {i \in 0..n : f[i] = g[i]}
  <2>1. 0 \in T BY <1>1, <1>2, <1>3
  <2>2. ASSUME NEW k \in 1..n, k - 1 \in T PROVE k \in T
    <3>1. k \in 1..(n + 1) /\ k \in 0..n BY <1>1
    <3>2. f[k] = f[k - 1] + q[k].size /\ g[k] = g[k - 1] + q[k].size
      BY <1>1, <1>2, <1>3, <3>1
    <3> QED BY <2>2, <3>1, <3>2
  <2> HIDE DEF T, n
  <2>3. \A k \in 0..n : k \in T BY <1>1, <2>1, <2>2, UpTo
  <2> QED BY <2>3 DEF T
<1>5. g[n + 1] = g[n] + b.size
  <2>1. n + 1 \in 1..(n + 1) /\ (n + 1) - 1 = n BY <1>1
  <2> QED BY <1>1, <1>3, <2>1
<1> QED BY <1>1, <1>2, <1>3, <1>4, <1>5 DEF r

RoomInv == OrderInv /\ RoomGivenBack

\* The room is taken when input waits and given back when it is sent.
LEMMA SendRoom ==
  ASSUME RoomInv, NEW b \in [id : Nat, size : Nat], sendBytes(b)
  PROVE  RoomGivenBack'
<1>1. inputQ \in Seq([id : Nat, size : Nat]) /\ inputQBytes = Total(inputQ)
  BY DEF RoomInv, OrderInv, Seqs, RoomGivenBack
<1>2. CASE UNCHANGED <<inputQ, inputQBytes>>
  BY <1>1, <1>2 DEF RoomGivenBack
<1>3. CASE inputQ' = Append(inputQ, b) /\ inputQBytes' = inputQBytes + b.size
  <2>1. Total(Append(inputQ, b)) = Total(inputQ) + b.size BY <1>1, TotalAppend
  <2> QED BY <1>1, <1>3, <2>1 DEF RoomGivenBack
<1> QED BY <1>2, <1>3 DEF sendBytes, queue

LEMMA FlushRoom ==
  ASSUME RoomInv, flushQ
  PROVE  RoomGivenBack' /\ inputQBytes' = 0
<1>1. inputQ \in Seq([id : Nat, size : Nat]) /\ inputQBytes = Total(inputQ)
  BY DEF RoomInv, OrderInv, Seqs, RoomGivenBack
<1>2. Total(inputQ) \in Nat BY <1>1, PartialSums, LenProperties
<1>3. inputQ' = <<>> /\ inputQBytes' = 0 BY <1>1, <1>2 DEF flushQ
<1> QED BY <1>3, TotalEmpty DEF RoomGivenBack

LEMMA NextRoom == RoomInv /\ [Next]_vars => RoomGivenBack'
<1> SUFFICES ASSUME RoomInv, [Next]_vars PROVE RoomGivenBack' OBVIOUS
<1>0. OrderInv /\ RoomGivenBack BY DEF RoomInv
<1>a. ASSUME UNCHANGED <<inputQ, inputQBytes>> PROVE RoomGivenBack'
  BY <1>0, <1>a DEF RoomGivenBack
<1>1. CASE onopen
  BY <1>1, FlushRoom DEF onopen
<1>2. CASE onData
  <2>1. sendBytes(Input(next, 1)) BY <1>2 DEF onData
  <2> QED BY <1>0, <2>1, InputType, SendRoom
<1>3. CASE sendImageBlob
  <2>1. CASE sendBytes(Input(next, Big))
    <3>1. Big \in Nat BY ViewerAssumption
    <3> QED BY <1>0, <2>1, <3>1, InputType, SendRoom
  <2>2. CASE UNCHANGED queue
    BY <2>2, <1>a DEF queue
  <2> QED BY <1>3, <2>1, <2>2 DEF sendImageBlob
<1>4. CASE Closing \/ onclose \/ oncloseStale \/ pickImage
  BY <1>4, <1>a DEF Closing, onclose, oncloseStale, pickImage, queue
<1>5. CASE onSnapshot \/ visibilitychange \/ watchFires \/ retryFires
  BY <1>5, <1>a DEF onSnapshot, visibilitychange, watchFires, retryFires, queue
<1>6. CASE Tick \/ UNCHANGED vars
  BY <1>6, <1>a DEF Tick, vars, queue
<1> QED BY <1>1, <1>2, <1>3, <1>4, <1>5, <1>6 DEF Next

LEMMA InitRoom == Init => RoomGivenBack
BY TotalEmpty DEF Init, RoomGivenBack

\* The limit on unsent input never shuts input out for room that nothing takes.
THEOREM RoomIsGivenBack == Spec => []RoomGivenBack
<1>1. Init => RoomInv BY InitOrder, InitRoom DEF RoomInv
<1>2. RoomInv /\ [Next]_vars => RoomInv' BY NextOrder, NextRoom DEF RoomInv
<1>3. RoomInv => RoomGivenBack BY DEF RoomInv
<1> QED BY <1>1, <1>2, <1>3, PTL DEF Spec

-----------------------------------------------------------------------------
(* Types *)

\* The backoff is defined, and reaches its longest.
LEMMA DoubledType ==
  /\ \A n \in 0..Cap : Doubled[n] \in Nat
  /\ Doubled[0] = Base
  /\ \A n \in 1..Cap : Doubled[n] = 2 * Doubled[n - 1]
<1> DEFINE step == [i \in 1..Cap |-> [x \in Nat |-> 2 * x]]
           IsIt(f) == f = [n \in 0..Cap |-> IF n = 0 THEN Base ELSE 2 * f[n - 1]]
<1>1. Cap \in Nat /\ Base \in Nat BY ViewerAssumption
<1>2. step \in [1..Cap -> [Nat -> Nat]] BY <1>1
<1>3. PICK f \in [0..Cap -> Nat] : Goes(f, Cap, Base, step)
  <2> HIDE DEF step
  <2> QED BY <1>1, <1>2, Recursion
<1>4. \A i \in 1..Cap : f[i - 1] \in Nat /\ f[i] = 2 * f[i - 1]
  <2>1. \A i \in 1..Cap : f[i - 1] \in Nat BY <1>1
  <2> QED BY <1>3, <2>1 DEF Goes
<1>5. IsIt(f)
  <2> DEFINE g == [n \in 0..Cap |-> IF n = 0 THEN Base ELSE 2 * f[n - 1]]
  <2>1. ASSUME NEW n \in 0..Cap PROVE f[n] = g[n]
    <3>1. CASE n = 0 BY <3>1, <1>3 DEF Goes
    <3>2. CASE n # 0
      <4>1. n \in 1..Cap BY <3>2, <1>1
      <4> QED BY <4>1, <3>2, <1>4
    <3> QED BY <3>1, <3>2
  <2>2. DOMAIN f = DOMAIN g OBVIOUS
  <2> QED BY <2>1, <2>2
<1>6. Doubled = CHOOSE h : IsIt(h) BY Zenon DEF Doubled
<1>7. IsIt(Doubled)
  <2> HIDE DEF IsIt
  <2> QED BY <1>5, <1>6
<1>8. /\ Doubled[0] = Base
      /\ \A n \in 1..Cap : Doubled[n] = 2 * Doubled[n - 1]
  <2>1. 0 \in 0..Cap /\ \A n \in 1..Cap : n \in 0..Cap /\ n # 0 BY <1>1
  <2>2. \A n \in 0..Cap : Doubled[n] = IF n = 0 THEN Base ELSE 2 * Doubled[n - 1]
    BY <1>7
  <2> QED BY <2>1, <2>2
<1>9. \A n \in 0..Cap : Doubled[n] \in Nat
  <2> DEFINE T == {n \in 0..Cap : Doubled[n] \in Nat}
  <2>1. 0 \in T BY <1>1, <1>8
  <2>2. \A k \in 1..Cap : k - 1 \in T => k \in T BY <1>1, <1>8
  <2> HIDE DEF T
  <2>3. \A k \in 0..Cap : k \in T BY <1>1, <2>1, <2>2, UpTo
  <2> QED BY <2>3 DEF T
<1> QED BY <1>8, <1>9

\* Doubling gets beyond every number.
LEMMA DoubledGrows == \A n \in 0..Cap : Doubled[n] > n
<1>1. Cap \in Nat /\ Base \in Nat /\ 0 < Base BY ViewerAssumption
<1> DEFINE T == {n \in 0..Cap : Doubled[n] > n}
<1>2. 0 \in T BY <1>1, DoubledType
<1>3. ASSUME NEW k \in 1..Cap, k - 1 \in T PROVE k \in T
  <2>1. k - 1 \in 0..Cap /\ Doubled[k - 1] > k - 1 BY <1>1, <1>3
  <2>2. Doubled[k - 1] \in Nat /\ Doubled[k] = 2 * Doubled[k - 1]
    BY <2>1, DoubledType
  <2> QED BY <1>1, <2>1, <2>2
<1> HIDE DEF T
<1>4. \A k \in 0..Cap : k \in T BY <1>1, <1>2, <1>3, UpTo
<1> QED BY <1>4 DEF T

LEMMA SaturatedType == Saturated \in 0..Cap
<1> DEFINE T == {n \in 0..Cap : Backoff(n) = Cap}
<1>1. Cap \in Nat BY ViewerAssumption
<1>2. \A n \in 0..Cap : Backoff(n) \in Nat /\ Backoff(n) <= Cap
  BY <1>1, DoubledType DEF Backoff, Least
<1>3. Cap \in T
  <2>1. Cap \in 0..Cap /\ Doubled[Cap] \in Nat /\ Doubled[Cap] > Cap
    BY <1>1, DoubledType, DoubledGrows
  <2> QED BY <2>1, <1>1 DEF Backoff, Least
<1>4. PICK n \in T : \A m \in T : n <= m
  <2>1. T \subseteq Nat BY <1>1
  <2> QED BY <2>1, <1>3, HasLeast
<1>5. \A m \in 0..(n - 1) : Backoff(m) < Cap
  <2>1. ASSUME NEW m \in 0..(n - 1) PROVE Backoff(m) < Cap
    <3>1. m \in 0..Cap /\ ~(n <= m) BY <1>1, <1>4
    <3>2. Backoff(m) # Cap BY <3>1, <1>4
    <3> QED BY <3>1, <3>2, <1>1, <1>2
  <2> QED BY <2>1
<1>6. \E k \in 0..Cap : Backoff(k) = Cap /\ \A m \in 0..(k - 1) : Backoff(m) < Cap
  BY <1>4, <1>5
<1> QED BY <1>6, Zenon DEF Saturated

Inputs == [id : 1..MaxInputs, size : {1, Big}]
Entries == [kind : {"HELLO_V2", "RESIZE", "input"}, id : 0..MaxInputs]

\* What requestConnect changes.
LineTypes ==
  /\ ws \in wsStates /\ stale \in 0..MaxStale
  /\ attempts \in 0..Saturated /\ since \in 0..Cap
  /\ log \in Seq(Entries)

QueueTypes ==
  /\ inputQ \in Seq(Inputs) /\ inputQBytes \in 0..QMax
  /\ accepted \in Seq(1..MaxInputs) /\ delivered \in Seq(1..MaxInputs)

PageTypes ==
  /\ retry \subseteq 0..Retry /\ watch \in 0..WatchTick
  /\ visible \in BOOLEAN /\ sessionActive \in BOOLEAN
  /\ imagePasteOK \in {"unknown", "yes", "no"} /\ blobs \in 0..1

LEMMA TypeParts == TypeOK <=> LineTypes /\ QueueTypes /\ PageTypes /\ RoomGivenBack
BY DEF TypeOK, LineTypes, QueueTypes, PageTypes, Inputs, Entries

LEMMA Bounds ==
  /\ Cap \in Nat /\ MaxStale \in Nat /\ Saturated \in Nat /\ Retry \in Nat
  /\ WatchTick \in Nat /\ QMax \in Nat /\ MaxInputs \in Nat /\ Big \in Nat
BY ViewerAssumption, SaturatedType

LEMMA RequestTypes ==
  ASSUME LineTypes, requestConnect
  PROVE  LineTypes'
<1>1. CASE UNCHANGED <<ws, stale, attempts, since, log>>
  BY <1>1 DEF LineTypes
<1>2. CASE connect /\ attempts' = Least(attempts + 1, Saturated) /\ since' = 0
  <2>1. <<>> \in Seq(Entries) BY EmptySeq
  <2>2. stale' \in 0..MaxStale BY <1>2, Bounds DEF connect, LineTypes
  <2>3. attempts' \in 0..Saturated BY <1>2, Bounds DEF LineTypes, Least
  <2> QED BY <1>2, <2>1, <2>2, <2>3, Bounds DEF connect, LineTypes, wsStates
<1> QED BY <1>1, <1>2 DEF requestConnect

LEMMA SendTypes ==
  ASSUME LineTypes, QueueTypes, NEW b \in Inputs, sendBytes(b)
  PROVE  LineTypes' /\ QueueTypes'
<1>1. b.id \in 1..MaxInputs /\ b.size \in Nat BY Bounds DEF Inputs
<1>2. Frame(b.id) \in Entries BY <1>1, Bounds DEF Frame, Entries
<1>3. CASE /\ ws = "open" /\ log' = Append(log, Frame(b.id))
           /\ accepted' = Append(accepted, b.id)
           /\ delivered' = Append(delivered, b.id)
           /\ UNCHANGED <<ws, stale, attempts, since, inputQ, inputQBytes>>
  <2>1. Append(log, Frame(b.id)) \in Seq(Entries) BY <1>2, AppendProperties DEF LineTypes
  <2>2. /\ Append(accepted, b.id) \in Seq(1..MaxInputs)
        /\ Append(delivered, b.id) \in Seq(1..MaxInputs)
    BY <1>1, AppendProperties DEF QueueTypes
  <2> QED BY <1>3, <2>1, <2>2 DEF LineTypes, QueueTypes
<1>4. CASE UNCHANGED <<ws, stale, attempts, since, queue, log>>
  BY <1>4 DEF queue, LineTypes, QueueTypes
<1>5. CASE /\ inputQBytes + b.size <= QMax
           /\ inputQ' = Append(inputQ, b)
           /\ inputQBytes' = inputQBytes + b.size
           /\ accepted' = Append(accepted, b.id)
           /\ requestConnect
           /\ UNCHANGED delivered
  <2>1. Append(inputQ, b) \in Seq(Inputs) BY AppendProperties DEF QueueTypes
  <2>2. Append(accepted, b.id) \in Seq(1..MaxInputs)
    BY <1>1, AppendProperties DEF QueueTypes
  <2>3. inputQBytes' \in 0..QMax BY <1>1, <1>5, Bounds DEF QueueTypes
  <2> QED BY <1>5, <2>1, <2>2, <2>3, RequestTypes DEF QueueTypes
<1> QED BY <1>3, <1>4, <1>5 DEF sendBytes

LEMMA FlushTypes ==
  ASSUME QueueTypes, RoomInv, flushQ, accepted' = accepted
  PROVE  log' \in Seq(Entries) /\ QueueTypes'
<1> DEFINE n == Len(inputQ)
           ids == Ids(inputQ)
           w == [i \in 1..n |-> Frame(inputQ[i].id)]
<1>1. n \in Nat /\ \A i \in 1..n : inputQ[i].id \in 1..MaxInputs
  <2>1. inputQ \in [1..n -> Inputs] /\ n \in Nat BY LenProperties DEF QueueTypes
  <2> QED BY <2>1 DEF Inputs
<1>2. \A S : \A m \in Nat : [1..m -> S] \subseteq Seq(S)
  BY SeqDef, Zenon
<1>3. ids \in Seq(1..MaxInputs)
  <2>1. ids \in [1..n -> 1..MaxInputs] BY <1>1 DEF Ids
  <2> HIDE DEF ids, n
  <2> QED BY <1>1, <1>2, <2>1
<1>4. w \in Seq(Entries)
  <2>1. \A i \in 1..n : Frame(inputQ[i].id) \in Entries
    BY <1>1, Bounds DEF Frame, Entries
  <2>2. w \in [1..n -> Entries] BY <2>1
  <2> HIDE DEF w, n
  <2> QED BY <1>1, <1>2, <2>2
<1>5. Hello \in Seq(Entries) BY Bounds DEF Hello, HelloV2, Resize, Entries
<1>6. log' = Hello \o w /\ delivered' = delivered \o ids /\ inputQ' = <<>>
  BY DEF flushQ
<1> HIDE DEF w, ids
<1>7. log' \in Seq(Entries) BY <1>4, <1>5, <1>6, ConcatProperties
<1>8. delivered' \in Seq(1..MaxInputs) BY <1>3, <1>6, ConcatProperties DEF QueueTypes
<1>9. <<>> \in Seq(Inputs) BY EmptySeq
<1>10. inputQBytes' \in 0..QMax BY FlushRoom, Bounds
<1> QED BY <1>6, <1>7, <1>8, <1>9, <1>10 DEF QueueTypes

\* An input of a run.
LEMMA NextInput ==
  ASSUME QueueTypes, next <= MaxInputs
  PROVE  Input(next, 1) \in Inputs /\ Input(next, Big) \in Inputs
<1>1. Len(accepted) \in Nat BY LenProperties DEF QueueTypes
<1>2. next \in 1..MaxInputs BY <1>1, Bounds DEF next
<1> QED BY <1>2 DEF Input, Inputs

LEMMA NextTypes == TypeOK /\ RoomInv /\ [Next]_vars => LineTypes' /\ QueueTypes' /\ PageTypes'
<1> SUFFICES ASSUME LineTypes, QueueTypes, PageTypes, RoomInv, [Next]_vars
             PROVE  LineTypes' /\ QueueTypes' /\ PageTypes'
  BY DEF TypeOK, LineTypes, QueueTypes, PageTypes, Inputs, Entries
<1>a. ASSUME UNCHANGED queue PROVE QueueTypes' BY <1>a DEF queue, QueueTypes
<1>b. ASSUME UNCHANGED <<ws, stale, attempts, since, log>> PROVE LineTypes'
  BY <1>b DEF LineTypes
<1>c. ASSUME UNCHANGED <<timers, page, blobs>> PROVE PageTypes'
  BY <1>c DEF timers, page, PageTypes
<1>d. ASSUME UNCHANGED page, blobs' \in 0..1, retry' \subseteq 0..Retry, watch' \in 0..WatchTick
      PROVE PageTypes'
  BY <1>d DEF page, PageTypes
<1>1. CASE onopen
  <2>1. log' \in Seq(Entries) /\ QueueTypes' BY <1>1, FlushTypes DEF onopen
  <2>2. LineTypes' BY <1>1, <2>1, Bounds DEF onopen, LineTypes, wsStates
  <2> QED BY <1>1, <2>1, <2>2, <1>c DEF onopen
<1>2. CASE Closing
  <2>1. LineTypes' BY <1>2 DEF Closing, LineTypes, wsStates
  <2> QED BY <1>2, <2>1, <1>a, <1>c DEF Closing
<1>3. CASE onclose
  <2>1. LineTypes' BY <1>3 DEF onclose, LineTypes, wsStates
  <2>2. retry' \subseteq 0..Retry BY <1>3, Bounds DEF onclose, PageTypes
  <2>3. PageTypes' BY <1>3, <2>2, <1>d DEF onclose, PageTypes
  <2> QED BY <1>3, <2>1, <2>3, <1>a DEF onclose
<1>4. CASE oncloseStale
  <2>1. LineTypes' BY <1>4, Bounds DEF oncloseStale, LineTypes
  <2> QED BY <1>4, <2>1, <1>a, <1>c DEF oncloseStale
<1>5. CASE onData
  <2>1. LineTypes' /\ QueueTypes' BY <1>5, NextInput, SendTypes DEF onData
  <2> QED BY <1>5, <2>1, <1>c DEF onData
<1>6. CASE pickImage
  <2>1. PageTypes' BY <1>6, <1>d DEF pickImage, timers, PageTypes
  <2> QED BY <1>6, <2>1, <1>a, <1>b DEF pickImage
<1>7. CASE sendImageBlob
  <2>1. LineTypes' /\ QueueTypes'
    <3>1. CASE sendBytes(Input(next, Big))
      BY <1>7, <3>1, NextInput, SendTypes DEF sendImageBlob
    <3>2. CASE UNCHANGED <<ws, stale, attempts, since, queue, log>>
      BY <3>2, <1>a, <1>b
    <3> QED BY <1>7, <3>1, <3>2 DEF sendImageBlob
  <2>2. PageTypes' BY <1>7, <1>d DEF sendImageBlob, timers, PageTypes
  <2> QED BY <2>1, <2>2
<1>8. CASE onSnapshot
  <2>1. LineTypes' BY <1>8, RequestTypes DEF onSnapshot
  <2>2. PageTypes' BY <1>8 DEF onSnapshot, timers, PageTypes
  <2> QED BY <1>8, <2>1, <2>2, <1>a DEF onSnapshot
<1>9. CASE visibilitychange
  <2>1. LineTypes' BY <1>9, RequestTypes, <1>b DEF visibilitychange
  <2>2. PageTypes' BY <1>9 DEF visibilitychange, timers, PageTypes
  <2> QED BY <1>9, <2>1, <2>2, <1>a DEF visibilitychange
<1>10. CASE watchFires
  <2>1. LineTypes' BY <1>10, RequestTypes, <1>b DEF watchFires
  <2>2. PageTypes' BY <1>10, <1>d, Bounds DEF watchFires, PageTypes
  <2> QED BY <1>10, <2>1, <2>2, <1>a DEF watchFires
<1>11. CASE retryFires
  <2>1. LineTypes' BY <1>11, RequestTypes DEF retryFires
  <2>2. PageTypes' BY <1>11, <1>d DEF retryFires, PageTypes
  <2> QED BY <1>11, <2>1, <2>2, <1>a DEF retryFires
<1>12. CASE Tick
  <2>1. since' \in 0..Cap BY <1>12, Bounds DEF Tick, Least, LineTypes
  <2>2. LineTypes' BY <1>12, <2>1 DEF Tick, LineTypes
  <2>3. \A N \in Nat : \A t \in 0..N : Less(t) \in 0..N BY DEF Less
  <2>4. retry' \subseteq 0..Retry /\ watch' \in 0..WatchTick
    BY <1>12, <2>3, Bounds DEF Tick, PageTypes
  <2>5. PageTypes' BY <1>12, <2>4, <1>d DEF Tick, PageTypes
  <2> QED BY <1>12, <2>2, <2>5, <1>a DEF Tick
<1>13. CASE UNCHANGED vars
  BY <1>13, <1>a, <1>b, <1>c DEF vars
<1> QED
  BY <1>1, <1>2, <1>3, <1>4, <1>5, <1>6, <1>7, <1>8, <1>9, <1>10, <1>11, <1>12,
     <1>13 DEF Next

LEMMA InitTypes == Init => TypeOK
<1> SUFFICES ASSUME Init PROVE TypeOK OBVIOUS
<1>1. \A S : <<>> \in Seq(S) BY EmptySeq
<1>2. LineTypes BY <1>1, Bounds DEF Init, LineTypes, wsStates
<1>3. QueueTypes BY <1>1, Bounds DEF Init, QueueTypes
<1>4. PageTypes
  <2>1. retry \subseteq 0..Retry /\ watch \in 0..WatchTick /\ blobs \in 0..1
    BY Bounds DEF Init
  <2>2. visible \in BOOLEAN /\ sessionActive \in BOOLEAN BY Zenon DEF Init
  <2> QED BY <2>1, <2>2 DEF Init, PageTypes
<1> QED BY <1>2, <1>3, <1>4, InitRoom, TypeParts

\* The counters keep their bounds: the room taken stays within the limit, the
\* backoff at its longest.
THEOREM TypeCorrect == Spec => []TypeOK
<1>1. Init => TypeOK /\ RoomInv
  BY InitTypes, InitOrder, InitRoom DEF RoomInv
<1>2. TypeOK /\ RoomInv /\ [Next]_vars => (TypeOK /\ RoomInv)'
  <2>1. RoomInv /\ [Next]_vars => RoomInv' BY NextOrder, NextRoom DEF RoomInv
  <2>2. LineTypes' /\ QueueTypes' /\ PageTypes' /\ RoomInv' => TypeOK'
    BY DEF TypeOK, LineTypes, QueueTypes, PageTypes, Inputs, Entries, RoomInv
  <2> QED BY <2>1, <2>2, NextTypes
<1> QED BY <1>1, <1>2, PTL DEF Spec

-----------------------------------------------------------------------------
(* The scroll position *)

\* The sizes of a geometry are numbers.
LEMMA Sizes ==
  ASSUME NEW s, Geometry(s)
  PROVE  /\ cursorTop(s) \in Nat /\ cursorPx(s) \in Nat /\ pinPx(s) \in Nat
         /\ cursorPx(s) <= pinPx(s) /\ cursorPx(s) = cursorTop(s) + s.cellH
         /\ maxTop(s) \in Nat
<1> DEFINE r == Larger(s.pinRow, s.cy)
<1>1. s.cellH \in Nat /\ s.cy \in Nat /\ s.pinRow \in Int BY DEF Geometry
<1>2. r \in Nat /\ s.cy <= r BY <1>1 DEF Larger
<1>3. \A a, b, c \in Nat : a <= b => a * c \in Nat /\ b * c \in Nat /\ a * c <= b * c
  OBVIOUS
<1>4. s.cy * s.cellH \in Nat /\ r * s.cellH \in Nat /\ s.cy * s.cellH <= r * s.cellH
  BY <1>1, <1>2, <1>3
<1>5. maxTop(s) \in Nat BY DEF maxTop, Larger, Geometry
<1> HIDE DEF r
<1>6. pinPx(s) = r * s.cellH + s.cellH BY DEF pinPx, r
<1> QED BY <1>1, <1>4, <1>5, <1>6 DEF cursorTop, cursorPx

\* clamp keeps to the range of the scroll bar.
LEMMA Clamped ==
  ASSUME NEW s, NEW t \in Int, maxTop(s) \in Nat
  PROVE  /\ clamp(s, t) \in 0..maxTop(s)
         /\ t <= maxTop(s) => t <= clamp(s, t)
         /\ 0 <= t => clamp(s, t) <= t
         /\ t > maxTop(s) => clamp(s, t) = maxTop(s)
         /\ t < 0 => clamp(s, t) = 0
BY DEF clamp, Larger, Smaller

\* The pinned position exists and shows the row of the input, whatever is
\* written below it (term.js 86-88, the input stays visible).
THEOREM PinShowsInput ==
  ASSUME NEW s, Geometry(s), Fits(s)
  PROVE  pinTop(s) \in 0..maxTop(s) /\ InputInView(s, pinTop(s))
<1> DEFINE h == s.clientHeight
           a == clamp(s, pinPx(s) - h)
           b == clamp(s, cursorPx(s) - h)
<1>1. h \in Nat /\ s.scrollHeight \in Nat /\ s.cellH \in Nat BY DEF Geometry
<1>2. cursorTop(s) \in Nat /\ cursorPx(s) \in Nat /\ pinPx(s) \in Nat
      /\ cursorPx(s) <= pinPx(s) /\ cursorPx(s) = cursorTop(s) + s.cellH
      /\ maxTop(s) \in Nat
  BY Sizes
<1>3. cursorPx(s) <= maxTop(s) + h BY <1>1, <1>2 DEF Fits, maxTop, Larger
<1>4. s.cellH <= h BY DEF Fits
<1>5. /\ a \in 0..maxTop(s)
      /\ pinPx(s) - h <= maxTop(s) => pinPx(s) - h <= a
      /\ pinPx(s) - h > maxTop(s) => a = maxTop(s)
  BY <1>1, <1>2, Clamped
<1>6. /\ b \in 0..maxTop(s)
      /\ cursorPx(s) - h <= maxTop(s) => cursorPx(s) - h <= b
      /\ 0 <= cursorPx(s) - h => b <= cursorPx(s) - h
      /\ cursorPx(s) - h < 0 => b = 0
  BY <1>1, <1>2, Clamped
<1>7. pinTop(s) = IF a > cursorTop(s) THEN b ELSE a BY DEF pinTop
<1> HIDE DEF a, b, h
<1>8. CASE a > cursorTop(s)
  <2>1. pinTop(s) = b BY <1>7, <1>8
  <2>2. cursorPx(s) - h <= b BY <1>1, <1>2, <1>3, <1>6
  <2>3. b <= cursorTop(s)
    <3>1. CASE 0 <= cursorPx(s) - h BY <3>1, <1>1, <1>2, <1>4, <1>6
    <3>2. CASE cursorPx(s) - h < 0 BY <3>2, <1>2, <1>6
    <3> QED BY <3>1, <3>2, <1>1, <1>2
  <2> QED BY <2>1, <2>2, <2>3, <1>1, <1>2, <1>6 DEF h, InputInView
<1>9. CASE ~(a > cursorTop(s))
  <2>1. pinTop(s) = a BY <1>7, <1>9
  <2>2. a <= cursorTop(s) BY <1>2, <1>5, <1>9
  <2>3. cursorPx(s) - h <= a
    <3>1. CASE pinPx(s) - h <= maxTop(s) BY <3>1, <1>1, <1>2, <1>5
    <3>2. CASE pinPx(s) - h > maxTop(s) BY <3>2, <1>1, <1>2, <1>3, <1>5
    <3> QED BY <3>1, <3>2, <1>1, <1>2
  <2> QED BY <2>1, <2>2, <2>3, <1>1, <1>2, <1>5 DEF h, InputInView
<1> QED BY <1>8, <1>9

\* The scroll event that a pin causes leaves the page following, even if the
\* cursor has moved up meanwhile or one row down (term.js 102-108).
THEOREM PinKeepsFollowing ==
  ASSUME NEW s, Geometry(s), Fits(s), s.following,
         NEW t, Geometry(t), Later(s, t), t.cy <= s.cy + 1,
         t.scrollTop = cmTrackScroll("settle", s).scrollTop
  PROVE  cmTrackScroll("userscroll", t).following
<1>1. t.scrollTop = pinTop(s) BY DEF cmTrackScroll
<1>2. cursorPx(s) <= pinTop(s) + s.clientHeight BY PinShowsInput DEF InputInView
<1>3. cursorTop(t) <= cursorPx(s)
  <2>1. s.cy \in Nat /\ t.cy \in Nat /\ s.cellH \in Nat /\ t.cellH = s.cellH
    BY DEF Geometry, Later
  <2>2. \A a, b, c \in Nat : a <= b + 1 => a * c <= b * c + c OBVIOUS
  <2>3. t.cy * s.cellH <= s.cy * s.cellH + s.cellH BY <2>1, <2>2
  <2> QED BY <2>1, <2>3 DEF cursorTop, cursorPx
<1>4. /\ pinTop(s) \in Int /\ s.clientHeight \in Nat
      /\ cursorPx(s) \in Nat /\ cursorTop(t) \in Nat
      /\ cursorPx(t) = cursorTop(t) + t.cellH /\ t.cellH \in Nat
  <2>1. maxTop(s) \in Nat /\ cursorPx(s) \in Nat BY Sizes
  <2>2. pinTop(s) \in Int BY <2>1, PinShowsInput
  <2> QED BY <2>1, <2>2, Sizes DEF Geometry
<1>5. t.scrollTop + t.clientHeight >= cursorPx(t) - t.cellH
  BY <1>1, <1>2, <1>3, <1>4 DEF Later
<1> QED BY <1>5 DEF cmTrackScroll

\* Settling again without new output moves nothing.
THEOREM SettleIsStable ==
  ASSUME NEW s, Geometry(s),
         NEW t, Later(s, t), t.cy = s.cy, t.pinRow = s.pinRow,
         t.scrollHeight = s.scrollHeight,
         t.scrollTop = cmTrackScroll("settle", s).scrollTop,
         t.following = s.following
  PROVE  cmTrackScroll("settle", t).scrollTop = t.scrollTop
<1>1. pinTop(t) = pinTop(s)
  BY DEF pinTop, pinPx, cursorPx, cursorTop, clamp, maxTop, Larger, Smaller, Later
<1>2. CASE s.following BY <1>1, <1>2 DEF cmTrackScroll
<1>3. CASE ~s.following BY <1>3 DEF cmTrackScroll
<1> QED BY <1>2, <1>3

-----------------------------------------------------------------------------
\* Division rounds down.
LEMMA Quotient ==
  ASSUME NEW x \in Int, NEW y \in Nat, y > 0
  PROVE  /\ x \div y \in Int
         /\ y * (x \div y) <= x /\ x < y * (x \div y) + y
OBVIOUS

\* The quotient is the only number with these bounds.
LEMMA QuotientUnique ==
  ASSUME NEW x \in Int, NEW y \in Nat, y > 0,
         NEW q \in Int, y * q <= x, x < y * q + y
  PROVE  x \div y = q
<1> DEFINE d == x \div y
<1>1. d \in Int /\ y * d <= x /\ x < y * d + y BY Quotient
<1> HIDE DEF d
<1>2. y * d < y * q + y /\ y * q < y * d + y BY <1>1
<1>3. \A a, b \in Int : y * a < y * b + y => a < b + 1 OBVIOUS
<1>4. d < q + 1 /\ q < d + 1 BY <1>1, <1>2, <1>3
<1> QED BY <1>1, <1>4 DEF d

\* A scroll event that the page caused itself moves nothing: the position set
\* for a line stands for that line, as long as a row is higher than a pixel
\* (term.js 644-666).
THEOREM ProxyRoundTrip ==
  ASSUME NEW w, Proxy(w), w.rows < w.screenH, NEW y \in Nat
  PROVE  hostToTerm(w, termToHost(w, y)) = y
<1> DEFINE r == w.rows
           h == w.screenH
           t == termToHost(w, y)
<1>1. r \in Nat /\ h \in Nat /\ 0 < r /\ r < h BY DEF Proxy
<1>2. y * h \in Nat /\ y * h = h * y BY <1>1
<1>3. /\ t \in Int
      /\ (2 * r) * t <= 2 * (y * h) + r
      /\ 2 * (y * h) + r < (2 * r) * t + 2 * r
  <2> DEFINE x == 2 * (y * h) + r
             d == 2 * r
  <2>1. t = x \div d BY DEF termToHost, Round
  <2>2. x \in Int /\ d \in Nat /\ d > 0 BY <1>1, <1>2
  <2> HIDE DEF x, d, t
  <2>3. t \in Int /\ d * t <= x /\ x < d * t + d BY <2>1, <2>2, Quotient
  <2> QED BY <2>3 DEF x, d
<1> HIDE DEF t, r, h
<1>4. t * r \in Int /\ (2 * r) * t = 2 * (t * r) BY <1>1, <1>3
<1>5. (2 * h) * y = 2 * (y * h) BY <1>1
<1>6. (2 * h) * y <= 2 * (t * r) + h /\ 2 * (t * r) + h < (2 * h) * y + 2 * h
  BY <1>1, <1>2, <1>3, <1>4, <1>5
<1>7. (2 * (t * r) + h) \div (2 * h) = y
  <2> DEFINE x == 2 * (t * r) + h
             d == 2 * h
  <2>1. x \in Int /\ d \in Nat /\ d > 0 /\ d * y <= x /\ x < d * y + d
    BY <1>1, <1>4, <1>6
  <2> HIDE DEF x, d
  <2>2. x \div d = y BY <2>1, QuotientUnique
  <2> QED BY <2>2 DEF x, d
<1> QED BY <1>7 DEF hostToTerm, Round, t, r, h

\* The newest line is at the lowest position, to the pixel, when the terminal
\* fits into the host (term.js 636-641: without the slack "the line at the
\* bottom is short by the rest").
THEOREM NewestLineAtBottom ==
  ASSUME NEW w, Proxy(w), w.screenH <= w.clientHeight
  PROVE  hostMax(w) = termToHost(w, history(w))
<1> DEFINE r == w.rows
           a == history(w) * w.screenH
           k == w.clientHeight - w.screenH
           t == termToHost(w, history(w))
<1>1. r \in Nat /\ 0 < r /\ k \in Nat /\ w.screenH \in Nat /\ w.clientHeight \in Nat
      /\ history(w) \in Nat
  BY DEF Proxy, history
<1>2. \A m, n \in Nat : m * n \in Nat OBVIOUS
<1>3. a \in Nat /\ k * r \in Nat BY <1>1, <1>2
<1>4. spacerPx(w) = (2 * (a + k * r) + r) \div (2 * r)
  BY <1>1 DEF spacerPx, Round, Larger
<1>5. t \in Int /\ (2 * r) * t <= 2 * a + r /\ 2 * a + r < (2 * r) * t + 2 * r
  <2> DEFINE x == 2 * a + r
             d == 2 * r
  <2>1. t = x \div d BY DEF termToHost, Round
  <2>2. x \in Int /\ d \in Nat /\ d > 0 BY <1>1, <1>3
  <2> HIDE DEF x, d, t
  <2>3. t \in Int /\ d * t <= x /\ x < d * t + d BY <2>1, <2>2, Quotient
  <2> QED BY <2>3 DEF x, d
<1>6. t >= 0
  <2>1. \A m \in Int : m < 0 => (2 * r) * m + 2 * r <= 0 BY <1>1
  <2> QED BY <1>1, <1>3, <1>5, <2>1
<1>7. k = w.clientHeight - w.screenH OBVIOUS
<1> HIDE DEF a, k, t, r
<1>8. (2 * r) * (t + k) = (2 * r) * t + 2 * (k * r) BY <1>1, <1>5
<1>9. (2 * r) * (t + k) <= 2 * (a + k * r) + r
      /\ 2 * (a + k * r) + r < (2 * r) * (t + k) + 2 * r
  BY <1>1, <1>3, <1>5, <1>8
<1>10. spacerPx(w) = t + k
  <2> DEFINE x == 2 * (a + k * r) + r
             d == 2 * r
  <2>1. x \in Int /\ d \in Nat /\ d > 0 /\ t + k \in Int
        /\ d * (t + k) <= x /\ x < d * (t + k) + d
    BY <1>1, <1>3, <1>5, <1>9
  <2> HIDE DEF x, d
  <2>2. x \div d = t + k BY <2>1, QuotientUnique
  <2> QED BY <2>2, <1>4 DEF x, d
<1>11. hostMax(w) = t BY <1>1, <1>5, <1>6, <1>7, <1>10 DEF hostMax, Larger
<1> QED BY <1>11 DEF t
=============================================================================
