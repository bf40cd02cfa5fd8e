------------------------- MODULE RelayStreamProofs -------------------------
(***************************************************************************)
(* The byte streams of Relay: nothing is lost, duplicated or reordered     *)
(* while a reader serves, whatever takeovers happen around it.             *)
(***************************************************************************)
EXTENDS RelayProofs

Streaming(c) == pc[c] \in {"closeOld", "read", "lock", "wait", "send"}

\* The last chunk of c that must have been delivered.
Last(c) == IF Holding(c) THEN nread[c] - 1 ELSE nread[c]

\* What was delivered was read before, and is not the chunk still held.
DeliveredWasRead ==
  \A v \in Conns : \A i \in 1..Len(out[v]) :
    LET m == out[v][i]
    IN  /\ 1 <= m.n /\ m.n <= nread[m.src]
        /\ pc[m.src] \in Held => m.n < nread[m.src]

NothingMissing ==
  \A c \in Conns : Streaming(c) =>
    \A n \in 1..Last(c) :
      \E v \in Conns : \E i \in 1..Len(out[v]) : out[v][i] = [src |-> c, n |-> n]

ReadCounts ==
  \A c \in Conns : /\ pc[c] \in {"new", "closeOld"} => nread[c] = 0
                   /\ Holding(c) => nread[c] >= 1

StreamInv ==
  /\ DeliveredWasRead
  /\ NothingMissing
  /\ ReadCounts
  /\ InOrderOnce

LEMMA OutElements ==
  ASSUME TypeOK, NEW v \in Conns, NEW i \in 1..Len(out[v])
  PROVE  out[v][i] \in [src : Conns, n : Nat]
<1>1. out[v] \in Seq([src : Conns, n : Nat])
  BY DEF TypeOK
<1> QED
  BY <1>1, ElementOfSeq

\* A step that neither reads nor writes keeps the streams intact.
LEMMA StreamFrame ==
  ASSUME StreamInv,
         UNCHANGED <<out, nread>>,
         \A c \in Conns : Holding(c)' => Holding(c),
         \A c \in Conns : Streaming(c)' =>
           (Streaming(c) /\ (Holding(c) => Holding(c)')) \/ pc[c] = "new",
         \A c \in Conns : pc'[c] \in {"new", "closeOld"} => pc[c] \in {"new", "closeOld"},
         TypeOK
  PROVE  StreamInv'
<1> USE DEF StreamInv
<1>1. \A v \in Conns : \A i \in 1..Len(out[v]) : out[v][i].src \in Conns
  BY OutElements
<1>2. DeliveredWasRead'
  BY <1>1 DEF DeliveredWasRead, Holding
<1>3. ReadCounts'
  BY DEF ReadCounts
<1>4. NothingMissing'
  <2> SUFFICES ASSUME NEW c \in Conns, Streaming(c)', NEW n \in 1..Last(c)'
               PROVE  \E v \in Conns : \E i \in 1..Len(out[v]) :
                        out[v][i] = [src |-> c, n |-> n]
    BY DEF NothingMissing
  <2>1. Last(c)' <= nread[c] /\ pc[c] # "new"
    BY DEF Last, ReadCounts, TypeOK
  <2>2. Last(c)' = Last(c) /\ Streaming(c)
    BY <2>1 DEF Last
  <2> QED
    BY <2>2 DEF NothingMissing
<1>5. InOrderOnce'
  BY DEF InOrderOnce
<1> QED
  BY <1>2, <1>3, <1>4, <1>5

LEMMA ReadKeepsStreams ==
  ASSUME NEW c \in Conns, Inv, StreamInv, Read(c)
  PROVE  StreamInv'
<1> USE DEF StreamInv
<1>0. TypeOK
  BY DEF Inv
<1>2. /\ pc[c] = "read" /\ pc' = [pc EXCEPT ![c] = "lock"]
      /\ nread' = [nread EXCEPT ![c] = @ + 1] /\ out' = out
  BY DEF Read
<1>3. DeliveredWasRead'
  <2> SUFFICES ASSUME NEW v \in Conns, NEW i \in 1..Len(out[v])
               PROVE  LET m == out[v][i]
                      IN  /\ 1 <= m.n /\ m.n <= nread'[m.src]
                          /\ pc'[m.src] \in Held => m.n < nread'[m.src]
    BY <1>2 DEF DeliveredWasRead
  <2> DEFINE m == out[v][i]
  <2>1. m \in [src : Conns, n : Nat]
    BY <1>0, OutElements
  <2>2. 1 <= m.n /\ m.n <= nread[m.src] /\ (pc[m.src] \in Held => m.n < nread[m.src])
    BY DEF DeliveredWasRead
  <2>5. m.src \in Conns /\ m.n \in Nat /\ nread[m.src] \in Nat
    BY <1>0, <2>1 DEF TypeOK
  <2>6. nread'[c] = nread[c] + 1 /\ nread[c] \in Nat
    BY <1>0, <1>2 DEF TypeOK
  <2> HIDE DEF m
  <2>3. /\ 1 <= m.n /\ m.n <= nread'[m.src]
        /\ pc'[m.src] \in Held => m.n < nread'[m.src]
    <3>1. CASE m.src = c
      BY <2>2, <2>5, <2>6, <3>1
    <3>2. CASE m.src # c
      BY <1>0, <1>2, <2>2, <2>5, <3>2 DEF TypeOK, Held
    <3> QED
      BY <3>1, <3>2
  <2> QED
    BY <2>3 DEF m
<1>4. NothingMissing'
  <2> SUFFICES ASSUME NEW d \in Conns, Streaming(d)', NEW n \in 1..Last(d)'
               PROVE  \E v \in Conns : \E i \in 1..Len(out[v]) :
                        out[v][i] = [src |-> d, n |-> n]
    BY <1>2 DEF NothingMissing
  <2>1. Last(d)' = Last(d) /\ Streaming(d)
    BY <1>0, <1>2 DEF TypeOK, Last, Holding, Held, Streaming
  <2> QED
    BY <2>1 DEF NothingMissing
<1>5. ReadCounts'
  BY <1>0, <1>2 DEF TypeOK, ReadCounts, Holding, Held
<1>6. InOrderOnce'
  BY <1>2 DEF InOrderOnce
<1> QED
  BY <1>3, <1>4, <1>5, <1>6

LEMMA WriteOkKeepsStreams ==
  ASSUME NEW c \in Conns, Inv, StreamInv, WriteOk(c)
  PROVE  StreamInv'
<1> USE DEF StreamInv
<1> DEFINE p == tgt[c]
           new == [src |-> c, n |-> nread[c]]
<1>1. TypeOK /\ p \in Conns
  BY DEF Inv, TypeOK, WriteOk, Targets
<1>2. /\ pc[c] = "send" /\ pc' = [pc EXCEPT ![c] = "read"]
      /\ nread' = nread /\ out' = [out EXCEPT ![p] = Append(@, new)]
  BY DEF WriteOk
<1>3. \A v \in Conns : out[v] \in Seq([src : Conns, n : Nat])
  BY <1>1 DEF TypeOK
<1>4. new \in [src : Conns, n : Nat] /\ new.src = c /\ new.n = nread[c]
  BY <1>1 DEF TypeOK
<1>5. /\ Len(out'[p]) = Len(out[p]) + 1
      /\ out'[p][Len(out[p]) + 1] = new
      /\ Len(out[p]) \in Nat
      /\ \A i \in 1..Len(out[p]) : out'[p][i] = out[p][i]
      /\ \A v \in Conns : v # p => out'[v] = out[v]
  <2>1. out'[p] = Append(out[p], new)
    BY <1>1, <1>2 DEF TypeOK
  <2>2. \A v \in Conns : v # p => out'[v] = out[v]
    BY <1>1, <1>2 DEF TypeOK
  <2>3. out[p] \in Seq([src : Conns, n : Nat])
    BY <1>1, <1>3
  <2> HIDE DEF new
  <2> QED
    BY <1>4, <2>1, <2>2, <2>3
<1>6. 1 <= nread[c]
  BY <1>2 DEF ReadCounts, Holding, Held
<1>7. \A v \in Conns : \A i \in 1..Len(out[v]) :
        out[v][i].src = c => out[v][i].n < nread[c]
  BY <1>2 DEF DeliveredWasRead, Holding, Held
<1>8. \A v \in Conns : \A i \in 1..Len(out'[v]) :
        \/ i \in 1..Len(out[v]) /\ out'[v][i] = out[v][i]
        \/ v = p /\ i = Len(out[p]) + 1 /\ out'[v][i] = new
  BY <1>1, <1>5
<1> HIDE DEF p, new
<1>9. DeliveredWasRead'
  <2> SUFFICES ASSUME NEW v \in Conns, NEW i \in 1..Len(out'[v])
               PROVE  LET m == out'[v][i]
                      IN  /\ 1 <= m.n /\ m.n <= nread[m.src]
                          /\ pc'[m.src] \in Held => m.n < nread[m.src]
    BY <1>2 DEF DeliveredWasRead
  <2>1. CASE out'[v][i] = new
    <3>1. nread[c] \in Nat /\ pc'[c] = "read"
      BY <1>1, <1>2 DEF TypeOK
    <3> QED
      BY <1>2, <1>4, <1>6, <2>1, <3>1 DEF Held
  <2>2. CASE i \in 1..Len(out[v]) /\ out'[v][i] = out[v][i]
    <3>1. out[v][i].src \in Conns
      BY <1>1, <2>2, OutElements
    <3>2. pc'[out[v][i].src] \in Held => pc[out[v][i].src] \in Held
      BY <1>1, <1>2, <3>1 DEF TypeOK, Holding, Held
    <3> QED
      BY <2>2, <3>2 DEF DeliveredWasRead
  <2> QED
    BY <1>8, <2>1, <2>2
<1>10. NothingMissing'
  <2> SUFFICES ASSUME NEW d \in Conns, Streaming(d)', NEW n \in 1..Last(d)'
               PROVE  \E v \in Conns : \E i \in 1..Len(out'[v]) :
                        out'[v][i] = [src |-> d, n |-> n]
    BY DEF NothingMissing
  <2>1. CASE d = c /\ n = nread[c]
    <3>1. new = [src |-> d, n |-> n]
      BY <2>1 DEF new
    <3>2. Len(out[p]) + 1 \in 1..Len(out'[p])
      BY <1>5
    <3> QED
      BY <1>1, <1>5, <3>1, <3>2
  <2>2. CASE ~(d = c /\ n = nread[c])
    <3>1. Streaming(d) /\ n \in 1..Last(d)
      BY <1>1, <1>2, <2>2 DEF TypeOK, Streaming, Last, Holding, Held
    <3>4. PICK v \in Conns : \E i \in 1..Len(out[v]) :
            out[v][i] = [src |-> d, n |-> n]
      BY <3>1 DEF NothingMissing
    <3>2. PICK i \in 1..Len(out[v]) : out[v][i] = [src |-> d, n |-> n]
      BY <3>4
    <3>3. i \in 1..Len(out'[v]) /\ out'[v][i] = out[v][i]
      BY <1>5
    <3> QED
      BY <3>2, <3>3
  <2> QED
    BY <2>1, <2>2
<1>11. ReadCounts'
  BY <1>1, <1>2 DEF TypeOK, ReadCounts, Holding, Held
<1>12. InOrderOnce'
  <2> SUFFICES ASSUME NEW v \in Conns, NEW w \in Conns,
                      NEW i \in 1..Len(out'[v]), NEW j \in 1..Len(out'[w]),
                      out'[v][i].src = out'[w][j].src
               PROVE  /\ out'[v][i].n = out'[w][j].n => v = w /\ i = j
                      /\ (v = w /\ i < j) => out'[v][i].n < out'[w][j].n
    BY DEF InOrderOnce
  <2>1. CASE /\ i \in 1..Len(out[v]) /\ out'[v][i] = out[v][i]
             /\ j \in 1..Len(out[w]) /\ out'[w][j] = out[w][j]
    BY <2>1 DEF InOrderOnce
  <2>2. CASE /\ i \in 1..Len(out[v]) /\ out'[v][i] = out[v][i]
             /\ w = p /\ j = Len(out[p]) + 1 /\ out'[w][j] = new
    <3>1. out[v][i].n < nread[c] /\ out[v][i].n \in Nat /\ nread[c] \in Nat
      BY <1>1, <1>4, <1>7, <2>2, OutElements DEF TypeOK
    <3> QED
      BY <1>4, <2>2, <3>1
  <2>3. CASE /\ v = p /\ i = Len(out[p]) + 1 /\ out'[v][i] = new
             /\ j \in 1..Len(out[w]) /\ out'[w][j] = out[w][j]
    <3>1. out[w][j].n < nread[c] /\ out[w][j].n \in Nat /\ nread[c] \in Nat
      BY <1>1, <1>4, <1>7, <2>3, OutElements DEF TypeOK
    <3>2. ~(v = w /\ i < j)
      BY <1>5, <2>3
    <3> QED
      BY <1>4, <2>3, <3>1, <3>2
  <2>4. CASE v = p /\ i = Len(out[p]) + 1 /\ w = p /\ j = Len(out[p]) + 1
    BY <1>5, <2>4
  <2> QED
    BY <1>8, <2>1, <2>2, <2>3, <2>4
<1> QED
  BY <1>9, <1>10, <1>11, <1>12

LEMMA StreamStep == Inv /\ StreamInv /\ [Next]_vars => StreamInv'
<1> SUFFICES ASSUME Inv, StreamInv, [Next]_vars PROVE StreamInv'
  OBVIOUS
<1>1. TypeOK
  BY DEF Inv
<1>2. ASSUME NEW c \in Conns, Accept(c) PROVE StreamInv'
  BY <1>1, <1>2, StreamFrame DEF Accept, TypeOK, Holding, Held, Streaming
<1>3. ASSUME NEW c \in Conns, CloseOld(c) PROVE StreamInv'
  BY <1>1, <1>3, StreamFrame DEF CloseOld, TypeOK, Holding, Held, Streaming
<1>4. ASSUME NEW c \in Conns, WritePeer(c) PROVE StreamInv'
  <2>1. PICK q \in {"exit", "wait", "send"} : pc' = [pc EXCEPT ![c] = q]
    BY <1>4, Zenon DEF WritePeer
  <2>2. pc[c] = "lock" /\ UNCHANGED <<out, nread>>
    BY <1>4 DEF WritePeer
  <2> QED
    BY <1>1, <2>1, <2>2, StreamFrame DEF TypeOK, Holding, Held, Streaming
<1>5. ASSUME NEW c \in Conns, ReadErr(c) \/ Wake(c) \/ Deadline(c) PROVE StreamInv'
  BY <1>1, <1>5, StreamFrame DEF ReadErr, Wake, Deadline, TypeOK, Holding, Held, Streaming
<1>6. ASSUME NEW c \in Conns, WriteErr(c) \/ CloseSelf(c) \/ ClosePeer(c) PROVE StreamInv'
  <2>1. /\ \E q \in {"exit", "closePeer", "done"} : pc' = [pc EXCEPT ![c] = q]
        /\ UNCHANGED <<out, nread>>
        /\ pc[c] \in {"send", "closeSelf", "closePeer"}
    BY <1>6 DEF WriteErr, CloseSelf, ClosePeer
  <2>2. pc'[c] \in {"exit", "closePeer", "done"} /\ \A d \in Conns : d # c => pc'[d] = pc[d]
    BY <1>1, <2>1 DEF TypeOK
  <2> QED
    BY <1>1, <2>1, <2>2, StreamFrame DEF Holding, Held, Streaming
<1>7. ASSUME NEW c \in Conns, Exit(c) PROVE StreamInv'
  <2>1. pc' = [pc EXCEPT ![c] = "closeSelf"] /\ UNCHANGED <<out, nread>>
    BY <1>7 DEF Exit
  <2> QED
    BY <1>1, <2>1, StreamFrame DEF TypeOK, Holding, Held, Streaming
<1>8. ASSUME NEW c \in Conns, LoneTimer(c) \/ RemoteGone(c) PROVE StreamInv'
  BY <1>1, <1>8, StreamFrame
     DEF LoneTimer, LoneCheck, LoneClose, RemoteGone, Holding, Held, Streaming
<1>9. CASE UNCHANGED vars
  BY <1>1, <1>9, StreamFrame DEF vars, Holding, Held, Streaming
<1> QED
  BY <1>2, <1>3, <1>4, <1>5, <1>6, <1>7, <1>8, <1>9, ReadKeepsStreams,
     WriteOkKeepsStreams DEF Next, Serve, Finished

LEMMA StreamAlways == Spec => [](Inv /\ StreamInv)
<1>1. Init => StreamInv
  BY DEF Init, StreamInv, DeliveredWasRead, NothingMissing, ReadCounts,
     InOrderOnce, Holding, Held, Last, Streaming
<1> QED
  BY <1>1, InvInit, InvStep, StreamStep, PTL DEF Spec

\* Each connection receives the chunks of one reader in order and without
\* duplicates, and no chunk reaches two connections.
THEOREM InOrderOnceHolds == Spec => []InOrderOnce
<1>1. Inv /\ StreamInv => InOrderOnce
  BY DEF StreamInv
<1> QED
  BY <1>1, StreamAlways, PTL

\* A serving reader has delivered every chunk it read but the one it holds,
\* however often the other side was taken over.
THEOREM NothingLostHolds == Spec => []NothingLost
<1>1. Inv /\ StreamInv => NothingLost
  <2> SUFFICES ASSUME Inv, StreamInv, NEW c \in Conns, Streaming(c)
               PROVE  Delivered(c) = 1..Last(c)
    BY DEF NothingLost, Streaming, Last
  <2>1. nread[c] \in Nat /\ MaxChunks[c] \in Nat /\ nread[c] <= MaxChunks[c]
    BY RelayAssumption DEF Inv, TypeOK
  <2>2. ASSUME NEW n \in Delivered(c) PROVE n \in 1..Last(c)
    <3>3. PICK v \in Conns : \E i \in 1..Len(out[v]) : out[v][i] = [src |-> c, n |-> n]
      BY <2>2 DEF Delivered
    <3>1. PICK i \in 1..Len(out[v]) : out[v][i] = [src |-> c, n |-> n]
      BY <3>3
    <3>2. 1 <= n /\ n <= nread[c] /\ (Holding(c) => n < nread[c]) /\ n \in Nat
      BY <2>1, <2>2, <3>1 DEF StreamInv, DeliveredWasRead, Delivered, Holding
    <3> QED
      BY <2>1, <3>2 DEF Last
  <2>3. ASSUME NEW n \in 1..Last(c) PROVE n \in Delivered(c)
    <3>1. n \in 1..MaxChunks[c]
      BY <2>1 DEF Last
    <3> QED
      BY <3>1 DEF StreamInv, NothingMissing, Delivered
  <2> QED
    BY <2>2, <2>3
<1> QED
  BY <1>1, StreamAlways, PTL
=============================================================================
