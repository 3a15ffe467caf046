------------------------ MODULE VelbusProtocol_proofs ------------------------
(***************************************************************************)
(* Proofs about ProtocolWriter, VelbusLink and Framing, for any number of  *)
(* messages, connections, failed writes, writer tasks, reconnect loops and *)
(* callbacks that raise, and for anything the bus may send.                *)
(*                                                                         *)
(* First the send side of the protocol object by itself.  Its inductive    *)
(* invariant adds to the stated properties who holds a message, how the    *)
(* queue is ordered with respect to the message in hand and the wire, and  *)
(* a lower bound on the queue's count of unfinished elements.              *)
(*                                                                         *)
(* Then the controller.  The right to connect is handed on: the loss of a  *)
(* transport creates it, the task that will tell of the loss has it, then  *)
(* the disconnect callbacks, then a reconnect loop, and a new transport    *)
(* ends it (Right).  Whoever has it is alone, and no transport is          *)
(* attached.  And a step of the link is a step of the protocol object or   *)
(* leaves it alone, so what the first part proves of the object holds      *)
(* under the controller.                                                   *)
(*                                                                         *)
(* Last the receive side: every step of create() takes bytes from the      *)
(* front of the buffer in which no packet begins, or one packet, so what   *)
(* has left the buffer is always scanned (FramingInv).                     *)
(***************************************************************************)
EXTENDS VelbusLink, Framing, SequenceTheorems, FiniteSetTheorems, WellFoundedInduction, TLAPS

(* A writer has a message in hand exactly while it backs off from it. *)
InHand == \A w \in Writers : msg[w] # None <=> pc[w] = "write"

(* The messages in q are accepted ones, in the order of acceptance. *)
SortedQueue(q) ==
    /\ \A i \in DOMAIN q : q[i] <= accepted
    /\ \A i, j \in DOMAIN q : (i < j /\ q[i] # None /\ q[j] # None) => q[i] < q[j]

(* m was accepted before the messages in q and after those on the wire. *)
Between(m, q) == /\ m <= accepted
                 /\ \A i \in DOMAIN q : q[i] # None => m < q[i]
                 /\ \A i \in DOMAIN wire : wire[i] < m

Order == /\ SortedQueue(queue)
         /\ \A w \in Writers : msg[w] # None => Between(msg[w], queue)
         /\ \A i \in DOMAIN wire : wire[i] <= accepted
         /\ \A i \in DOMAIN wire, j \in DOMAIN queue :
                queue[j] # None => wire[i] < queue[j]
         /\ InOrder

(* NothingForgotten, said of one message at a time. *)
Tracked == \A k \in 1 .. accepted : \/ k \in dropped
                                    \/ \E i \in DOMAIN wire : wire[i] = k
                                    \/ \E i \in DOMAIN queue : queue[i] = k
                                    \/ \E w \in Writers : msg[w] = k

Failed == IF dropped = {} THEN 0 ELSE 1

(* task_done() is still owed for every element queued, for the message in
   hand, and for ever once a write has raised.                              *)
Owed == /\ unfinished >= Len(queue) + Failed
        /\ (\E w \in Writers : pc[w] = "write") => unfinished >= Len(queue) + 1 + Failed

IInv == TypeOK /\ WriterMutex /\ InHand /\ Order /\ Tracked /\ Owed
-----------------------------------------------------------------------------
(* The messages still in the system: what w is about to take on (m) and what
   it leaves in the queue (rest).                                           *)
Serves(w, m, rest) ==
    /\ m \in Nat \ {None} /\ rest \in Seq(Nat)
    /\ \A v \in Writers \ {w} : pc[v] \notin InLoop
    /\ SortedQueue(rest) /\ Between(m, rest)
    /\ \A k \in 1 .. accepted : \/ k \in dropped \/ k = m
                                \/ \E i \in DOMAIN wire : wire[i] = k
                                \/ \E i \in DOMAIN rest : rest[i] = k
    /\ unfinished >= Len(rest) + 1 + Failed

(* The invariant holds when the protocol object is created. *)
LEMMA InitInv == Init => IInv
<1> SUFFICES ASSUME Init PROVE IInv OBVIOUS
<1> USE DEF Init, None
<1>1. TypeOK
  <2>1. queue \in Seq(Nat) /\ wire \in Seq(Nat) OBVIOUS
  <2>2. pc \in [Writers -> PCs] /\ msg \in [Writers -> Nat] BY DEF PCs
  <2>3. QED BY <2>1, <2>2 DEF TypeOK
<1>2. WriterMutex BY WritersAssumption DEF WriterMutex, InLoop
<1>3. InHand BY DEF InHand
<1>4. Order BY DEF Order, InOrder, SortedQueue
<1>5. Tracked BY DEF Tracked
<1>6. Owed BY DEF Owed, Failed
<1>7. QED BY <1>1, <1>2, <1>3, <1>4, <1>5, <1>6 DEF IInv

(* The head of the queue is served by a task without a message in hand. *)
LEMMA HeadServes ==
    ASSUME IInv, NEW w \in Writers, lock \in {w, NoWriter}, pc[w] # "write",
           queue # <<>>, Head(queue) # None
    PROVE  Serves(w, Head(queue), Tail(queue))
<1> DEFINE m == Head(queue)
           rest == Tail(queue)
<1> USE DEF None
<1>1. /\ queue \in Seq(Nat) /\ Len(queue) \in Nat \ {0}
      /\ m = queue[1] /\ m \in Nat \ {None} /\ rest \in Seq(Nat)
      /\ Len(rest) = Len(queue) - 1
      /\ \A i \in DOMAIN rest : i + 1 \in DOMAIN queue /\ rest[i] = queue[i + 1] /\ i \in Nat \ {0}
      /\ \A i \in DOMAIN queue : i = 1 \/ (i - 1 \in DOMAIN rest /\ rest[i - 1] = queue[i])
      /\ DOMAIN queue = 1 .. Len(queue)
  BY SMTT(30) DEF IInv, TypeOK
<1>2. \A v \in Writers \ {w} : pc[v] \notin InLoop
  BY WritersAssumption DEF IInv, WriterMutex
<1>3. SortedQueue(rest)
  <2>1. \A i \in DOMAIN rest : rest[i] <= accepted
    BY <1>1 DEF IInv, Order, SortedQueue
  <2>2. ASSUME NEW i \in DOMAIN rest, NEW j \in DOMAIN rest, i < j, rest[i] # None, rest[j] # None
        PROVE  rest[i] < rest[j]
    <3>1. i + 1 < j + 1 BY <2>2, <1>1
    <3>2. QED BY <3>1, <2>2, <1>1 DEF IInv, Order, SortedQueue
  <2>3. QED BY <2>1, <2>2 DEF SortedQueue
<1>4. Between(m, rest)
  <2>1. m <= accepted BY <1>1 DEF IInv, Order, SortedQueue
  <2>2. ASSUME NEW i \in DOMAIN rest, rest[i] # None PROVE m < rest[i]
    <3>1. 1 < i + 1 BY <1>1
    <3>2. QED BY <3>1, <2>2, <1>1 DEF IInv, Order, SortedQueue
  <2>3. \A i \in DOMAIN wire : wire[i] < m BY <1>1 DEF IInv, Order
  <2>4. QED BY <2>1, <2>2, <2>3 DEF Between
<1>5. \A k \in 1 .. accepted : \/ k \in dropped \/ k = m
                               \/ \E i \in DOMAIN wire : wire[i] = k
                               \/ \E i \in DOMAIN rest : rest[i] = k
  <2>1. \A v \in Writers : msg[v] = None
    BY <1>2 DEF IInv, InHand, InLoop
  <2>2. \A i \in DOMAIN queue : queue[i] = m \/ \E j \in DOMAIN rest : rest[j] = queue[i]
    BY <1>1
  <2>3. QED BY <2>1, <2>2 DEF IInv, Tracked
<1>6. unfinished >= Len(rest) + 1 + Failed
  BY <1>1 DEF IInv, Owed, TypeOK, Failed
<1>7. QED BY <1>1, <1>2, <1>3, <1>4, <1>5, <1>6 DEF Serves

(* The message in hand is served by the task that has it. *)
LEMMA HandServes ==
    ASSUME IInv, NEW w \in Writers, pc[w] = "write"
    PROVE  lock = w /\ Serves(w, msg[w], queue)
<1>1. lock = w BY DEF IInv, WriterMutex, InLoop
<1>2. \A v \in Writers \ {w} : pc[v] \notin InLoop
  BY <1>1 DEF IInv, WriterMutex
<1>3. msg[w] \in Nat \ {None} /\ queue \in Seq(Nat)
  BY DEF IInv, TypeOK, InHand
<1>4. SortedQueue(queue) /\ Between(msg[w], queue)
  BY <1>3 DEF IInv, Order
<1>5. \A k \in 1 .. accepted : \/ k \in dropped \/ k = msg[w]
                               \/ \E i \in DOMAIN wire : wire[i] = k
                               \/ \E i \in DOMAIN queue : queue[i] = k
  <2>1. \A v \in Writers \ {w} : msg[v] = None BY <1>2 DEF IInv, InHand, InLoop
  <2>2. QED BY <2>1 DEF IInv, Tracked, None
<1>6. unfinished >= Len(queue) + 1 + Failed BY DEF IInv, Owed
<1>7. QED BY <1>1, <1>2, <1>3, <1>4, <1>5, <1>6 DEF Serves

(* One call of _write_message() preserves the invariant. *)
LEMMA AttemptInv ==
    ASSUME IInv, NEW w \in Writers, NEW m, NEW rest, Serves(w, m, rest),
           Attempt(w, m, rest), WriterFrame
    PROVE  IInv'
<1> USE DEF None
<1>0. /\ m \in Nat \ {None} /\ rest \in Seq(Nat) /\ w \notin {NoWriter, Dead}
      /\ wire \in Seq(Nat) /\ unfinished \in Nat /\ accepted \in Nat
      /\ unfinished >= Len(rest) + 1 + Failed /\ Len(rest) \in Nat /\ Failed \in {0, 1}
      /\ pc \in [Writers -> PCs] /\ msg \in [Writers -> Nat]
  BY WritersAssumption DEF Serves, IInv, TypeOK, Failed
<1>a. accepted' = accepted BY DEF WriterFrame
<1>b. \A v \in Writers \ {w} : pc[v] \notin InLoop /\ pc[v] # "write" /\ msg[v] = None
  BY DEF Serves, IInv, InHand, InLoop
<1>1. CASE Written(w, m, rest)
  <2>1. /\ pc' = [pc EXCEPT ![w] = "loop"] /\ lock' = w
        /\ msg' = [msg EXCEPT ![w] = None]
        /\ wire' = Append(wire, m) /\ dropped' = dropped
    BY <1>1 DEF Written, Suspend
  <2>2. PICK stop \in {TRUE, FALSE} :
            /\ queue' = IF stop THEN Append(rest, None) ELSE rest
            /\ unfinished' = IF stop THEN unfinished ELSE unfinished - 1
    BY <1>1, <1>0 DEF Written, PauseOn, Paused
  <2>3. /\ queue' \in Seq(Nat)
        /\ \A i \in DOMAIN queue' : queue'[i] # None => i \in DOMAIN rest /\ queue'[i] = rest[i]
        /\ \A i \in DOMAIN rest : i \in DOMAIN queue' /\ queue'[i] = rest[i]
        /\ unfinished' >= Len(queue') + Failed /\ unfinished' \in Nat
    BY <2>2, <1>0
  <2>4. TypeOK'
    <3>1. /\ full' \in BOOLEAN /\ restartWriter' \in BOOLEAN
          /\ UNCHANGED <<transport, everStarted, closing, conns>>
      BY <1>1 DEF Written, WriterFrame, IInv, TypeOK
    <3>2. pc' \in [Writers -> PCs] /\ msg' \in [Writers -> Nat] /\ wire' \in Seq(Nat)
      BY <2>1, <1>0 DEF PCs
    <3>3. QED BY <3>1, <3>2, <2>1, <2>3, <1>a DEF IInv, TypeOK
  <2>5. WriterMutex' /\ InHand'
    BY <2>1, <1>0, <1>b DEF IInv, WriterMutex, InHand, InLoop
  <2>6. SortedQueue(queue)'
    <3>1. \A i \in DOMAIN queue' : queue'[i] <= accepted
      <4>1. SUFFICES ASSUME NEW i \in DOMAIN queue' PROVE queue'[i] <= accepted
        OBVIOUS
      <4>2. CASE queue'[i] = None BY <4>2, <1>0
      <4>3. CASE queue'[i] # None BY <4>3, <2>3 DEF Serves, SortedQueue
      <4>4. QED BY <4>2, <4>3
    <3>2. \A i, j \in DOMAIN queue' :
              (i < j /\ queue'[i] # None /\ queue'[j] # None) => queue'[i] < queue'[j]
      BY <2>3 DEF Serves, SortedQueue
    <3>3. QED BY <3>1, <3>2, <1>a DEF SortedQueue
  <2>7. \A v \in Writers : msg'[v] = None BY <2>1, <1>0, <1>b
  <2>w. /\ Len(wire') = Len(wire) + 1 /\ Len(wire) \in Nat
        /\ DOMAIN wire = 1 .. Len(wire) /\ DOMAIN wire' = 1 .. Len(wire) + 1
        /\ \A i \in DOMAIN wire : wire'[i] = wire[i] /\ wire[i] \in Nat
        /\ wire'[Len(wire) + 1] = m
    BY <2>1, <1>0
  <2>8. /\ \A i \in DOMAIN wire' : wire'[i] <= accepted
        /\ \A i \in DOMAIN wire', j \in DOMAIN queue' :
                queue'[j] # None => wire'[i] < queue'[j]
        /\ InOrder'
    <3>1. \A i \in DOMAIN wire' : i \in DOMAIN wire \/ (i = Len(wire) + 1 /\ wire'[i] = m)
      BY <2>w
    <3>2. \A i \in DOMAIN wire' : wire'[i] <= accepted
      BY <3>1, <2>w DEF Serves, Between, IInv, Order
    <3>3. \A i \in DOMAIN wire, j \in DOMAIN rest : rest[j] # None => wire[i] < rest[j]
      BY <2>w, <1>0 DEF Serves, Between
    <3>4. \A i \in DOMAIN wire', j \in DOMAIN queue' :
                queue'[j] # None => wire'[i] < queue'[j]
      BY <3>1, <3>3, <2>w, <2>3 DEF Serves, Between
    <3>5. InOrder'
      <4>1. SUFFICES ASSUME NEW i \in DOMAIN wire', NEW j \in DOMAIN wire', i < j
                     PROVE  wire'[i] < wire'[j]
        BY DEF InOrder
      <4>2. i \in DOMAIN wire BY <4>1, <2>w
      <4>3. QED BY <4>1, <4>2, <3>1, <2>w DEF Serves, Between, IInv, Order, InOrder
    <3>6. QED BY <3>2, <3>4, <3>5
  <2>9. Order' BY <2>6, <2>7, <2>8, <1>a DEF Order
  <2>10. Tracked'
    <3>1. \A k : (\E i \in DOMAIN wire : wire[i] = k) \/ k = m
                    => \E i \in DOMAIN wire' : wire'[i] = k
      BY <2>w
    <3>2. \A k : (\E i \in DOMAIN rest : rest[i] = k)
                    => \E i \in DOMAIN queue' : queue'[i] = k
      BY <2>3
    <3>3. QED BY <3>1, <3>2, <2>1, <1>a DEF Serves, Tracked
  <2>13. \A v \in Writers : pc'[v] # "write" BY <2>1, <1>0, <1>b
  <2>14. Owed' BY <2>13, <2>3, <2>1 DEF Owed, Failed
  <2>15. QED BY <2>4, <2>5, <2>9, <2>10, <2>14 DEF IInv
<1>2. CASE WriteRaises(w, m, rest) \/ PackingRaises(w, m, rest)
  <2>1. /\ msg' = [msg EXCEPT ![w] = None]
        /\ wire' = wire /\ dropped' = dropped \cup {m}
        /\ queue' = rest /\ unfinished' = unfinished
        /\ full' = full /\ restartWriter' \in {TRUE, restartWriter}
    BY <1>2 DEF WriteRaises, PackingRaises, Suspend
  <2>p. PICK at \in {"loop", "finished"} :
            /\ pc' = [pc EXCEPT ![w] = at]
            /\ lock' = IF at = "loop" THEN w ELSE Dead
    BY <1>2 DEF WriteRaises, PackingRaises, Suspend
  <2>2. TypeOK'
    BY <1>0, <2>1, <2>p DEF WriterFrame, IInv, TypeOK, PCs
  <2>3. WriterMutex' /\ InHand'
    <3>1. \A v \in Writers : v # Dead BY WritersAssumption
    <3>2. QED
      BY <3>1, <2>1, <2>p, <1>0, <1>b DEF IInv, WriterMutex, InHand, InLoop
  <2>4. \A v \in Writers : msg'[v] = None /\ pc'[v] # "write" BY <2>1, <2>p, <1>0, <1>b
  <2>5. Order'
    <3>1. SortedQueue(queue)' BY <2>1, <1>a DEF Serves, SortedQueue
    <3>2. \A i \in DOMAIN wire, j \in DOMAIN rest : rest[j] # None => wire[i] < rest[j]
      BY <1>0 DEF Serves, Between
    <3>3. QED BY <3>1, <3>2, <2>4, <2>1, <1>a DEF IInv, Order, InOrder
  <2>6. Tracked'
    BY <2>1, <1>a DEF Serves, Tracked
  <2>7. Owed'
    BY <2>1, <2>4, <1>0 DEF Owed, Failed
  <2>8. QED BY <2>2, <2>3, <2>5, <2>6, <2>7 DEF IInv
<1>3. CASE BackOff(w, m, rest)
  <2>1. /\ pc' = [pc EXCEPT ![w] = "write"] /\ lock' = w
        /\ msg' = [msg EXCEPT ![w] = m]
        /\ wire' = wire /\ dropped' = dropped
        /\ queue' = rest /\ unfinished' = unfinished
    BY <1>3 DEF BackOff, Suspend
  <2>2. TypeOK'
    BY <1>3, <1>0, <2>1 DEF BackOff, WriterFrame, IInv, TypeOK, PCs
  <2>3. WriterMutex' /\ InHand'
    BY <2>1, <1>0, <1>b DEF IInv, WriterMutex, InHand, InLoop
  <2>4. Order'
    <3>1. SortedQueue(queue)' BY <2>1, <1>a DEF Serves, SortedQueue
    <3>2. \A i \in DOMAIN wire, j \in DOMAIN rest : rest[j] # None => wire[i] < rest[j]
      BY <1>0 DEF Serves, Between
    <3>3. \A v \in Writers : msg'[v] # None => Between(msg[v], queue)'
      BY <2>1, <1>0, <1>a, <1>b DEF Serves, Between
    <3>4. QED BY <3>1, <3>2, <3>3, <2>1, <1>a DEF IInv, Order, InOrder
  <2>5. Tracked'
    <3>1. msg'[w] = m BY <2>1, <1>0
    <3>2. QED BY <3>1, <2>1, <1>a DEF Serves, Tracked
  <2>6. Owed'
    BY <2>1, <1>0 DEF Owed, Failed
  <2>7. QED BY <2>2, <2>3, <2>4, <2>5, <2>6 DEF IInv
<1>4. QED BY <1>1, <1>2, <1>3 DEF Attempt

(* The parts of the invariant that only look at messages, when no message
   moves: the queue may have gained or lost a None.                         *)
LEMMA NoMessageMoves ==
    ASSUME IInv, TypeOK', UNCHANGED <<msg, accepted, wire, dropped>>,
           \A i \in DOMAIN queue' : queue'[i] # None =>
               \E k \in DOMAIN queue : queue[k] = queue'[i],
           \A i, j \in DOMAIN queue' : (i < j /\ queue'[i] # None /\ queue'[j] # None) =>
               queue'[i] < queue'[j],
           \A k \in DOMAIN queue : queue[k] # None =>
               \E i \in DOMAIN queue' : queue'[i] = queue[k]
    PROVE  Order' /\ Tracked'
<1> USE DEF None
<1>1. accepted \in Nat /\ queue' \in Seq(Nat) BY DEF TypeOK
<1>2. \A i \in DOMAIN queue' : queue'[i] <= accepted
  BY <1>1 DEF IInv, Order, SortedQueue
<1>3. SortedQueue(queue)' BY <1>2 DEF SortedQueue
<1>4. \A w \in Writers : msg'[w] # None => Between(msg[w], queue)'
  BY DEF IInv, Order, Between
<1>5. \A i \in DOMAIN wire', j \in DOMAIN queue' : queue'[j] # None => wire'[i] < queue'[j]
  BY DEF IInv, Order
<1>6. Order' BY <1>3, <1>4, <1>5 DEF IInv, Order, InOrder
<1>7. Tracked' BY DEF IInv, Tracked
<1>8. QED BY <1>6, <1>7

(* A task that may hold the lock, with no message in hand, looks at the queue. *)
LEMMA TakeHeadInv ==
    ASSUME IInv, NEW w \in Writers, lock \in {w, NoWriter}, pc[w] # "write",
           TakeHead(w), WriterFrame
    PROVE  IInv'
<1> USE DEF None
<1>1. CASE Head(queue) # None
  <2>1. Attempt(w, Head(queue), Tail(queue)) BY <1>1 DEF TakeHead
  <2>2. queue # <<>> BY DEF TakeHead
  <2>3. Serves(w, Head(queue), Tail(queue)) BY <1>1, <2>2, HeadServes
  <2>4. QED BY <2>1, <2>3, AttemptInv
<1>2. CASE Head(queue) = None
  <2>1. /\ queue # <<>> /\ queue' = Tail(queue) /\ restartWriter' = FALSE
        /\ lock' = NoWriter /\ pc' = [pc EXCEPT ![w] = "finished"]
        /\ msg' = [msg EXCEPT ![w] = None]
        /\ UNCHANGED <<full, unfinished, wire, dropped>>
        /\ UNCHANGED <<transport, everStarted, closing, accepted, conns>>
    BY <1>2 DEF TakeHead, Return, WriterFrame
  <2>2. /\ queue \in Seq(Nat) /\ queue' \in Seq(Nat) /\ Len(queue') = Len(queue) - 1
        /\ Len(queue) \in Nat
        /\ \A i \in DOMAIN queue' : i + 1 \in DOMAIN queue /\ queue'[i] = queue[i + 1] /\ i \in Nat
        /\ \A i \in DOMAIN queue : queue[i] = None
                \/ (i - 1 \in DOMAIN queue' /\ queue'[i - 1] = queue[i])
    <3>1. /\ queue \in Seq(Nat) /\ queue # <<>> /\ queue' = Tail(queue)
          /\ Head(queue) = 0
      BY <2>1, <1>2 DEF IInv, TypeOK
    <3>2. QED BY <3>1
  <2>3. pc' \in [Writers -> PCs] /\ msg' \in [Writers -> Nat]
    BY <2>1 DEF IInv, TypeOK, PCs
  <2>4. TypeOK' BY <2>1, <2>2, <2>3 DEF IInv, TypeOK
  <2>5. \A v \in Writers \ {w} : pc[v] \notin InLoop
    BY WritersAssumption DEF IInv, WriterMutex
  <2>6. WriterMutex' BY <2>1, <2>5, WritersAssumption DEF WriterMutex, InLoop, IInv, TypeOK
  <2>7. msg' = msg
    <3>1. msg[w] = None BY DEF IInv, InHand
    <3>2. QED BY <3>1, <2>1 DEF IInv, TypeOK
  <2>8. InHand' BY <2>1, <2>7 DEF IInv, InHand, TypeOK
  <2>9. \A i, j \in DOMAIN queue' : (i < j /\ queue'[i] # None /\ queue'[j] # None) =>
               queue'[i] < queue'[j]
    <3>1. SUFFICES ASSUME NEW i \in DOMAIN queue', NEW j \in DOMAIN queue', i < j,
                          queue'[i] # None, queue'[j] # None
                   PROVE  queue'[i] < queue'[j]
      OBVIOUS
    <3>2. i + 1 < j + 1 BY <3>1, <2>2
    <3>3. QED BY <3>1, <3>2, <2>2 DEF IInv, Order, SortedQueue
  <2>10. Order' /\ Tracked' BY <2>1, <2>2, <2>4, <2>7, <2>9, NoMessageMoves
  <2>11. Owed'
    <3>1. \A v \in Writers : pc'[v] # "write" BY <2>1, <2>5 DEF IInv, TypeOK, InLoop
    <3>2. QED BY <3>1, <2>1, <2>2 DEF IInv, TypeOK, Owed, Failed
  <2>12. QED BY <2>4, <2>6, <2>8, <2>10, <2>11 DEF IInv
<1>3. QED BY <1>1, <1>2

(* Evaluating the loop condition, and what follows up to the next suspension,
   preserves the invariant.                                                 *)
LEMMA LoopHeadInv ==
    ASSUME IInv, NEW w \in Writers, lock \in {w, NoWriter}, pc[w] # "write",
           LoopHead(w), WriterFrame
    PROVE  IInv'
<1> USE DEF None
<1>1. CASE TakeHead(w) BY <1>1, TakeHeadInv
<1>2. CASE ~TakeHead(w)
  <2>1. PICK at \in {"finished", "get"} :
        /\ pc' = [pc EXCEPT ![w] = at]
        /\ lock' = IF at = "get" THEN w ELSE NoWriter
        /\ msg' = [msg EXCEPT ![w] = None]
        /\ UNCHANGED <<full, restartWriter, queue, unfinished, wire, dropped>>
        /\ UNCHANGED <<transport, everStarted, closing, accepted, conns>>
    BY <1>2 DEF LoopHead, Return, Suspend, WriterFrame
  <2>2. msg' = msg
    <3>1. msg[w] = None BY DEF IInv, InHand
    <3>2. QED BY <3>1, <2>1 DEF IInv, TypeOK
  <2>3. pc' \in [Writers -> PCs] BY <2>1 DEF IInv, TypeOK, PCs
  <2>4. TypeOK' BY <2>1, <2>2, <2>3 DEF IInv, TypeOK
  <2>5. \A v \in Writers \ {w} : pc[v] \notin InLoop
    BY WritersAssumption DEF IInv, WriterMutex
  <2>6. WriterMutex' BY <2>1, <2>5, WritersAssumption DEF WriterMutex, InLoop, IInv, TypeOK
  <2>7. InHand' BY <2>1, <2>2 DEF IInv, InHand, TypeOK
  <2>8. Order' /\ Tracked'
    BY <2>1, <2>2 DEF IInv, Order, SortedQueue, Between, InOrder, Tracked
  <2>9. Owed'
    BY <2>1 DEF IInv, TypeOK, Owed, Failed
  <2>10. QED BY <2>4, <2>6, <2>7, <2>8, <2>9 DEF IInv
<1>3. QED BY <1>1, <1>2

(* Tasks move between states outside the loop, and nothing else that the
   invariant speaks of changes.                                             *)
LEMMA OutsideLoop ==
    ASSUME IInv, TypeOK',
           UNCHANGED <<lock, queue, unfinished, msg, accepted, wire, dropped>>,
           \A v \in Writers : pc'[v] = pc[v] \/ {pc[v], pc'[v]} \cap InLoop = {}
    PROVE  IInv'
<1>1. \A v \in Writers : /\ pc'[v] \in InLoop <=> pc[v] \in InLoop
                         /\ pc'[v] = "write" <=> pc[v] = "write"
  BY DEF InLoop
<1>2. WriterMutex' BY <1>1 DEF IInv, WriterMutex
<1>3. InHand' BY <1>1 DEF IInv, InHand
<1>4. Order' /\ Tracked'
  BY DEF IInv, Order, SortedQueue, Between, InOrder, Tracked
<1>5. Owed' BY <1>1 DEF IInv, Owed, Failed
<1>6. QED BY <1>2, <1>3, <1>4, <1>5 DEF IInv

(* restart_writing() moves at most one idle slot to "created". *)
LEMMA RestartMoves ==
    ASSUME NEW restart, NEW p \in [Writers -> PCs], RestartWriting(restart, p),
           everStarted \in BOOLEAN
    PROVE  /\ pc' \in [Writers -> PCs] /\ everStarted' \in BOOLEAN
           /\ \A v \in Writers : pc'[v] = p[v] \/ (p[v] = "idle" /\ pc'[v] = "created")
BY DEF RestartWriting, PCs

(* connection_made() creates at most one task, and moves no message. *)
LEMMA ConnectionMadeInv == IInv /\ ConnectionMade => IInv'
<1> SUFFICES ASSUME IInv, ConnectionMade PROVE IInv' OBVIOUS
<1>1. pc \in [Writers -> PCs] /\ everStarted \in BOOLEAN BY DEF IInv, TypeOK
<1>2. RestartWriting(TRUE, pc) BY DEF ConnectionMade
<1>3. /\ pc' \in [Writers -> PCs] /\ everStarted' \in BOOLEAN
      /\ \A v \in Writers : pc'[v] = pc[v] \/ (pc[v] = "idle" /\ pc'[v] = "created")
  BY <1>1, <1>2, RestartMoves
<1>4. TypeOK'
  <2>0. conns' = conns + 1 /\ full' = FALSE /\ restartWriter' = TRUE /\ transport' = "open"
    BY DEF ConnectionMade
  <2>1. conns' \in Nat BY <2>0 DEF IInv, TypeOK
  <2>2. UNCHANGED <<closing, lock, queue, unfinished, msg, accepted, wire, dropped>>
    BY DEF ConnectionMade
  <2>3. QED BY <1>3, <2>0, <2>1, <2>2 DEF IInv, TypeOK
<1>5. \A v \in Writers : pc'[v] = pc[v] \/ {pc[v], pc'[v]} \cap InLoop = {}
  BY <1>3 DEF InLoop
<1>6. QED BY <1>4, <1>5, OutsideLoop DEF ConnectionMade

(* So does the done callback of a task. *)
LEMMA WriterDoneInv ==
    ASSUME IInv, NEW w \in Writers, WriterDone(w)
    PROVE  IInv'
<1> DEFINE p == [pc EXCEPT ![w] = "idle"]
<1>1. pc[w] = "finished" /\ RestartWriting(restartWriter, p) BY DEF WriterDone
<1>2. p \in [Writers -> PCs] /\ everStarted \in BOOLEAN BY DEF IInv, TypeOK, PCs
<1>3. /\ pc' \in [Writers -> PCs] /\ everStarted' \in BOOLEAN
      /\ \A v \in Writers : pc'[v] = p[v] \/ (p[v] = "idle" /\ pc'[v] = "created")
  BY <1>1, <1>2, RestartMoves
<1>4. TypeOK' BY <1>3 DEF IInv, TypeOK, WriterDone
<1>5. \A v \in Writers : pc'[v] = pc[v] \/ {pc[v], pc'[v]} \cap InLoop = {}
  BY <1>3, <1>1 DEF InLoop, IInv, TypeOK
<1>6. QED BY <1>4, <1>5, OutsideLoop DEF WriterDone

(* A new task enters the loop with a free lock, or queues up for the lock. *)
LEMMA StartWriterInv ==
    ASSUME IInv, NEW w \in Writers, StartWriter(w)
    PROVE  IInv'
<1>1. CASE LockIsFree /\ LoopHead(w)
  BY <1>1, LoopHeadInv DEF StartWriter, LockIsFree
<1>2. CASE ~(LockIsFree /\ LoopHead(w))
  <2>1. /\ pc[w] = "created" /\ pc' = [pc EXCEPT ![w] = "lock"]
        /\ UNCHANGED <<full, restartWriter, lock, queue, unfinished, msg, wire, dropped>>
        /\ UNCHANGED <<transport, everStarted, closing, accepted, conns>>
    BY <1>2 DEF StartWriter, WriterFrame
  <2>2. pc' \in [Writers -> PCs] BY <2>1 DEF IInv, TypeOK, PCs
  <2>3. TypeOK' BY <2>1, <2>2 DEF IInv, TypeOK
  <2>4. \A v \in Writers : pc'[v] = pc[v] \/ {pc[v], pc'[v]} \cap InLoop = {}
    BY <2>1 DEF InLoop, IInv, TypeOK
  <2>5. QED BY <2>1, <2>3, <2>4, OutsideLoop
<1>3. QED BY <1>1, <1>2

(* Every step of a writer task preserves the invariant. *)
LEMMA WriterStepInv ==
    ASSUME IInv, NEW w \in Writers, WriterStep(w)
    PROVE  IInv'
<1>1. CASE StartWriter(w) BY <1>1, StartWriterInv
<1>2. CASE GetLock(w) BY <1>2, LoopHeadInv DEF GetLock
<1>3. CASE GetItem(w)
  <2>1. lock = w BY <1>3 DEF GetItem, IInv, WriterMutex, InLoop
  <2>2. QED BY <1>3, <2>1, TakeHeadInv DEF GetItem
<1>4. CASE Retry(w)
  <2>1. Serves(w, msg[w], queue) BY <1>4, HandServes DEF Retry
  <2>2. QED BY <1>4, <2>1, AttemptInv DEF Retry
<1>5. CASE Continue(w)
  <2>1. lock = w BY <1>5 DEF Continue, IInv, WriterMutex, InLoop
  <2>2. QED BY <1>5, <2>1, LoopHeadInv DEF Continue
<1>6. CASE WriterDone(w) BY <1>6, WriterDoneInv
<1>7. QED BY <1>1, <1>2, <1>3, <1>4, <1>5, <1>6 DEF WriterStep

(* pause_writing() puts a None behind the messages. *)
LEMMA ConnectionLostInv == IInv /\ ConnectionLost => IInv'
<1> SUFFICES ASSUME IInv, ConnectionLost PROVE IInv' OBVIOUS
<1> USE DEF None
<1>1. /\ queue' = (IF everStarted THEN Append(queue, None) ELSE queue)
      /\ unfinished' = (IF everStarted THEN unfinished + 1 ELSE unfinished)
      /\ queue \in Seq(Nat) /\ unfinished \in Nat
  BY DEF ConnectionLost, PauseOn, Paused, IInv, TypeOK
<1>2. /\ queue' \in Seq(Nat) /\ unfinished' \in Nat
      /\ unfinished' - unfinished = Len(queue') - Len(queue)
      /\ \A i \in DOMAIN queue' : queue'[i] # None => i \in DOMAIN queue /\ queue'[i] = queue[i]
      /\ \A i \in DOMAIN queue : i \in DOMAIN queue' /\ queue'[i] = queue[i]
      /\ Len(queue) \in Nat /\ Len(queue') \in Nat
  BY <1>1
<1>3. TypeOK' BY <1>2 DEF ConnectionLost, IInv, TypeOK
<1>4. \A i, j \in DOMAIN queue' : (i < j /\ queue'[i] # None /\ queue'[j] # None) =>
          queue'[i] < queue'[j]
  BY <1>2 DEF IInv, Order, SortedQueue
<1>5. UNCHANGED <<msg, accepted, wire, dropped, lock, pc>> BY DEF ConnectionLost
<1>6. Order' /\ Tracked' BY <1>2, <1>3, <1>4, <1>5, NoMessageMoves
<1>7. WriterMutex' /\ InHand' BY <1>5 DEF IInv, WriterMutex, InHand
<1>8. Owed' BY SMTT(30), <1>2, <1>5 DEF IInv, Owed, TypeOK, Failed
<1>9. QED BY <1>3, <1>6, <1>7, <1>8 DEF IInv

(* send_message() puts the newest message behind all others. *)
LEMMA SendMessageInv == IInv /\ SendMessage => IInv'
<1> SUFFICES ASSUME IInv, SendMessage PROVE IInv' OBVIOUS
<1> USE DEF None
<1> DEFINE n == accepted + 1
<1>1. /\ queue' = Append(queue, n) /\ accepted' = n /\ unfinished' = unfinished + 1
      /\ UNCHANGED <<transport, full, restartWriter, everStarted, closing, lock,
                      pc, msg, wire, dropped, conns>>
      /\ queue \in Seq(Nat) /\ unfinished \in Nat /\ accepted \in Nat /\ wire \in Seq(Nat)
      /\ msg \in [Writers -> Nat]
  BY DEF SendMessage, IInv, TypeOK
<1>2. /\ queue' \in Seq(Nat) /\ Len(queue') = Len(queue) + 1 /\ Len(queue) \in Nat
      /\ DOMAIN queue = 1 .. Len(queue) /\ DOMAIN queue' = 1 .. Len(queue) + 1
      /\ \A i \in DOMAIN queue : queue'[i] = queue[i] /\ queue[i] \in Nat
      /\ queue'[Len(queue) + 1] = n
  BY <1>1
<1>3. \A i \in DOMAIN queue' : i \in DOMAIN queue \/ (i = Len(queue) + 1 /\ queue'[i] = n)
  BY <1>2
<1>4. TypeOK' BY <1>1, <1>2 DEF IInv, TypeOK
<1>5. \A i \in DOMAIN queue : queue[i] < n BY <1>1, <1>2 DEF IInv, Order, SortedQueue
<1>6. SortedQueue(queue)'
  <2>1. \A i \in DOMAIN queue' : queue'[i] <= n BY <1>1, <1>2, <1>3, <1>5
  <2>2. SUFFICES ASSUME NEW i \in DOMAIN queue', NEW j \in DOMAIN queue', i < j,
                        queue'[i] # None, queue'[j] # None
                 PROVE  queue'[i] < queue'[j]
    BY <2>1, <1>1 DEF SortedQueue
  <2>3. i \in DOMAIN queue BY <2>2, <1>2
  <2>4. QED BY <2>2, <2>3, <1>2, <1>3, <1>5 DEF IInv, Order, SortedQueue
<1>7. \A w \in Writers : msg'[w] # None => Between(msg[w], queue)'
  <2>1. SUFFICES ASSUME NEW w \in Writers, msg[w] # None PROVE Between(msg[w], queue)'
    BY <1>1
  <2>2. Between(msg[w], queue) BY <2>1 DEF IInv, Order
  <2>3. QED BY <2>2, <1>1, <1>2, <1>3 DEF Between
<1>8. /\ \A i \in DOMAIN wire' : wire'[i] <= accepted'
      /\ \A i \in DOMAIN wire', j \in DOMAIN queue' : queue'[j] # None => wire'[i] < queue'[j]
  <2>1. \A i \in DOMAIN wire : wire[i] \in Nat /\ wire[i] < n BY <1>1 DEF IInv, Order
  <2>2. QED BY <2>1, <1>1, <1>2, <1>3 DEF IInv, Order
<1>9. Order' BY <1>1, <1>6, <1>7, <1>8 DEF IInv, Order, InOrder
<1>10. Tracked'
  <2>1. SUFFICES ASSUME NEW k \in 1 .. n
                 PROVE  \/ k \in dropped
                        \/ \E i \in DOMAIN wire : wire[i] = k
                        \/ \E i \in DOMAIN queue' : queue'[i] = k
                        \/ \E w \in Writers : msg[w] = k
    BY <1>1 DEF Tracked
  <2>2. CASE k = n BY <2>2, <1>2
  <2>3. CASE k \in 1 .. accepted BY <2>3, <1>2 DEF IInv, Tracked
  <2>4. QED BY <2>2, <2>3, <1>1
<1>11. WriterMutex' /\ InHand' BY <1>1 DEF IInv, WriterMutex, InHand
<1>12. Owed' BY <1>1, <1>2 DEF IInv, Owed, Failed
<1>13. QED BY <1>4, <1>9, <1>10, <1>11, <1>12 DEF IInv

(* Every step of the protocol object preserves the invariant. *)
LEMMA StepInv == IInv /\ [Next]_vars => IInv'
<1> SUFFICES ASSUME IInv, [Next]_vars PROVE IInv' OBVIOUS
<1>1. CASE ConnectionMade BY <1>1, ConnectionMadeInv
<1>2. CASE TransportFails \/ Close \/ TransportDrains
  <2>1. TypeOK'
    <3>1. CASE TransportFails BY <3>1 DEF TransportFails, IInv, TypeOK
    <3>2. CASE Close BY <3>2 DEF Close, IInv, TypeOK
    <3>3. CASE TransportDrains BY <3>3 DEF TransportDrains, IInv, TypeOK
    <3>4. QED BY <3>1, <3>2, <3>3, <1>2
  <2>2. QED BY <1>2, <2>1, OutsideLoop DEF TransportFails, Close, TransportDrains
<1>3. CASE ConnectionLost BY <1>3, ConnectionLostInv
<1>4. CASE SendMessage BY <1>4, SendMessageInv
<1>5. ASSUME NEW w \in Writers, WriterStep(w) PROVE IInv' BY <1>5, WriterStepInv
<1>6. CASE UNCHANGED vars
  <2>1. TypeOK' BY <1>6 DEF vars, IInv, TypeOK
  <2>2. QED BY <1>6, <2>1, OutsideLoop DEF vars
<1>7. QED BY <1>1, <1>2, <1>3, <1>4, <1>5, <1>6 DEF Next
-----------------------------------------------------------------------------
(* The invariant implies the stated properties. *)
LEMMA InvImplies == IInv => TypeOK /\ WriterMutex /\ InOrder /\ NothingForgotten /\ JoinSound
<1> SUFFICES ASSUME IInv PROVE NothingForgotten /\ JoinSound BY DEF IInv, Order
<1> USE DEF None
<1>1. NothingForgotten
  BY DEF IInv, TypeOK, Tracked, NothingForgotten, OnWire, Queued, InFlight
<1>2. ASSUME unfinished = 0 PROVE 1 .. accepted \subseteq OnWire
  <2>1. queue \in Seq(Nat) /\ Len(queue) \in Nat /\ Failed \in {0, 1}
    BY DEF IInv, TypeOK, Failed
  <2>2. Len(queue) = 0 /\ Failed = 0 BY <2>1, <1>2 DEF IInv, Owed
  <2>3. dropped = {} BY <2>2 DEF Failed
  <2>4. \A w \in Writers : pc[w] # "write" BY <1>2, <2>1 DEF IInv, Owed
  <2>5. \A w \in Writers : msg[w] = None BY <2>4 DEF IInv, InHand
  <2>6. QED BY <2>1, <2>2, <2>3, <2>5 DEF IInv, Tracked, OnWire
<1>3. QED BY <1>1, <1>2 DEF JoinSound

(* Every reachable state satisfies the inductive invariant. *)
THEOREM Inductive == Spec => []IInv
BY InitInv, StepInv, PTL DEF Spec

(* Each variable keeps a value of its kind. *)
THEOREM TypeCorrect == Spec => []TypeOK
BY Inductive, InvImplies, PTL

(* Whatever reconnects and done callbacks do, only the owner of the write lock
   is inside the writer's loop.                                             *)
THEOREM Mutex == Spec => []WriterMutex
BY Inductive, InvImplies, PTL

(* Messages are written in the order of send_message(), none of them twice. *)
THEOREM WrittenInOrder == Spec => []InOrder
BY Inductive, InvImplies, PTL

(* No accepted message is forgotten. *)
THEOREM NoneForgotten == Spec => []NothingForgotten
BY Inductive, InvImplies, PTL

(* join() returns only when every accepted message has been written. *)
THEOREM JoinIsSound == Spec => []JoinSound
BY Inductive, InvImplies, PTL
-----------------------------------------------------------------------------
(* Refinement: the messages queued or in hand are the Outbox's pending set. *)
Pend == Queued \cup InFlight

In(k, q) == \E i \in DOMAIN q : q[i] = k

(* Membership in the pending set, in the state before a step and after it. *)
LEMMA PendingIs ==
    \A k : k \in Pend <=> k # None /\ (In(k, queue) \/ \E w \in Writers : msg[w] = k)
BY DEF Pend, Queued, InFlight, In

(* The same in the state after the step. *)
LEMMA PendingIsPrimed ==
    \A k : k \in Pend' <=> k # None /\ (In(k, queue') \/ \E w \in Writers : msg'[w] = k)
BY DEF Pend, Queued, InFlight, In

Stutters == UNCHANGED <<accepted, Pend, wire>>

(* A call of _write_message() transmits or gives up the oldest message, or
   changes nothing the Outbox knows of.                                     *)
LEMMA AttemptMaps ==
    ASSUME IInv, NEW w \in Writers, NEW m, NEW rest, Serves(w, m, rest),
           \A k : k \in Pend <=> k = m \/ (k # None /\ In(k, rest)),
           Attempt(w, m, rest), WriterFrame
    PROVE  Abstract!OutNext \/ Stutters
<1> USE DEF None
<1>0. /\ m \in Nat \ {None} /\ rest \in Seq(Nat)
      /\ accepted' = accepted /\ msg \in [Writers -> Nat]
      /\ \A v \in Writers \ {w} : msg[v] = None
  BY DEF Serves, WriterFrame, IInv, TypeOK, InHand, InLoop
<1>1. \A k : In(k, rest) /\ k # None => k \in Nat /\ m < k
  BY <1>0 DEF Serves, Between, In
<1>2. m \in Pend /\ \A k \in Pend : m <= k
  BY <1>0, <1>1
<1>3. CASE Written(w, m, rest) \/ WriteRaises(w, m, rest)
                              \/ PackingRaises(w, m, rest)
  <2>1. msg' = [msg EXCEPT ![w] = None]
    BY <1>3 DEF Written, WriteRaises, PackingRaises, Suspend
  <2>2. \A v \in Writers : msg'[v] = None BY <2>1, <1>0
  <2>3. queue' = rest \/ queue' = Append(rest, None)
    BY <1>3 DEF Written, WriteRaises, PackingRaises, PauseOn
  <2>4. \A k : k # None => (In(k, queue') <=> In(k, rest))
    <3>1. CASE queue' = rest BY <3>1
    <3>2. CASE queue' = Append(rest, None)
      <4>1. /\ \A i \in DOMAIN rest : i \in DOMAIN queue' /\ queue'[i] = rest[i]
            /\ \A i \in DOMAIN queue' : queue'[i] = None
                    \/ (i \in DOMAIN rest /\ queue'[i] = rest[i])
        BY <3>2, <1>0
      <4>2. QED BY <4>1 DEF In
    <3>3. QED BY <3>1, <3>2, <2>3
  <2>5. \A k : k \in Pend' <=> k # None /\ In(k, rest)
    BY <2>2, <2>4, PendingIsPrimed
  <2>6. Pend' = Pend \ {m}
    <3>1. \A k : In(k, rest) /\ k # None => k # m BY <1>0, <1>1
    <3>2. QED BY <3>1, <2>5
  <2>7. CASE Written(w, m, rest)
    <3>1. wire' = Append(wire, m) BY <2>7 DEF Written
    <3>2. Abstract!Transmit(m)
      BY <3>1, <2>6, <1>2, <1>0 DEF Abstract!Transmit, Abstract!Oldest, Pend
    <3>3. QED BY <3>2, <1>2 DEF Abstract!OutNext, Pend
  <2>8. CASE WriteRaises(w, m, rest) \/ PackingRaises(w, m, rest)
    <3>1. wire' = wire BY <2>8 DEF WriteRaises, PackingRaises
    <3>2. Abstract!GiveUp(m)
      BY <3>1, <2>6, <1>2, <1>0 DEF Abstract!GiveUp, Abstract!Oldest, Pend
    <3>3. QED BY <3>2, <1>2 DEF Abstract!OutNext, Pend
  <2>9. QED BY <1>3, <2>7, <2>8
<1>4. CASE BackOff(w, m, rest)
  <2>1. msg' = [msg EXCEPT ![w] = m] /\ queue' = rest /\ wire' = wire
    BY <1>4 DEF BackOff, Suspend
  <2>2. msg'[w] = m /\ \A v \in Writers \ {w} : msg'[v] = None BY <2>1, <1>0
  <2>3. \A k : k \in Pend' <=> k = m \/ (k # None /\ In(k, rest))
    BY <2>1, <2>2, <1>0, PendingIsPrimed
  <2>4. Pend' = Pend BY <2>3
  <2>5. QED BY <2>1, <2>4, <1>0 DEF Stutters
<1>5. QED BY <1>3, <1>4 DEF Attempt

(* Taking the head of the queue alone is invisible to the Outbox. *)
LEMMA TakeHeadMaps ==
    ASSUME IInv, NEW w \in Writers, lock \in {w, NoWriter}, pc[w] # "write",
           TakeHead(w), WriterFrame
    PROVE  Abstract!OutNext \/ Stutters
<1> USE DEF None
<1>1. queue # <<>> /\ queue \in Seq(Nat) BY DEF TakeHead, IInv, TypeOK
<1>2. /\ \A i \in DOMAIN Tail(queue) : i + 1 \in DOMAIN queue /\ Tail(queue)[i] = queue[i + 1]
      /\ \A i \in DOMAIN queue : queue[i] = Head(queue)
              \/ (i - 1 \in DOMAIN Tail(queue) /\ Tail(queue)[i - 1] = queue[i])
      /\ 1 \in DOMAIN queue /\ queue[1] = Head(queue)
  BY <1>1
<1>3. \A k : In(k, queue) <=> k = Head(queue) \/ In(k, Tail(queue))
  BY <1>2 DEF In
<1>4. CASE Head(queue) # None
  <2>1. Attempt(w, Head(queue), Tail(queue)) BY <1>4 DEF TakeHead
  <2>2. Serves(w, Head(queue), Tail(queue)) BY <1>1, <1>4, HeadServes
  <2>3. \A v \in Writers : msg[v] = None
    BY <2>2 DEF Serves, IInv, InHand, InLoop
  <2>4. \A k : k \in Pend <=> k = Head(queue) \/ (k # None /\ In(k, Tail(queue)))
    BY <2>3, <1>3, <1>4, PendingIs
  <2>5. QED BY <2>1, <2>2, <2>4, AttemptMaps
<1>5. CASE Head(queue) = None
  <2>1. /\ queue' = Tail(queue) /\ msg' = [msg EXCEPT ![w] = None]
        /\ wire' = wire /\ accepted' = accepted
    BY <1>5 DEF TakeHead, Return, WriterFrame
  <2>2. msg' = msg
    <3>1. msg[w] = None BY DEF IInv, InHand
    <3>2. QED BY <3>1, <2>1 DEF IInv, TypeOK
  <2>3. \A k : k \in Pend' <=> k \in Pend
    BY <2>1, <2>2, <1>3, <1>5, PendingIs, PendingIsPrimed
  <2>4. Pend' = Pend BY <2>3
  <2>5. QED BY <2>1, <2>4 DEF Stutters
<1>6. QED BY <1>4, <1>5

(* So is evaluating the loop condition. *)
LEMMA LoopHeadMaps ==
    ASSUME IInv, NEW w \in Writers, lock \in {w, NoWriter}, pc[w] # "write",
           LoopHead(w), WriterFrame
    PROVE  Abstract!OutNext \/ Stutters
<1>1. CASE TakeHead(w) BY <1>1, TakeHeadMaps
<1>2. CASE ~TakeHead(w)
  <2>1. msg' = [msg EXCEPT ![w] = None] /\ UNCHANGED <<queue, wire, accepted>>
    BY <1>2 DEF LoopHead, Return, Suspend, WriterFrame
  <2>2. msg' = msg
    <3>1. msg[w] = None BY DEF IInv, InHand
    <3>2. QED BY <3>1, <2>1 DEF IInv, TypeOK
  <2>3. QED BY <2>1, <2>2 DEF Stutters, Pend, Queued, InFlight
<1>3. QED BY <1>1, <1>2

(* Every step of a writer task is a step of the Outbox or leaves it alone. *)
LEMMA WriterStepMaps ==
    ASSUME IInv, NEW w \in Writers, WriterStep(w)
    PROVE  Abstract!OutNext \/ Stutters
<1>1. CASE (StartWriter(w) /\ ~(LockIsFree /\ LoopHead(w))) \/ WriterDone(w)
  <2>1. UNCHANGED <<queue, msg, wire, accepted>>
    BY <1>1 DEF StartWriter, WriterDone, WriterFrame
  <2>2. QED BY <2>1 DEF Stutters, Pend, Queued, InFlight
<1>2. CASE StartWriter(w) /\ LockIsFree /\ LoopHead(w)
  BY <1>2, LoopHeadMaps DEF StartWriter, LockIsFree
<1>3. CASE GetLock(w) BY <1>3, LoopHeadMaps DEF GetLock
<1>4. CASE GetItem(w)
  <2>1. lock = w BY <1>4 DEF GetItem, IInv, WriterMutex, InLoop
  <2>2. QED BY <1>4, <2>1, TakeHeadMaps DEF GetItem
<1>5. CASE Retry(w)
  <2>1. Serves(w, msg[w], queue) BY <1>5, HandServes DEF Retry
  <2>2. \A v \in Writers \ {w} : msg[v] = None
    BY <2>1 DEF Serves, IInv, InHand, InLoop
  <2>3. \A k : k \in Pend <=> k = msg[w] \/ (k # None /\ In(k, queue))
    BY <2>1, <2>2, PendingIs DEF Serves
  <2>4. QED BY <1>5, <2>1, <2>3, AttemptMaps DEF Retry
<1>6. CASE Continue(w)
  <2>1. lock = w BY <1>6 DEF Continue, IInv, WriterMutex, InLoop
  <2>2. QED BY <1>6, <2>1, LoopHeadMaps DEF Continue
<1>7. QED BY <1>1, <1>2, <1>3, <1>4, <1>5, <1>6 DEF WriterStep

(* Every step of the protocol object is a step of the Outbox or leaves it
   alone; send_message() is Accept.                                         *)
LEMMA StepMaps == IInv /\ [Next]_vars => [Abstract!OutNext]_<<accepted, Pend, wire>>
<1> SUFFICES ASSUME IInv, [Next]_vars PROVE Abstract!OutNext \/ Stutters
  BY DEF Stutters
<1> USE DEF None
<1>1. CASE SendMessage
  <2>1. /\ queue' = Append(queue, accepted + 1) /\ accepted' = accepted + 1
        /\ UNCHANGED <<msg, wire>> /\ queue \in Seq(Nat) /\ accepted \in Nat
    BY <1>1 DEF SendMessage, IInv, TypeOK
  <2>2. \A k : In(k, queue') <=> k = accepted + 1 \/ In(k, queue)
    <3>1. /\ \A i \in DOMAIN queue : i \in DOMAIN queue' /\ queue'[i] = queue[i]
          /\ \A i \in DOMAIN queue' : queue'[i] = accepted + 1
                  \/ (i \in DOMAIN queue /\ queue'[i] = queue[i])
          /\ Len(queue) + 1 \in DOMAIN queue' /\ queue'[Len(queue) + 1] = accepted + 1
      BY <2>1
    <3>2. QED BY <3>1 DEF In
  <2>3. \A k : k \in Pend' <=> k = accepted + 1 \/ k \in Pend
    BY <2>1, <2>2, PendingIs, PendingIsPrimed
  <2>4. Pend' = Pend \cup {accepted + 1} BY <2>3
  <2>5. QED BY <2>1, <2>4 DEF Abstract!OutNext, Abstract!Accept, Pend
<1>2. CASE ConnectionLost
  <2>1. /\ queue' = (IF everStarted THEN Append(queue, None) ELSE queue)
        /\ UNCHANGED <<msg, wire, accepted>> /\ queue \in Seq(Nat)
    BY <1>2 DEF ConnectionLost, PauseOn, IInv, TypeOK
  <2>2. \A k : k # None => (In(k, queue') <=> In(k, queue))
    <3>1. /\ \A i \in DOMAIN queue : i \in DOMAIN queue' /\ queue'[i] = queue[i]
          /\ \A i \in DOMAIN queue' : queue'[i] = None
                  \/ (i \in DOMAIN queue /\ queue'[i] = queue[i])
      BY <2>1
    <3>2. QED BY <3>1 DEF In
  <2>3. \A k : k \in Pend' <=> k \in Pend
    BY <2>1, <2>2, PendingIs, PendingIsPrimed
  <2>4. Pend' = Pend BY <2>3
  <2>5. QED BY <2>1, <2>4 DEF Stutters
<1>3. CASE ConnectionMade \/ TransportFails \/ Close \/ TransportDrains \/ UNCHANGED vars
  <2>1. UNCHANGED <<queue, msg, wire, accepted>>
    BY <1>3 DEF ConnectionMade, TransportFails, Close, TransportDrains, vars
  <2>2. QED BY <2>1 DEF Stutters, Pend, Queued, InFlight
<1>4. ASSUME NEW w \in Writers, WriterStep(w) PROVE Abstract!OutNext \/ Stutters
  BY <1>4, WriterStepMaps
<1>5. QED BY <1>1, <1>2, <1>3, <1>4 DEF Next

(* The send side implements the Outbox: accept, then write once, oldest first,
   or give up a message whose write raised.                                 *)
THEOREM Refinement == Spec => ImplementsOutbox
<1>1. Init => Abstract!OutInit
  <2>1. ASSUME Init PROVE Queued \cup InFlight = {}
    BY <2>1 DEF Init, Queued, InFlight, None
  <2>2. QED BY <2>1 DEF Init, Abstract!OutInit
<1>2. IInv /\ [Next]_vars => [Abstract!OutNext]_(Abstract!outVars)
  BY StepMaps DEF Abstract!outVars, Pend
<1>3. QED BY <1>1, <1>2, Inductive, PTL DEF Spec, ImplementsOutbox, Abstract!OutSpec
-----------------------------------------------------------------------------
(* The controller. *)
LinkTypes == /\ stopped \in BOOLEAN /\ isConnected \in BOOLEAN
             /\ transport \in {"none", "open", "closing"} /\ conns \in Nat
             /\ notes \in Seq(BOOLEAN)
             /\ telling \in [BOOLEAN -> Nat]
             /\ cpc \in [Connectors -> CPCs]

(* Places of the changes of state that tell of a loss. *)
LossesIn(q) == {i \in 1 .. Len(q) : q[i] = FALSE}
Losses      == LossesIn(notes)

(* How many tasks are at their disconnect callbacks. *)
TearingDown == telling[FALSE]

(* One of them, or one task with its callbacks, or one connector is there, and
   no transport; or else none of all these.                                  *)
Right == /\ \A i, j \in Losses : i = j
         /\ TearingDown \in {0, 1}
         /\ \A c, d \in Active : c = d
         /\ Losses # {} => TearingDown = 0 /\ Active = {}
         /\ TearingDown > 0 => Active = {}
         /\ Losses # {} \/ TearingDown > 0 \/ Active # {} => transport = "none"

(* Before the first connection nobody but the caller is there. *)
Fresh == conns = 0 => /\ transport = "none" /\ notes = <<>> /\ TearingDown = 0
                      /\ Active \subseteq {User}

(* The changes q after the state b alternate, and end in the state up. *)
Alternating(b, q, up) ==
    /\ \A i \in 1 .. Len(q) : q[i] # IF i = 1 THEN b ELSE q[i - 1]
    /\ up = IF Len(q) = 0 THEN b ELSE q[Len(q)]

Attached == IF transport = "none" THEN FALSE ELSE TRUE

Told == ~stopped => Alternating(isConnected, notes, Attached)

(* stop() is what closes the protocol object. *)
StopCloses == stopped <=> closing

LinkInv == LinkTypes /\ Right /\ Fresh /\ StopCloses /\ Told
-----------------------------------------------------------------------------
(* Another change than the last one keeps the changes alternating. *)
LEMMA AlternatingAppend ==
    ASSUME NEW q \in Seq(BOOLEAN), NEW b \in BOOLEAN, NEW up \in BOOLEAN, NEW x \in BOOLEAN, x # up,
           Alternating(b, q, up)
    PROVE  Alternating(b, Append(q, x), x)
<1> DEFINE r == Append(q, x)
<1>1. /\ Len(r) = Len(q) + 1 /\ Len(q) \in Nat /\ r[Len(q) + 1] = x
      /\ \A i \in 1 .. Len(q) : r[i] = q[i]
    OBVIOUS
<1> HIDE DEF r
<1>2. ASSUME NEW i \in 1 .. Len(r) PROVE r[i] # IF i = 1 THEN b ELSE r[i - 1]
    <2>1. CASE i = Len(q) + 1 /\ Len(q) = 0
        <3>1. up = b  BY <2>1 DEF Alternating
        <3>2. r[i] = x /\ i = 1  BY <1>1, <2>1
        <3>3. QED  BY <3>1, <3>2
    <2>2. CASE i = Len(q) + 1 /\ Len(q) # 0
        <3>1. up = q[Len(q)]  BY <2>2 DEF Alternating
        <3>2. r[i] = x /\ i # 1 /\ r[i - 1] = q[Len(q)]  BY <1>1, <2>2
        <3>3. QED  BY <3>1, <3>2
    <2>3. CASE i # Len(q) + 1
        <3>1. i \in 1 .. Len(q) /\ r[i] = q[i]  BY <1>1, <2>3
        <3>2. i # 1 => r[i - 1] = q[i - 1]  BY <1>1, <3>1
        <3>3. QED  BY <3>1, <3>2 DEF Alternating
    <2>4. QED  BY <2>1, <2>2, <2>3
<1>3. x = IF Len(r) = 0 THEN b ELSE r[Len(r)]  BY <1>1
<1>4. QED  BY <1>2, <1>3 DEF Alternating, r

(* Telling the first change keeps them alternating. *)
LEMMA AlternatingTail ==
    ASSUME NEW q \in Seq(BOOLEAN), q # <<>>, NEW b, NEW up, Alternating(b, q, up)
    PROVE  Alternating(q[1], Tail(q), up)
<1> DEFINE r == Tail(q)
<1>1. /\ Len(r) = Len(q) - 1 /\ Len(q) >= 1 /\ Len(q) \in Nat
      /\ \A i \in 1 .. Len(r) : r[i] = q[i + 1]
    OBVIOUS
<1> HIDE DEF r
<1>2. ASSUME NEW i \in 1 .. Len(r) PROVE r[i] # IF i = 1 THEN q[1] ELSE r[i - 1]
    <2>1. i + 1 \in 1 .. Len(q) /\ r[i] = q[i + 1] /\ i + 1 # 1 /\ (i + 1) - 1 = i  BY <1>1
    <2>2. q[i + 1] # q[i]  BY <2>1 DEF Alternating
    <2>3. i # 1 => r[i - 1] = q[i]  BY <1>1
    <2>4. QED  BY <2>1, <2>2, <2>3
<1>3. up = IF Len(r) = 0 THEN q[1] ELSE r[Len(r)]
    <2>1. up = q[Len(q)]  BY <1>1 DEF Alternating
    <2>2. QED  BY <1>1, <2>1
<1>4. QED  BY <1>2, <1>3 DEF Alternating, r

(* The losses told of in a sequence of changes that grew or lost its head. *)
LEMMA LossesAppend ==
    ASSUME NEW q \in Seq(BOOLEAN)
    PROVE  /\ LossesIn(Append(q, TRUE)) = LossesIn(q)
           /\ LossesIn(Append(q, FALSE)) = LossesIn(q) \cup {Len(q) + 1}
<1>1. ASSUME NEW x \in BOOLEAN
      PROVE  /\ Len(Append(q, x)) = Len(q) + 1 /\ Len(q) \in Nat /\ Append(q, x)[Len(q) + 1] = x
             /\ \A i \in 1 .. Len(q) : Append(q, x)[i] = q[i]
    OBVIOUS
<1>2. LossesIn(Append(q, TRUE)) = LossesIn(q)
    <2> DEFINE r == Append(q, TRUE)
    <2>1. /\ Len(r) = Len(q) + 1 /\ Len(q) \in Nat /\ r[Len(q) + 1] = TRUE
          /\ \A i \in 1 .. Len(q) : r[i] = q[i]  BY <1>1
    <2> HIDE DEF r
    <2>2. r[Len(q) + 1] # FALSE  BY <2>1
    <2>3. 1 .. Len(r) = (1 .. Len(q)) \cup {Len(q) + 1}  BY <2>1
    <2>4. \A i : i \in LossesIn(r) <=> i \in LossesIn(q)  BY <2>1, <2>2, <2>3 DEF LossesIn
    <2>5. QED  BY <2>4 DEF r
<1>3. LossesIn(Append(q, FALSE)) = LossesIn(q) \cup {Len(q) + 1}
    <2> DEFINE r == Append(q, FALSE)
    <2>1. /\ Len(r) = Len(q) + 1 /\ Len(q) \in Nat /\ r[Len(q) + 1] = FALSE
          /\ \A i \in 1 .. Len(q) : r[i] = q[i]  BY <1>1
    <2> HIDE DEF r
    <2>2. 1 .. Len(r) = (1 .. Len(q)) \cup {Len(q) + 1}  BY <2>1
    <2>3. \A i : i \in LossesIn(r) <=> i \in LossesIn(q) \cup {Len(q) + 1}  BY <2>1, <2>2 DEF LossesIn
    <2>4. QED  BY <2>3 DEF r
<1>4. QED  BY <1>2, <1>3

(* The losses in the rest of the changes are those after the first. *)
LEMMA LossesTail ==
    ASSUME NEW q \in Seq(BOOLEAN), q # <<>>
    PROVE  /\ LossesIn(Tail(q)) = {i - 1 : i \in LossesIn(q) \ {1}}
           /\ 1 \in LossesIn(q) <=> q[1] = FALSE
<1> DEFINE r == Tail(q)
<1>1. /\ Len(r) = Len(q) - 1 /\ Len(q) >= 1 /\ Len(q) \in Nat
      /\ \A i \in 1 .. Len(r) : r[i] = q[i + 1]
    OBVIOUS
<1> HIDE DEF r
<1>2. ASSUME NEW i \in LossesIn(r) PROVE i + 1 \in LossesIn(q) \ {1} /\ i = (i + 1) - 1
    <2>1. i \in 1 .. Len(r) /\ r[i] = FALSE  BY DEF LossesIn
    <2>2. i + 1 \in 1 .. Len(q) /\ i + 1 # 1 /\ r[i] = q[i + 1] /\ i = (i + 1) - 1  BY <1>1, <2>1
    <2>3. QED  BY <2>1, <2>2 DEF LossesIn
<1>3. ASSUME NEW i \in LossesIn(q) \ {1} PROVE i - 1 \in LossesIn(r)
    <2>1. i \in 1 .. Len(q) /\ i # 1 /\ q[i] = FALSE  BY DEF LossesIn
    <2>2. i - 1 \in 1 .. Len(r) /\ r[i - 1] = q[i]  BY <1>1, <2>1
    <2>3. QED  BY <2>1, <2>2 DEF LossesIn
<1>4. LossesIn(r) = {i - 1 : i \in LossesIn(q) \ {1}}  BY <1>2, <1>3
<1>5. 1 \in LossesIn(q) <=> q[1] = FALSE  BY <1>1 DEF LossesIn
<1>6. QED  BY <1>4, <1>5 DEF r
-----------------------------------------------------------------------------
(* A step of the link is a step of the protocol object, or leaves it alone. *)
LEMMA LinkStepIsStep == [LinkNext]_allVars => [Next]_vars
<1> SUFFICES ASSUME [LinkNext]_allVars PROVE [Next]_vars  OBVIOUS
<1>1. CASE UserConnects  BY <1>1 DEF UserConnects
<1>2. CASE Lost  BY <1>2 DEF Lost, Next
<1>3. CASE Stop  BY <1>3 DEF Stop, Next
<1>4. CASE \E c \in Connectors : Connected(c) \/ ConnectFails(c)
    BY <1>4 DEF Connected, ConnectFails, Next
<1>5. CASE \E c \in Loops : LoopCondition(c) \/ RetryDelayOver(c)
    BY <1>5 DEF LoopCondition, RetryDelayOver
<1>6. CASE StateTaskStarts \/ CallbackRaises  BY <1>6 DEF StateTaskStarts, CallbackRaises
<1>7. CASE \E up \in BOOLEAN : CallbacksDone(up)  BY <1>7 DEF CallbacksDone
<1>8. CASE ProtocolStep  BY <1>8 DEF ProtocolStep, Next
<1>9. CASE UNCHANGED allVars  BY <1>9 DEF allVars
<1>10. QED  BY <1>1, <1>2, <1>3, <1>4, <1>5, <1>6, <1>7, <1>8, <1>9 DEF LinkNext

(* The controller uses the protocol object as ProtocolWriter says it is used. *)
THEOREM LinkUsesWriter == LinkSpec => Spec
<1>1. LinkInit => Init  BY DEF LinkInit
<1>2. QED  BY <1>1, LinkStepIsStep, PTL DEF LinkSpec, Spec

(* So under the controller, too, whatever the overlap of losses, callbacks and
   reconnect loops: one writer task works at a time, messages are written in
   order and at most once, none is forgotten, and the join is sound.         *)
THEOREM SenderUnderController ==
    LinkSpec => [](WriterMutex /\ InOrder /\ NothingForgotten /\ JoinSound)
<1>1. QED  BY LinkUsesWriter, Mutex, WrittenInOrder, NoneForgotten, JoinIsSound, PTL

(* What Outbox promises of the send side holds under the controller: each message is
   written or given up, in order, whoever connects, loses and reconnects meanwhile. *)
THEOREM OutboxUnderController == LinkSpec => ImplementsOutbox
<1>1. QED  BY LinkUsesWriter, Refinement, PTL
-----------------------------------------------------------------------------
(* By themselves the protocol object and its transport attach nothing. *)
LEMMA ProtocolFrame ==
    ASSUME ProtocolStep
    PROVE  /\ UNCHANGED <<ctlVars, closing, conns>>
           /\ transport' = transport \/ (transport = "open" /\ transport' = "closing")
<1>1. UNCHANGED ctlVars  BY DEF ProtocolStep
<1>2. CASE TransportFails \/ TransportDrains \/ SendMessage
    BY <1>1, <1>2 DEF TransportFails, TransportDrains, SendMessage
<1>3. CASE \E w \in Writers : WriterStep(w)
    <2>1. PICK w \in Writers : WriterStep(w)  BY <1>3
    <2>2. UNCHANGED <<transport, closing, conns>>
        BY <2>1 DEF WriterStep, StartWriter, GetLock, GetItem, Retry, Continue, WriterDone, WriterFrame
    <2>3. QED  BY <1>1, <2>2
<1>4. QED  BY <1>2, <1>3 DEF ProtocolStep

(* Who is active after a connector moved. *)
LEMMA Moves ==
    ASSUME LinkTypes, NEW c \in Connectors, NEW at \in CPCs, cpc' = [cpc EXCEPT ![c] = at]
    PROVE  /\ cpc' \in [Connectors -> CPCs]
           /\ Active' = IF at = "off" THEN Active \ {c} ELSE Active \cup {c}
BY DEF LinkTypes, Active

(* A task starts or ends at its callbacks. *)
LEMMA Counts ==
    ASSUME LinkTypes, NEW up \in BOOLEAN, NEW n \in Nat, telling' = [telling EXCEPT ![up] = n]
    PROVE  /\ telling' \in [BOOLEAN -> Nat]
           /\ up = FALSE => TearingDown' = n
           /\ up = TRUE => TearingDown' = TearingDown
<1>1. telling \in [BOOLEAN -> Nat]  BY DEF LinkTypes
<1>2. telling' \in [BOOLEAN -> Nat]  BY <1>1
<1>3. telling'[up] = n /\ \A v \in BOOLEAN : v # up => telling'[v] = telling[v]  BY <1>1
<1>4. FALSE \in BOOLEAN /\ FALSE # TRUE  OBVIOUS
<1>5. up = FALSE => TearingDown' = n  BY <1>3 DEF TearingDown
<1>6. up = TRUE => TearingDown' = TearingDown  BY <1>3, <1>4 DEF TearingDown
<1>7. QED  BY <1>2, <1>5, <1>6

(* A step that hands the right to connect on, from one holder to the next. *)
LEMMA LinkStep == LinkInv /\ [LinkNext]_allVars => LinkInv'
<1> SUFFICES ASSUME LinkInv, [LinkNext]_allVars PROVE LinkInv'  OBVIOUS
<1>1. /\ stopped \in BOOLEAN /\ isConnected \in BOOLEAN /\ transport \in {"none", "open", "closing"}
      /\ conns \in Nat /\ notes \in Seq(BOOLEAN) /\ telling \in [BOOLEAN -> Nat]
      /\ cpc \in [Connectors -> CPCs] /\ LinkTypes
    BY DEF LinkInv, LinkTypes
<1>2. /\ \A i, j \in Losses : i = j
      /\ TearingDown \in {0, 1}
      /\ \A c, d \in Active : c = d
      /\ Losses # {} => TearingDown = 0 /\ Active = {}
      /\ TearingDown > 0 => Active = {}
      /\ Losses # {} \/ TearingDown > 0 \/ Active # {} => transport = "none"
    BY DEF LinkInv, Right
<1>3. Fresh /\ StopCloses /\ Told  BY DEF LinkInv
<1>4. User \in Connectors /\ Loops \subseteq Connectors /\ User \notin Loops
    BY LinkAssumption DEF Connectors
<1>5. {"off", "check", "connecting", "sleeping"} = CPCs  BY DEF CPCs
<1>6. CASE UserConnects
    <2>1. cpc' = [cpc EXCEPT ![User] = "connecting"] /\ conns = 0
          /\ UNCHANGED <<stopped, isConnected, notes, telling, transport, closing, conns>>
        BY <1>6 DEF UserConnects, vars
    <2>2. LinkTypes' /\ Active' = Active \cup {User}  BY <1>1, <1>4, <1>5, <2>1, Moves DEF LinkTypes
    <2>3. transport = "none" /\ notes = <<>> /\ TearingDown = 0 /\ Active \subseteq {User}
        BY <1>3, <2>1 DEF Fresh
    <2>4. Losses = {}  BY <2>3 DEF Losses, LossesIn
    <2>5. Losses' = Losses /\ TearingDown' = TearingDown  BY <2>1 DEF Losses, TearingDown
    <2>6. Right'  BY <2>1, <2>2, <2>3, <2>4, <2>5 DEF Right
    <2>7. Fresh'  BY <2>1, <2>2, <2>3, <2>5 DEF Fresh
    <2>8. StopCloses' /\ Told'  BY <1>3, <2>1 DEF StopCloses, Told, Attached
    <2>9. QED  BY <2>2, <2>6, <2>7, <2>8 DEF LinkInv
<1>7. CASE \E c \in Connectors : Connected(c)
    <2>1. PICK c \in Connectors : Connected(c)  BY <1>7
    <2>2. cpc[c] = "connecting" /\ transport = "none" /\ transport' = "open" /\ conns' = conns + 1
          /\ cpc' = [cpc EXCEPT ![c] = "off"] /\ notes' = Append(notes, TRUE)
          /\ UNCHANGED <<stopped, isConnected, telling, closing>>
        BY <2>1 DEF Connected, ConnectionMade
    <2>3. Active' = Active \ {c} /\ cpc' \in [Connectors -> CPCs]  BY <1>1, <1>5, <2>2, Moves
    <2>4. c \in Active  BY <2>2 DEF Active
    <2>5. Active' = {}  BY <1>2, <2>3, <2>4
    <2>6. Losses = {} /\ TearingDown = 0 /\ TearingDown' = TearingDown
        <3>1. Losses = {} /\ TearingDown = 0  BY <1>2, <2>4
        <3>2. TearingDown' = TearingDown  BY <2>2 DEF TearingDown
        <3>3. QED  BY <3>1, <3>2
    <2>7. Losses' = {}  BY <1>1, <2>2, <2>6, LossesAppend DEF Losses
    <2>8. notes' \in Seq(BOOLEAN)  BY <1>1, <2>2
    <2>9. LinkTypes'  BY <1>1, <2>2, <2>3, <2>8 DEF LinkTypes
    <2>10. Right'  BY <2>2, <2>5, <2>6, <2>7 DEF Right
    <2>11. Fresh'  BY <1>1, <2>2 DEF Fresh
    <2>12. StopCloses'  BY <1>3, <2>2 DEF StopCloses
    <2>13. Told'
        <3>1. Attached = FALSE /\ Attached' = TRUE  BY <2>2 DEF Attached
        <3>2. ASSUME ~stopped PROVE Alternating(isConnected, Append(notes, TRUE), TRUE)
            <4>1. Alternating(isConnected, notes, FALSE)  BY <1>3, <3>1, <3>2 DEF Told
            <4>2. QED  BY <1>1, <4>1, AlternatingAppend
        <3>3. QED  BY <2>2, <3>1, <3>2 DEF Told
    <2>14. QED  BY <2>9, <2>10, <2>11, <2>12, <2>13 DEF LinkInv
<1>8. ASSUME NEW c \in Connectors, NEW at \in CPCs, cpc[c] # "off", cpc' = [cpc EXCEPT ![c] = at],
             UNCHANGED <<vars, stopped, isConnected, notes, telling>>
      PROVE  LinkInv'
    <2>1. UNCHANGED <<transport, closing, conns>>  BY <1>8 DEF vars
    <2>2. cpc' \in [Connectors -> CPCs] /\ Active' = IF at = "off" THEN Active \ {c} ELSE Active \cup {c}
        BY <1>1, <1>8, Moves
    <2>3. c \in Active  BY <1>8 DEF Active
    <2>4. Active' \subseteq Active  BY <2>2, <2>3
    <2>5. LinkTypes'  BY <1>1, <1>8, <2>1, <2>2 DEF LinkTypes
    <2>6. Losses' = Losses /\ TearingDown' = TearingDown  BY <1>8 DEF Losses, TearingDown
    <2>7. Right'  BY <1>2, <1>8, <2>1, <2>4, <2>6 DEF Right
    <2>8. Fresh'  BY <1>3, <1>8, <2>1, <2>4, <2>6 DEF Fresh
    <2>9. StopCloses' /\ Told'  BY <1>3, <1>8, <2>1 DEF StopCloses, Told, Attached
    <2>10. QED  BY <2>5, <2>7, <2>8, <2>9 DEF LinkInv
<1>9. CASE \E c \in Connectors : ConnectFails(c)
    <2>1. PICK c \in Connectors : ConnectFails(c)  BY <1>9
    <2>2. cpc[c] # "off" /\ UNCHANGED <<vars, stopped, isConnected, notes, telling>>
          /\ \E at \in CPCs : cpc' = [cpc EXCEPT ![c] = at]
        BY <2>1, <1>5 DEF ConnectFails
    <2>3. QED  BY <1>8, <2>2
<1>10. CASE \E c \in Loops : LoopCondition(c) \/ RetryDelayOver(c)
    <2>1. PICK c \in Loops : LoopCondition(c) \/ RetryDelayOver(c)  BY <1>10
    <2>2. cpc[c] # "off" /\ UNCHANGED <<vars, stopped, isConnected, notes, telling>>
          /\ \E at \in CPCs : cpc' = [cpc EXCEPT ![c] = at]
        BY <2>1, <1>5 DEF LoopCondition, RetryDelayOver
    <2>3. QED  BY <1>4, <1>8, <2>2
<1>11. CASE Lost
    <2>1. transport = "closing" /\ transport' = "none"
          /\ notes' = (IF closing THEN notes ELSE Append(notes, FALSE))
          /\ UNCHANGED <<stopped, isConnected, telling, cpc, closing, conns>>
        BY <1>11 DEF Lost, ConnectionLost
    <2>2. Losses = {} /\ TearingDown = 0 /\ Active = {}  BY <1>1, <1>2, <2>1
    <2>3. Active' = Active /\ TearingDown' = TearingDown  BY <2>1 DEF Active, TearingDown
    <2>4. conns' = conns /\ conns # 0  BY <1>3, <2>1 DEF Fresh
    <2>5. Fresh'  BY <2>4 DEF Fresh
    <2>6. StopCloses'  BY <1>3, <2>1 DEF StopCloses
    <2>7. CASE closing
        <3>1. notes' = notes /\ stopped  BY <1>3, <2>1, <2>7 DEF StopCloses
        <3>2. LinkTypes'  BY <1>1, <2>1, <3>1 DEF LinkTypes
        <3>3. Right'  BY <2>1, <2>2, <2>3, <3>1 DEF Right, Losses
        <3>4. Told'  BY <2>1, <3>1 DEF Told
        <3>5. QED  BY <2>5, <2>6, <3>2, <3>3, <3>4 DEF LinkInv
    <2>8. CASE ~closing
        <3>1. notes' = Append(notes, FALSE) /\ notes' \in Seq(BOOLEAN)
            <4>1. notes' = Append(notes, FALSE)  BY <2>1, <2>8, Zenon
            <4>2. ASSUME NEW x \in BOOLEAN PROVE Append(notes, x) \in Seq(BOOLEAN)  BY <1>1
            <4>3. QED  BY <4>1, <4>2, Zenon
        <3>2. LinkTypes'  BY <1>1, <2>1, <3>1 DEF LinkTypes
        <3>3. Losses' = {Len(notes) + 1}  BY <1>1, <2>2, <3>1, LossesAppend DEF Losses
        <3>4. Right'  BY <2>1, <2>2, <2>3, <3>3 DEF Right
        <3>5. Attached = TRUE /\ Attached' = FALSE  BY <2>1 DEF Attached
        <3>6. ASSUME ~stopped PROVE Alternating(isConnected, Append(notes, FALSE), FALSE)
            <4>1. Alternating(isConnected, notes, TRUE)  BY <1>3, <3>5, <3>6 DEF Told
            <4>2. QED  BY <1>1, <4>1, AlternatingAppend
        <3>7. Told'  BY <2>1, <3>1, <3>5, <3>6 DEF Told
        <3>8. QED  BY <2>5, <2>6, <3>2, <3>4, <3>7 DEF LinkInv
    <2>9. QED  BY <2>7, <2>8
<1>12. CASE Stop
    <2>1. stopped' = TRUE /\ closing' = TRUE
          /\ transport' = (IF transport = "open" THEN "closing" ELSE transport)
          /\ UNCHANGED <<isConnected, notes, telling, cpc, conns>>
        BY <1>12 DEF Stop, Close
    <2>2. Active' = Active /\ Losses' = Losses /\ TearingDown' = TearingDown
        BY <2>1 DEF Active, Losses, TearingDown
    <2>3. LinkTypes'  BY <1>1, <2>1 DEF LinkTypes
    <2>4. Right'  BY <1>2, <2>1, <2>2 DEF Right
    <2>5. Fresh'  BY <1>3, <2>1, <2>2 DEF Fresh
    <2>6. StopCloses' /\ Told'  BY <2>1 DEF StopCloses, Told
    <2>7. QED  BY <2>3, <2>4, <2>5, <2>6 DEF LinkInv
<1>13. CASE StateTaskStarts
    <2>1. notes # <<>> /\ notes' = Tail(notes) /\ isConnected' = Head(notes)
          /\ telling' = [telling EXCEPT ![Head(notes)] = @ + 1]
          /\ UNCHANGED <<transport, closing, conns, stopped, cpc>>
        BY <1>13 DEF StateTaskStarts, vars
    <2>2. Head(notes) = notes[1] /\ notes[1] \in BOOLEAN /\ notes' \in Seq(BOOLEAN)  BY <1>1, <2>1
    <2>3. Active' = Active  BY <2>1 DEF Active
    <2>4. /\ Losses' = {i - 1 : i \in Losses \ {1}}
          /\ 1 \in Losses <=> notes[1] = FALSE
        BY <1>1, <2>1, LossesTail DEF Losses
    <2>5. /\ telling' \in [BOOLEAN -> Nat]
          /\ notes[1] = FALSE => TearingDown' = TearingDown + 1
          /\ notes[1] # FALSE => TearingDown' = TearingDown
        <3>1. telling[notes[1]] + 1 \in Nat /\ telling' = [telling EXCEPT ![notes[1]] = telling[notes[1]] + 1]
            BY <1>1, <2>1, <2>2
        <3>2. notes[1] = FALSE => telling[notes[1]] + 1 = TearingDown + 1  BY DEF TearingDown
        <3>3. notes[1] = FALSE \/ notes[1] = TRUE  BY <2>2
        <3>4. QED  BY <1>1, <2>2, <3>1, <3>2, <3>3, Counts
    <2>6. LinkTypes'  BY <1>1, <2>1, <2>2, <2>5 DEF LinkTypes
    <2>7. Right'
        <3>1. CASE 1 \in Losses
            <4>1. Losses' = {} /\ TearingDown = 0 /\ Active = {} /\ transport = "none"
                BY <1>2, <2>4, <3>1
            <4>2. TearingDown' = 1  BY <2>4, <2>5, <3>1, <4>1
            <4>3. QED  BY <2>1, <2>3, <4>1, <4>2 DEF Right
        <3>2. CASE 1 \notin Losses
            <4>1. TearingDown' = TearingDown  BY <2>4, <2>5, <3>2
            <4>2. (\A i, j \in Losses' : i = j) /\ (Losses' # {} => Losses # {})  BY <1>2, <2>4
            <4>3. QED  BY <1>2, <2>1, <2>3, <4>1, <4>2 DEF Right
        <3>3. QED  BY <3>1, <3>2
    <2>8. Fresh'  BY <1>3, <2>1 DEF Fresh
    <2>9. StopCloses'  BY <1>3, <2>1 DEF StopCloses
    <2>10. Told'
        <3>1. Attached' = Attached  BY <2>1 DEF Attached
        <3>2. ~stopped => Alternating(notes[1], Tail(notes), Attached)  BY <1>1, <1>3, <2>1, AlternatingTail DEF Told
        <3>3. QED  BY <2>1, <2>2, <3>1, <3>2 DEF Told
    <2>11. QED  BY <2>6, <2>7, <2>8, <2>9, <2>10 DEF LinkInv
<1>14. ASSUME UNCHANGED <<vars, stopped, isConnected, notes>>, NEW up \in BOOLEAN, telling[up] > 0,
              telling' = [telling EXCEPT ![up] = telling[up] - 1],
              \/ UNCHANGED cpc
              \/ up = FALSE /\ \E c \in Loops : cpc[c] = "off" /\ cpc' = [cpc EXCEPT ![c] = "check"]
       PROVE  LinkInv'
    <2>1. UNCHANGED <<transport, closing, conns>>  BY <1>14 DEF vars
    <2>2. /\ telling' \in [BOOLEAN -> Nat]
          /\ up = FALSE => TearingDown > 0 /\ TearingDown' = TearingDown - 1
          /\ up = TRUE => TearingDown' = TearingDown
        <3>1. telling[up] - 1 \in Nat  BY <1>1, <1>14
        <3>2. up = FALSE => telling[up] = TearingDown  BY DEF TearingDown
        <3>3. QED  BY <1>1, <1>14, <3>1, <3>2, Counts
    <2>3. Losses' = Losses  BY <1>14 DEF Losses
    <2>4. CASE UNCHANGED cpc
        <3>1. Active' = Active  BY <2>4 DEF Active
        <3>2. LinkTypes'  BY <1>1, <1>14, <2>1, <2>2, <2>4 DEF LinkTypes
        <3>3. TearingDown' \in {0, 1} /\ TearingDown' <= TearingDown
            BY <1>2, <1>14, <2>2
        <3>4. Right'  BY <1>2, <2>1, <2>3, <3>1, <3>3 DEF Right
        <3>5. conns = 0 => TearingDown' = 0  BY <1>3, <1>14, <2>2 DEF Fresh
        <3>6. Fresh'  BY <1>3, <1>14, <2>1, <3>1, <3>5 DEF Fresh
        <3>7. StopCloses' /\ Told'  BY <1>3, <1>14, <2>1 DEF StopCloses, Told, Attached
        <3>8. QED  BY <3>2, <3>4, <3>6, <3>7 DEF LinkInv
    <2>5. ASSUME up = FALSE, NEW c \in Loops, cpc[c] = "off", cpc' = [cpc EXCEPT ![c] = "check"]
          PROVE  LinkInv'
        <3>1. TearingDown = 1 /\ Losses = {} /\ Active = {} /\ transport = "none"  BY <1>2, <2>2, <2>5
        <3>2. TearingDown' = 0  BY <2>2, <2>5, <3>1
        <3>3. cpc' \in [Connectors -> CPCs] /\ Active' = Active \cup {c}  BY <1>1, <1>4, <1>5, <2>5, Moves
        <3>4. LinkTypes'  BY <1>1, <1>14, <2>1, <2>2, <3>3 DEF LinkTypes
        <3>5. Right'  BY <2>1, <2>3, <3>1, <3>2, <3>3 DEF Right
        <3>6. conns # 0  BY <1>3, <3>1 DEF Fresh
        <3>7. Fresh'  BY <2>1, <3>6 DEF Fresh
        <3>8. StopCloses' /\ Told'  BY <1>3, <1>14, <2>1 DEF StopCloses, Told, Attached
        <3>9. QED  BY <3>4, <3>5, <3>7, <3>8 DEF LinkInv
    <2>6. QED  BY <1>14, <2>4, <2>5
<1>15. CASE CallbackRaises
    <2>1. /\ UNCHANGED <<vars, stopped, isConnected, notes, cpc>> /\ telling[FALSE] > 0
          /\ telling' = [telling EXCEPT ![FALSE] = telling[FALSE] - 1]
        BY <1>15 DEF CallbackRaises
    <2>2. FALSE \in BOOLEAN  OBVIOUS
    <2>3. QED  BY <1>14, <2>1, <2>2
<1>16. CASE \E up \in BOOLEAN : CallbacksDone(up)
    <2>1. PICK up \in BOOLEAN : CallbacksDone(up)  BY <1>16
    <2>2. /\ UNCHANGED <<vars, stopped, isConnected, notes>> /\ telling[up] > 0
          /\ telling' = [telling EXCEPT ![up] = telling[up] - 1]
          /\ \/ UNCHANGED cpc
             \/ up = FALSE /\ \E c \in Loops : cpc[c] = "off" /\ cpc' = [cpc EXCEPT ![c] = "check"]
        BY <2>1 DEF CallbacksDone
    <2>3. QED  BY <1>14, <2>2
<1>17. CASE ProtocolStep
    <2>1. /\ UNCHANGED <<stopped, isConnected, notes, telling, cpc, closing, conns>>
          /\ transport' = transport \/ (transport = "open" /\ transport' = "closing")
        BY <1>17, ProtocolFrame DEF ctlVars
    <2>2. Active' = Active /\ Losses' = Losses /\ TearingDown' = TearingDown
        BY <2>1 DEF Active, Losses, TearingDown
    <2>3. LinkTypes'  BY <1>1, <2>1 DEF LinkTypes
    <2>4. Right'  BY <1>2, <2>1, <2>2 DEF Right
    <2>5. Fresh'  BY <1>3, <2>1, <2>2 DEF Fresh
    <2>6. StopCloses'  BY <1>3, <2>1 DEF StopCloses
    <2>7. Attached' = Attached  BY <2>1 DEF Attached
    <2>8. Told'  BY <1>3, <2>1, <2>7 DEF Told
    <2>9. QED  BY <2>3, <2>4, <2>5, <2>6, <2>8 DEF LinkInv
<1>18. CASE UNCHANGED allVars
    <2>1. UNCHANGED <<transport, closing, conns, stopped, isConnected, notes, telling, cpc>>
        BY <1>18 DEF allVars, vars, ctlVars
    <2>2. Active' = Active /\ Losses' = Losses /\ TearingDown' = TearingDown /\ Attached' = Attached
        BY <2>1 DEF Active, Losses, TearingDown, Attached
    <2>3. LinkTypes' /\ Right' /\ Fresh'  BY <1>1, <1>2, <1>3, <2>1, <2>2 DEF LinkTypes, Right, Fresh
    <2>4. StopCloses' /\ Told'  BY <1>3, <2>1, <2>2 DEF StopCloses, Told
    <2>5. QED  BY <2>3, <2>4 DEF LinkInv
<1>19. QED
    BY <1>6, <1>7, <1>9, <1>10, <1>11, <1>12, <1>13, <1>15, <1>16, <1>17, <1>18 DEF LinkNext
-----------------------------------------------------------------------------
(* The right to connect has one holder, and the changes waiting to be told
   alternate, for any number of loops, connections and callbacks.            *)
THEOREM LinkInductive == LinkSpec => []LinkInv
<1>1. LinkInit => LinkInv
    <2> SUFFICES ASSUME LinkInit PROVE LinkInv  OBVIOUS
    <2> USE DEF LinkInit, Init
    <2>1. LinkTypes
        <3>1. notes \in Seq(BOOLEAN) /\ telling \in [BOOLEAN -> Nat] /\ cpc \in [Connectors -> CPCs]
            BY DEF CPCs
        <3>2. stopped \in BOOLEAN /\ isConnected \in BOOLEAN  OBVIOUS
        <3>3. QED  BY <3>1, <3>2 DEF LinkTypes
    <2>2. Active = {}  BY DEF Active
    <2>3. Losses = {}  BY DEF Losses, LossesIn
    <2>4. TearingDown = 0  BY DEF TearingDown
    <2>5. Right /\ Fresh /\ StopCloses  BY <2>2, <2>3, <2>4 DEF Right, Fresh, StopCloses
    <2>6. Told
        <3>1. Attached = isConnected /\ Len(notes) = 0  BY DEF Attached
        <3>2. QED  BY <3>1 DEF Told, Alternating
    <2>7. QED  BY <2>1, <2>5, <2>6 DEF LinkInv
<1>2. QED  BY <1>1, LinkStep, PTL DEF LinkSpec

(* At most one connector, the caller or a reconnect loop, awaits connect(), and
   only while the protocol object has no transport that connection_made()
   would overwrite.                                                          *)
THEOREM OneTransport == LinkSpec => []SingleTransport
<1>1. LinkInv => SingleTransport  BY DEF LinkInv, Right, SingleTransport
<1>2. QED  BY <1>1, LinkInductive, PTL

(* While disconnect callbacks of _on_connection_state(False) run, nothing
   reconnects.                                                               *)
THEOREM DisconnectIsFirst == LinkSpec => []DisconnectFirst
<1>1. LinkInv => DisconnectFirst  BY DEF LinkInv, Right, DisconnectFirst, TearingDown
<1>2. QED  BY <1>1, LinkInductive, PTL

(* Until stop() is called, _is_connected followed by the changes not yet told
   alternates and ends with what the protocol object has.                    *)
THEOREM ChangesAreTold == LinkSpec => []ChangesAlternate
<1>1. LinkInv => ChangesAlternate
    <2> SUFFICES ASSUME LinkInv, ~stopped
                 PROVE  LET told == <<isConnected>> \o notes
                        IN  /\ \A i \in 1 .. Len(notes) : told[i] # told[i + 1]
                            /\ told[Len(told)] <=> transport # "none"
        BY DEF ChangesAlternate
    <2> DEFINE told == <<isConnected>> \o notes
    <2>1. Alternating(isConnected, notes, Attached)  BY DEF LinkInv, Told
    <2>2. isConnected \in BOOLEAN /\ notes \in Seq(BOOLEAN)  BY DEF LinkInv, LinkTypes
    <2>3. /\ Len(told) = Len(notes) + 1 /\ Len(notes) \in Nat /\ told[1] = isConnected
          /\ \A i \in 1 .. Len(notes) : told[i + 1] = notes[i]
        BY <2>2
    <2> HIDE DEF told
    <2>4. ASSUME NEW i \in 1 .. Len(notes) PROVE told[i] # told[i + 1]
        <3>1. told[i + 1] = notes[i] /\ notes[i] # IF i = 1 THEN isConnected ELSE notes[i - 1]
            BY <2>1, <2>3 DEF Alternating
        <3>2. told[i] = IF i = 1 THEN isConnected ELSE notes[i - 1]
            <4>1. CASE i = 1  BY <2>3, <4>1
            <4>2. CASE i # 1
                <5>1. i - 1 \in 1 .. Len(notes) /\ (i - 1) + 1 = i  BY <2>3, <4>2
                <5>2. QED  BY <2>3, <4>2, <5>1
            <4>3. QED  BY <4>1, <4>2
        <3>3. QED  BY <3>1, <3>2
    <2>5. told[Len(told)] = Attached
        <3>1. CASE Len(notes) = 0  BY <2>1, <2>3, <3>1 DEF Alternating
        <3>2. CASE Len(notes) # 0
            <4>1. Len(notes) \in 1 .. Len(notes)  BY <2>3, <3>2
            <4>2. QED  BY <2>1, <2>3, <3>2, <4>1 DEF Alternating
        <3>3. QED  BY <3>1, <3>2
    <2>6. Attached <=> transport # "none"  BY DEF Attached
    <2>7. told[Len(told)] <=> transport # "none"  BY <2>5, <2>6
    <2>8. QED  BY <2>4, <2>7 DEF told
<1>2. QED  BY <1>1, LinkInductive, PTL
-----------------------------------------------------------------------------
(* The receive side. *)

FrameTypes ==
    /\ stream \in Seq(Byte) /\ taken \in 0 .. Len(stream) /\ buf \in Seq(Byte) /\ Len(buf) <= taken
    /\ window \in 0 .. MAXIMUM_MESSAGE_SIZE /\ window <= Len(buf)
    /\ places \in Seq(Nat) /\ \A i \in DOMAIN places : places[i] > 0

(* The buffer has the last bytes that were read. *)
Held == \A i \in 1 .. Len(buf) : buf[i] = stream[taken - Len(buf) + i]

(* As long as nothing has left the buffer create() looks at its head, and leaves
   only what is too short or goes on.                                        *)
Untouched == taken = Len(buf) =>
    /\ window > 0 => window = Window(buf)
    /\ window = 0 => Len(buf) < MINIMUM_MESSAGE_SIZE
                     \/ Parse(Upto(buf, MAXIMUM_MESSAGE_SIZE)).kind = "incomplete"

FramingInv == FrameTypes /\ Held /\ ChunkIndependent /\ Untouched

(* The sizes of util.py and const.py. *)
LEMMA Limits == MINIMUM_MESSAGE_SIZE = 6 /\ MAXIMUM_MESSAGE_SIZE = 14 /\ MAX_BODY_SIZE = 8
BY DEF MAXIMUM_MESSAGE_SIZE, MINIMUM_MESSAGE_SIZE, HEADER_LENGTH, TAIL_LENGTH, MAX_BODY_SIZE

(* A set of naturals that is not empty has a least element. *)
LEMMA Least ==
    ASSUME NEW T \in SUBSET Nat, T # {}
    PROVE  \E n \in T : \A m \in T : n <= m
<1> DEFINE D == {1 .. n : n \in T}
           R == StrictSubsetOrdering(Nat)
           F == FiniteSubsetsOf(Nat)
<1>1. IsWellFoundedOn(R, F)  BY FS_StrictSubsetOrderingWellFounded
<1>2. D \subseteq F
    <2>1. ASSUME NEW n \in T PROVE IsFiniteSet(1 .. n) /\ 1 .. n \subseteq Nat
        <3>1. 1 \in Int /\ n \in Int  OBVIOUS
        <3>2. IsFiniteSet(1 .. n)  BY <3>1, FS_Interval, Zenon
        <3>3. QED  BY <3>2
    <2>2. QED  BY <2>1 DEF FiniteSubsetsOf
<1>3. D # {}  OBVIOUS
<1>4. PICK X \in D : \A Y \in D : <<Y, X>> \notin R
    <2> HIDE DEF D, R, F
    <2>1. QED  BY <1>1, <1>2, <1>3, WFMin
<1>5. PICK n \in T : X = 1 .. n  OBVIOUS
<1>6. ASSUME NEW m \in T, ~(n <= m) PROVE FALSE
    <2>1. 1 .. m \in D  OBVIOUS
    <2>2. 1 .. m \subseteq 1 .. n /\ n \in 1 .. n /\ n \notin 1 .. m  BY <1>6
    <2>3. <<1 .. m, X>> \in R  BY <1>5, <2>2 DEF StrictSubsetOrdering
    <2>4. QED  BY <1>4, <2>1, <2>3
<1>7. QED  BY <1>6

(* r is what s has from d + 1 to n. *)
IsPart(r, s, d, n) == /\ r \in Seq(Byte) /\ Len(r) = n - d
                      /\ \A i \in 1 .. (n - d) : r[i] = s[d + i]

(* SubSeq is the part of a stream between two positions. *)
LEMMA PartOf ==
    ASSUME NEW s \in Seq(Byte), NEW n \in 0 .. Len(s), NEW d \in 0 .. n
    PROVE  IsPart(SubSeq(s, d + 1, n), s, d, n)
<1>1. PICK m : m = d + 1  OBVIOUS
<1>2. m \in Int /\ n \in Int /\ \A i \in m .. n : s[i] \in Byte  BY <1>1
<1>3. /\ SubSeq(s, m, n) \in Seq(Byte)
      /\ Len(SubSeq(s, m, n)) = IF m <= n THEN n - m + 1 ELSE 0
      /\ \A i \in 1 .. n - m + 1 : SubSeq(s, m, n)[i] = s[m + i - 1]
    BY <1>2, SubSeqProperties
<1>4. Len(SubSeq(s, m, n)) = n - d  BY <1>1, <1>3
<1>5. ASSUME NEW i \in 1 .. (n - d) PROVE SubSeq(s, m, n)[i] = s[d + i]
    <2>1. i \in 1 .. n - m + 1 /\ m + i - 1 = d + i  BY <1>1
    <2>2. QED  BY <1>3, <2>1
<1>6. QED  BY <1>1, <1>3, <1>4, <1>5 DEF IsPart

(* Sequences of the same length with the same elements are the same. *)
LEMMA SamePart ==
    ASSUME NEW r \in Seq(Byte), NEW q \in Seq(Byte), Len(r) = Len(q), \A i \in 1 .. Len(r) : r[i] = q[i]
    PROVE  r = q
OBVIOUS

(* What create() keeps of the bytes it looks at. *)
LEMMA TrimIs ==
    ASSUME NEW s \in Seq(Byte)
    PROVE  \E k \in 0 .. Len(s) : /\ IsPart(Trim(s), s, k, Len(s))
                                  /\ \A i \in 1 .. k : s[i] # START_BYTE
                                  /\ k < Len(s) => s[k + 1] = START_BYTE
<1>1. PICK n \in Nat : n = Len(s) /\ DOMAIN s = 1 .. n  OBVIOUS
<1>2. PICK starts : starts = {i \in DOMAIN s : s[i] = START_BYTE}  OBVIOUS
<1>3. Trim(s) = IF starts = {} THEN <<>> ELSE From(s, CHOOSE i \in starts : \A j \in starts : i <= j)
    BY <1>2 DEF Trim
<1>4. CASE starts = {}
    <2>1. IsPart(<<>>, s, n, n)  BY DEF IsPart
    <2>2. \A i \in 1 .. n : s[i] # START_BYTE  BY <1>1, <1>2, <1>4
    <2>3. n \in 0 .. Len(s)  BY <1>1
    <2>4. QED  BY <1>1, <1>3, <1>4, <2>1, <2>2, <2>3
<1>5. CASE starts # {}
    <2>1. starts \in SUBSET Nat  BY <1>1, <1>2
    <2>2. \E i \in starts : \A j \in starts : i <= j  BY <1>5, <2>1, Least
    <2>3. PICK i : i = CHOOSE k \in starts : \A j \in starts : k <= j  OBVIOUS
    <2>4. i \in starts /\ \A j \in starts : i <= j  BY <2>2, <2>3
    <2>5. i \in 1 .. n /\ s[i] = START_BYTE  BY <1>1, <1>2, <2>4
    <2>6. PICK k : k = i - 1  OBVIOUS
    <2>7. k \in 0 .. n /\ k + 1 = i /\ k < n  BY <2>5, <2>6
    <2>8. Trim(s) = SubSeq(s, k + 1, n)  BY <1>1, <1>3, <1>5, <2>3, <2>7 DEF From
    <2>9. IsPart(SubSeq(s, k + 1, n), s, k, n)  BY <1>1, <2>7, PartOf
    <2>10. ASSUME NEW j \in 1 .. k PROVE s[j] # START_BYTE
        <3>1. j \in 1 .. n /\ ~(i <= j)  BY <2>5, <2>7
        <3>2. QED  BY <1>1, <1>2, <2>4, <3>1
    <2>11. QED  BY <1>1, <2>5, <2>7, <2>8, <2>9, <2>10
<1>6. QED  BY <1>4, <1>5

(* The size nibble of a byte. *)
LEMMA Sized == ASSUME NEW b \in Byte PROVE b % SIZES \in 0 .. 15
BY DEF Byte, SIZES

(* A packet with raw in its place in s: how far it goes and what is in it. *)
LEMMA PlaceOf ==
    ASSUME NEW s \in Seq(Byte), NEW p \in Nat \ {0}, NEW raw, NEW n \in 6 .. 14,
           IsPart(raw, s, p - 1, p - 1 + n), p - 1 + n <= Len(s)
    PROVE  /\ Len(raw) = n /\ raw \in Seq(Byte) /\ \A i \in 1 .. n : raw[i] = s[p - 1 + i]
           /\ Size(s, p) = raw[4] % SIZES /\ Size(s, p) \in 0 .. 15
           /\ LastOf(s, p) = p + 5 + Size(s, p)
<1>1. Len(raw) = n /\ raw \in Seq(Byte) /\ \A i \in 1 .. n : raw[i] = s[p - 1 + i]
    <2>1. (p - 1 + n) - (p - 1) = n  OBVIOUS
    <2>2. QED  BY <2>1 DEF IsPart
<1>2. raw[4] = s[p + 3]  BY <1>1
<1>3. raw[4] \in Byte  BY <1>1
<1>4. Size(s, p) = raw[4] % SIZES  BY <1>2 DEF Size
<1>5. Size(s, p) \in 0 .. 15  BY <1>3, <1>4, Sized
<1>6. LastOf(s, p) = p + 5 + Size(s, p)
    <2>1. PICK z \in 0 .. 15 : z = Size(s, p)  BY <1>5
    <2>2. p + 4 + z + 2 - 1 = p + 5 + z  OBVIOUS
    <2>3. QED  BY <2>1, <2>2 DEF LastOf, HEADER_LENGTH, TAIL_LENGTH
<1>7. QED  BY <1>1, <1>4, <1>5, <1>6

(* A part of the buffer is a part of the stream. *)
LEMMA SameBytes ==
    ASSUME NEW s \in Seq(Byte), NEW p \in Nat \ {0}, NEW raw \in Seq(Byte), NEW n \in Nat, Len(raw) = n,
           \A i \in 1 .. n : raw[i] = s[p - 1 + i], p - 1 + n <= Len(s), NEW a \in 0 .. n, NEW b \in a .. n
    PROVE  SubSeq(raw, a + 1, b) = SubSeq(s, p + a, p - 1 + b)
<1>1. IsPart(SubSeq(raw, a + 1, b), raw, a, b)
    <2>1. b \in 0 .. Len(raw) /\ a \in 0 .. b  OBVIOUS
    <2>2. QED  BY <2>1, PartOf
<1>2. PICK d \in Nat : d = p - 1 + a  OBVIOUS
<1>3. PICK e \in Nat : e = p - 1 + b  OBVIOUS
<1>4. e \in 0 .. Len(s) /\ d \in 0 .. e /\ d + 1 = p + a  BY <1>2, <1>3
<1>5. IsPart(SubSeq(s, d + 1, e), s, d, e)  BY <1>4, PartOf
<1>6. e - d = b - a  BY <1>2, <1>3
<1>7. PICK x : x = SubSeq(raw, a + 1, b)  OBVIOUS
<1>8. PICK y : y = SubSeq(s, d + 1, e)  OBVIOUS
<1>9. x \in Seq(Byte) /\ y \in Seq(Byte) /\ Len(x) = b - a /\ Len(y) = b - a
    BY <1>1, <1>5, <1>6, <1>7, <1>8 DEF IsPart
<1>10. ASSUME NEW i \in 1 .. b - a PROVE x[i] = y[i]
    <2>1. x[i] = raw[a + i] /\ y[i] = s[d + i]  BY <1>1, <1>5, <1>6, <1>7, <1>8 DEF IsPart
    <2>2. a + i \in 1 .. n /\ p - 1 + (a + i) = d + i  BY <1>2
    <2>3. QED  BY <2>1, <2>2
<1>11. x = y  BY <1>9, <1>10, SamePart
<1>12. QED  BY <1>3, <1>4, <1>7, <1>8, <1>11

(* _parse() finds a message just where there is a packet. *)
LEMMA ParseIs ==
    ASSUME NEW s \in Seq(Byte), NEW p \in Nat \ {0}, NEW raw, NEW n \in 6 .. 14,
           IsPart(raw, s, p - 1, p - 1 + n), p - 1 + n <= Len(s), raw[1] = START_BYTE
    PROVE  /\ Parse(raw).kind \in {"error", "incomplete", "message"}
           /\ Parse(raw).kind = "error" => ~PacketAt(s, p)
           /\ Parse(raw).kind = "incomplete" => 6 + Size(s, p) > n
           /\ Parse(raw).kind = "message" =>
                  /\ PacketAt(s, p) /\ Parse(raw).msg = MessageAt(s, p) /\ 6 + Size(s, p) <= n
                  /\ IsPart(Parse(raw).rest, raw, 6 + Size(s, p), n)
<1>1. /\ Len(raw) = n /\ raw \in Seq(Byte) /\ \A i \in 1 .. n : raw[i] = s[p - 1 + i]
      /\ Size(s, p) = raw[4] % SIZES /\ Size(s, p) \in 0 .. 15
      /\ LastOf(s, p) = p + 5 + Size(s, p)
    BY PlaceOf
<1>2. PICK z \in 0 .. 15 : z = Size(s, p)  BY <1>1
<1>3. PICK e : e = raw[4] % SIZES  OBVIOUS
<1>4. e = z  BY <1>1, <1>2, <1>3
<1>5. s[p] = START_BYTE /\ s[p + 1] = raw[2] /\ s[p + 2] = raw[3] /\ s[p + 3] = raw[4]
    <2>1. raw[1] = s[p - 1 + 1] /\ raw[2] = s[p - 1 + 2] /\ raw[3] = s[p - 1 + 3] /\ raw[4] = s[p - 1 + 4]
        BY <1>1
    <2>2. p - 1 + 1 = p /\ p - 1 + 2 = p + 1 /\ p - 1 + 3 = p + 2 /\ p - 1 + 4 = p + 3  OBVIOUS
    <2>3. QED  BY <2>1, <2>2
<1>6. Parse(raw) =
          IF raw[2] \notin PRIORITIES THEN Bad
          ELSE IF 6 + z > n THEN Incomplete
          ELSE IF raw[z + 6] # END_BYTE \/ raw[z + 5] # Checksum(Upto(raw, 4 + z)) THEN Bad
          ELSE Parsed(MessageOf(raw, SubSeq(raw, 5, 4 + z)), From(raw, z + 7))
    <2>1. /\ (4 + z) + 2 = 6 + z /\ (4 + z) + 1 = z + 5 /\ (4 + z) + 2 = z + 6
          /\ ((4 + z) + 2) + 1 = z + 7 /\ 4 + 1 = 5
        OBVIOUS
    <2>2. QED  BY <1>1, <1>2, <1>3, <1>4, <2>1 DEF Parse, HEADER_LENGTH, TAIL_LENGTH
<1>7. PacketAt(s, p) <=>
          /\ p + 5 <= Len(s) /\ raw[2] \in PRIORITIES /\ z <= 8 /\ p + 5 + z <= Len(s)
          /\ s[p + 5 + z] = END_BYTE /\ s[p + 4 + z] = Checksum(SubSeq(s, p, p + 3 + z))
    <2>1. LastOf(s, p) = p + 5 + z  BY <1>1, <1>2
    <2>2. p + 6 - 1 = p + 5 /\ (p + 5 + z) - 1 = p + 4 + z /\ (p + 5 + z) - 2 = p + 3 + z  OBVIOUS
    <2>3. QED
        BY <1>2, <1>5, <2>1, <2>2
        DEF PacketAt, MINIMUM_MESSAGE_SIZE, HEADER_LENGTH, TAIL_LENGTH, MAX_BODY_SIZE
<1>8. CASE raw[2] \notin PRIORITIES  BY <1>2, <1>6, <1>7, <1>8 DEF Bad
<1>9. CASE raw[2] \in PRIORITIES /\ 6 + z > n  BY <1>2, <1>6, <1>9 DEF Incomplete
<1>10. CASE raw[2] \in PRIORITIES /\ 6 + z <= n
    <2>1. raw[z + 6] = s[p + 5 + z] /\ raw[z + 5] = s[p + 4 + z]
        <3>1. z + 6 \in 1 .. n /\ z + 5 \in 1 .. n /\ p - 1 + (z + 6) = p + 5 + z /\ p - 1 + (z + 5) = p + 4 + z
            BY <1>10
        <3>2. QED  BY <1>1, <3>1
    <2>2. Upto(raw, 4 + z) = SubSeq(s, p, p + 3 + z)
        <3>1. Upto(raw, 4 + z) = SubSeq(raw, 0 + 1, 4 + z)  BY <1>1, <1>10 DEF Upto
        <3>2. 0 \in 0 .. n /\ 4 + z \in 0 .. n  BY <1>10
        <3>3. SubSeq(raw, 0 + 1, 4 + z) = SubSeq(s, p + 0, p - 1 + (4 + z))  BY <1>1, <3>2, SameBytes
        <3>4. p + 0 = p /\ p - 1 + (4 + z) = p + 3 + z  OBVIOUS
        <3>5. QED  BY <3>1, <3>3, <3>4
    <2>3. z <= 8 /\ p + 5 <= Len(s) /\ p + 5 + z <= Len(s)  BY <1>10
    <2>4. PacketAt(s, p) <=> raw[z + 6] = END_BYTE /\ raw[z + 5] = Checksum(Upto(raw, 4 + z))
        BY <1>7, <1>10, <2>1, <2>2, <2>3
    <2>5. CASE raw[z + 6] # END_BYTE \/ raw[z + 5] # Checksum(Upto(raw, 4 + z))
        <3>1. Parse(raw) = Bad /\ ~PacketAt(s, p)  BY <1>6, <1>10, <2>4, <2>5
        <3>2. QED  BY <3>1 DEF Bad
    <2>6. CASE raw[z + 6] = END_BYTE /\ raw[z + 5] = Checksum(Upto(raw, 4 + z))
        <3>1. Parse(raw) = Parsed(MessageOf(raw, SubSeq(raw, 5, 4 + z)), From(raw, z + 7)) /\ PacketAt(s, p)
            BY <1>6, <1>10, <2>4, <2>6
        <3>2. SubSeq(raw, 5, 4 + z) = SubSeq(s, p + 4, p + 3 + z)
            <4>1. 4 \in 0 .. n /\ 4 + z \in 4 .. n  BY <1>10
            <4>2. PICK x \in 0 .. n, y \in 0 .. n : x = 4 /\ y = 4 + z /\ y \in x .. n  BY <4>1
            <4>3. SubSeq(raw, x + 1, y) = SubSeq(s, p + x, p - 1 + y)  BY <1>1, <4>2, SameBytes
            <4>4. SubSeq(raw, 4 + 1, 4 + z) = SubSeq(s, p + 4, p - 1 + (4 + z))  BY <4>2, <4>3
            <4>5. 4 + 1 = 5 /\ p - 1 + (4 + z) = p + 3 + z  OBVIOUS
            <4>6. QED  BY <4>4, <4>5
        <3>3. MessageOf(raw, SubSeq(raw, 5, 4 + z)) = MessageAt(s, p)
            <4>1. (p + 5 + z) - 2 = p + 3 + z  OBVIOUS
            <4>2. LastOf(s, p) - 2 = p + 3 + z  BY <1>1, <1>2, <4>1
            <4>3. QED  BY <1>5, <3>2, <4>2 DEF MessageOf, MessageAt, HEADER_LENGTH, TAIL_LENGTH
        <3>4. IsPart(From(raw, z + 7), raw, 6 + z, n)
            <4>1. 6 + z \in 0 .. n /\ n \in 0 .. Len(raw) /\ (6 + z) + 1 = z + 7  BY <1>1, <1>10
            <4>2. IsPart(SubSeq(raw, (6 + z) + 1, n), raw, 6 + z, n)  BY <1>1, <4>1, PartOf
            <4>3. QED  BY <1>1, <4>1, <4>2 DEF From
        <3>5. QED  BY <1>2, <1>10, <3>1, <3>3, <3>4 DEF Parsed
    <2>7. QED  BY <2>5, <2>6
<1>11. QED  BY <1>1, <1>8, <1>9, <1>10

(* A packet ends inside its stream. *)
LEMMA PacketIs ==
    ASSUME NEW s \in Seq(Byte), NEW p \in Nat \ {0}, PacketAt(s, p)
    PROVE  LastOf(s, p) \in Nat /\ p + 5 <= LastOf(s, p) /\ LastOf(s, p) <= Len(s)
<1>1. p + 5 <= Len(s) /\ Len(s) \in Nat
    BY DEF PacketAt, MINIMUM_MESSAGE_SIZE, HEADER_LENGTH, TAIL_LENGTH
<1>2. p + 3 \in 1 .. Len(s)  BY <1>1
<1>3. s[p + 3] \in Byte  BY <1>2
<1>4. Size(s, p) \in 0 .. 15  BY <1>3, Sized DEF Size
<1>5. PICK z \in 0 .. 15 : z = Size(s, p)  BY <1>4
<1>6. p + 4 + z + 2 - 1 = p + 5 + z  OBVIOUS
<1>7. LastOf(s, p) = p + 5 + z  BY <1>5, <1>6 DEF LastOf, HEADER_LENGTH, TAIL_LENGTH
<1>8. LastOf(s, p) <= Len(s)  BY DEF PacketAt
<1>9. p + 5 + z \in Nat /\ p + 5 <= p + 5 + z  OBVIOUS
<1>10. QED  BY <1>7, <1>8, <1>9

(* Bytes where no packet begins change nothing; a packet that begins right behind
   goes to the scan.                                                         *)
LEMMA ScanOn ==
    ASSUME NEW s \in Seq(Byte), NEW at \in Seq(Nat), \A i \in DOMAIN at : at[i] > 0, NEW u \in Nat, NEW v \in Nat,
           u <= v, IsScan(s, at, u), \A p \in u + 1 .. v : ~PacketAt(s, p)
    PROVE  IsScan(s, at, v)
<1>1. /\ \A i \in DOMAIN at : PacketAt(s, at[i]) /\ LastOf(s, at[i]) <= u
      /\ \A i, j \in DOMAIN at : i < j => LastOf(s, at[i]) < at[j]
      /\ \A p \in 1 .. u : PacketAt(s, p) => \E i \in DOMAIN at : p \in at[i] .. LastOf(s, at[i])
    BY DEF IsScan
<1>2. ASSUME NEW i \in DOMAIN at PROVE LastOf(s, at[i]) <= v
    <2>1. at[i] \in Nat \ {0}  OBVIOUS
    <2>2. LastOf(s, at[i]) \in Nat  BY <1>1, <2>1, PacketIs
    <2>3. QED  BY <1>1, <2>2
<1>3. ASSUME NEW p \in 1 .. v, PacketAt(s, p) PROVE \E i \in DOMAIN at : p \in at[i] .. LastOf(s, at[i])
    <2>1. p \in 1 .. u  BY <1>3
    <2>2. QED  BY <1>1, <1>3, <2>1
<1>4. QED  BY <1>1, <1>2, <1>3 DEF IsScan

(* A scan goes on with the packet that begins where it is. *)
LEMMA ScanMore ==
    ASSUME NEW s \in Seq(Byte), NEW at \in Seq(Nat), \A i \in DOMAIN at : at[i] > 0, NEW u \in Nat,
           IsScan(s, at, u), PacketAt(s, u + 1)
    PROVE  IsScan(s, Append(at, u + 1), LastOf(s, u + 1))
<1>1. /\ \A i \in DOMAIN at : PacketAt(s, at[i]) /\ LastOf(s, at[i]) <= u
      /\ \A i, j \in DOMAIN at : i < j => LastOf(s, at[i]) < at[j]
      /\ \A p \in 1 .. u : PacketAt(s, p) => \E i \in DOMAIN at : p \in at[i] .. LastOf(s, at[i])
    BY DEF IsScan
<1>2. PICK p \in Nat \ {0} : p = u + 1  OBVIOUS
<1>3. PICK e : e = LastOf(s, p)  OBVIOUS
<1>4. e \in Nat /\ p + 5 <= e  BY <1>2, <1>3, PacketIs
<1>5. PICK more : more = Append(at, p)  OBVIOUS
<1>6. PICK n \in Nat : n = Len(at) /\ DOMAIN at = 1 .. n  OBVIOUS
<1>7. DOMAIN more = 1 .. n + 1 /\ more[n + 1] = p /\ \A i \in 1 .. n : more[i] = at[i]
    BY <1>2, <1>5, <1>6
<1>8. ASSUME NEW i \in 1 .. n PROVE LastOf(s, at[i]) \in Nat /\ LastOf(s, at[i]) < p
    <2>1. i \in DOMAIN at /\ at[i] \in Nat  BY <1>6
    <2>2. at[i] > 0  BY <2>1
    <2>3. at[i] \in Nat \ {0}  BY <2>1, <2>2
    <2>4. PacketAt(s, at[i]) /\ LastOf(s, at[i]) <= u  BY <1>1, <1>6
    <2>5. LastOf(s, at[i]) \in Nat  BY <2>3, <2>4, PacketIs
    <2>6. QED  BY <1>2, <2>4, <2>5
<1>9. ASSUME NEW i \in DOMAIN more PROVE PacketAt(s, more[i]) /\ LastOf(s, more[i]) <= e
    <2>1. CASE i = n + 1  BY <1>2, <1>3, <1>4, <1>7, <2>1
    <2>2. CASE i \in 1 .. n
        <3>1. LastOf(s, at[i]) <= e  BY <1>4, <1>8, <2>2
        <3>2. QED  BY <1>1, <1>6, <1>7, <2>2, <3>1
    <2>3. QED  BY <1>6, <1>7, <2>1, <2>2
<1>10. ASSUME NEW i \in DOMAIN more, NEW j \in DOMAIN more, i < j PROVE LastOf(s, more[i]) < more[j]
    <2>1. i \in 1 .. n  BY <1>6, <1>7, <1>10
    <2>2. CASE j = n + 1  BY <1>7, <1>8, <2>1, <2>2
    <2>3. CASE j \in 1 .. n  BY <1>1, <1>6, <1>7, <1>10, <2>1, <2>3
    <2>4. QED  BY <1>6, <1>7, <2>2, <2>3
<1>11. ASSUME NEW q \in 1 .. e, PacketAt(s, q) PROVE \E i \in DOMAIN more : q \in more[i] .. LastOf(s, more[i])
    <2>1. CASE q \in 1 .. u
        <3>1. PICK i \in DOMAIN at : q \in at[i] .. LastOf(s, at[i])  BY <1>1, <1>11, <2>1
        <3>2. i \in DOMAIN more /\ more[i] = at[i]  BY <1>6, <1>7
        <3>3. QED  BY <3>1, <3>2
    <2>2. CASE q \in p .. e
        <3>1. n + 1 \in DOMAIN more  BY <1>6, <1>7
        <3>2. QED  BY <1>3, <1>7, <2>2, <3>1
    <2>3. QED  BY <1>2, <1>4, <2>1, <2>2
<1>12. QED  BY <1>2, <1>3, <1>5, <1>9, <1>10, <1>11 DEF IsScan
-----------------------------------------------------------------------------
(* Parts of a stream that follow each other join to one. *)
LEMMA Joined ==
    ASSUME NEW s \in Seq(Byte), NEW m \in Nat, NEW n \in 0 .. m, NEW d \in 0 .. n, NEW a, NEW b,
           IsPart(a, s, d, n), IsPart(b, s, n, m)
    PROVE  IsPart(a \o b, s, d, m)
<1>1. /\ a \in Seq(Byte) /\ Len(a) = n - d /\ \A i \in 1 .. (n - d) : a[i] = s[d + i]
      /\ b \in Seq(Byte) /\ Len(b) = m - n /\ \A i \in 1 .. (m - n) : b[i] = s[n + i]
    BY DEF IsPart
<1>2. n - d \in Nat /\ m - n \in Nat /\ (n - d) + (m - n) = m - d  OBVIOUS
<1>3. /\ a \o b \in Seq(Byte) /\ Len(a \o b) = Len(a) + Len(b)
      /\ \A i \in 1 .. Len(a) + Len(b) : (a \o b)[i] = IF i <= Len(a) THEN a[i] ELSE b[i - Len(a)]
    BY <1>1, ConcatProperties
<1>4. ASSUME NEW i \in 1 .. (m - d) PROVE (a \o b)[i] = s[d + i]
    <2>1. i \in 1 .. Len(a) + Len(b)  BY <1>1, <1>2
    <2>2. CASE i <= n - d
        <3>1. i \in 1 .. (n - d)  BY <2>2
        <3>2. QED  BY <1>1, <1>3, <2>1, <2>2, <3>1
    <2>3. CASE ~(i <= n - d)
        <3>1. i - (n - d) \in 1 .. (m - n) /\ n + (i - (n - d)) = d + i  BY <1>2, <2>3
        <3>2. QED  BY <1>1, <1>3, <2>1, <2>3, <3>1
    <2>4. QED  BY <2>2, <2>3
<1>5. QED  BY <1>1, <1>2, <1>3, <1>4 DEF IsPart

(* A part of a part of a stream is a part of the stream. *)
LEMMA PartOfPart ==
    ASSUME NEW s \in Seq(Byte), NEW n \in Nat, NEW d \in 0 .. n, NEW a, IsPart(a, s, d, n),
           NEW e \in 0 .. (n - d), NEW f \in 0 .. e, NEW b, IsPart(b, a, f, e)
    PROVE  IsPart(b, s, d + f, d + e)
<1>1. e - f = (d + e) - (d + f)  OBVIOUS
<1>2. /\ \A i \in 1 .. (n - d) : a[i] = s[d + i]
      /\ b \in Seq(Byte) /\ Len(b) = (d + e) - (d + f)
      /\ \A i \in 1 .. ((d + e) - (d + f)) : b[i] = a[f + i]
    BY <1>1 DEF IsPart
<1>3. ASSUME NEW i \in 1 .. ((d + e) - (d + f)) PROVE b[i] = s[(d + f) + i]
    <2>1. f + i \in 1 .. (n - d) /\ d + (f + i) = (d + f) + i  OBVIOUS
    <2>2. QED  BY <1>2, <2>1
<1>4. QED  BY <1>2, <1>3 DEF IsPart

(* What create() is looking at: k bytes of garbage, and then a start byte. *)
LEMMA Looking ==
    ASSUME FrameTypes, Held, window > 0
    PROVE  \E k \in 0 .. window :
               /\ IsPart(Raw, buf, k, window) /\ IsPart(Behind, buf, window, Len(buf))
               /\ IsPart(Raw \o Behind, buf, k, Len(buf))
               /\ \A i \in 1 .. k : buf[i] # START_BYTE
               /\ k < window => Raw[1] = START_BYTE
<1>1. buf \in Seq(Byte) /\ window \in Nat /\ window <= Len(buf) /\ Len(buf) \in Nat
    BY Limits DEF FrameTypes
<1>2. window \in 0 .. Len(buf) /\ 0 \in 0 .. window  BY <1>1
<1>3. PICK h : h = Upto(buf, window)  OBVIOUS
<1>4. h = SubSeq(buf, 0 + 1, window)  BY <1>1, <1>3 DEF Upto
<1>5. IsPart(h, buf, 0, window)  BY <1>1, <1>2, <1>4, PartOf
<1>6. h \in Seq(Byte) /\ Len(h) = window - 0 /\ \A i \in 1 .. (window - 0) : h[i] = buf[0 + i]
    BY <1>5 DEF IsPart
<1>7. PICK k \in 0 .. Len(h) : /\ IsPart(Trim(h), h, k, Len(h)) /\ \A i \in 1 .. k : h[i] # START_BYTE
                               /\ k < Len(h) => h[k + 1] = START_BYTE
    BY <1>6, TrimIs
<1>8. k \in 0 .. (window - 0) /\ k \in 0 .. window /\ IsPart(Trim(h), h, k, window - 0)
    <2>1. Len(h) = window  BY <1>1, <1>6
    <2>2. window - 0 = window  BY <1>1
    <2>3. QED  BY <1>7, <2>1, <2>2
<1>9. IsPart(Raw, buf, k, window)
    <2>1. window \in 0 .. (window - 0) /\ window - 0 = window /\ 0 + window = window /\ 0 + k = k
        BY <1>1, <1>8
    <2>2. IsPart(Trim(h), buf, 0 + k, 0 + window)  BY <1>1, <1>2, <1>5, <1>8, <2>1, PartOfPart
    <2>3. QED  BY <1>3, <2>1, <2>2 DEF Raw
<1>10. IsPart(Behind, buf, window, Len(buf))
    <2>1. Len(buf) \in 0 .. Len(buf) /\ window \in 0 .. Len(buf)  BY <1>1
    <2>2. IsPart(SubSeq(buf, window + 1, Len(buf)), buf, window, Len(buf))  BY <1>1, <2>1, PartOf
    <2>3. QED  BY <2>2 DEF Behind, From
<1>11. IsPart(Raw \o Behind, buf, k, Len(buf))  BY <1>1, <1>2, <1>8, <1>9, <1>10, Joined
<1>12. ASSUME NEW i \in 1 .. k PROVE buf[i] # START_BYTE
    <2>1. i \in 1 .. (window - 0) /\ 0 + i = i  BY <1>1, <1>8
    <2>2. QED  BY <1>6, <1>7, <2>1
<1>13. ASSUME k < window PROVE Raw[1] = START_BYTE
    <2>1. k < Len(h)  BY <1>1, <1>6, <1>13
    <2>2. h[k + 1] = START_BYTE  BY <1>7, <2>1
    <2>3. 1 \in 1 .. (Len(h) - k)  BY <1>7, <2>1
    <2>4. Trim(h)[1] = h[k + 1]  BY <1>7, <2>3 DEF IsPart
    <2>5. QED  BY <1>3, <2>2, <2>4 DEF Raw
<1>14. QED  BY <1>8, <1>9, <1>10, <1>11, <1>12, <1>13
(* Held, as a part of the stream. *)
LEMMA HeldIsPart ==
    ASSUME FrameTypes
    PROVE  Held <=> IsPart(buf, stream, taken - Len(buf), taken)
<1>1. PICK l \in Nat : l = Len(buf)  BY DEF FrameTypes
<1>2. PICK t \in Nat : t = taken /\ l <= t  BY <1>1 DEF FrameTypes
<1>3. t - (t - l) = l  OBVIOUS
<1>4. buf \in Seq(Byte)  BY DEF FrameTypes
<1>5. QED  BY <1>1, <1>2, <1>3, <1>4 DEF Held, IsPart

(* Behind k bytes of garbage create() sees a part of the stream, and no packet
   begins in the garbage.                                                    *)
LEMMA Seen ==
    ASSUME FrameTypes, Held, window > 0, NEW k \in 0 .. window, NEW u, u = taken - Len(buf),
           IsPart(Raw, buf, k, window), \A i \in 1 .. k : buf[i] # START_BYTE
    PROVE  /\ u \in Nat /\ IsPart(Raw, stream, u + k, u + window) /\ u + window <= Len(stream)
           /\ Len(Raw) = window - k /\ Raw \in Seq(Byte)
           /\ \A p \in u + 1 .. u + k : ~PacketAt(stream, p)
<1>1. PICK l \in Nat : l = Len(buf)  BY DEF FrameTypes
<1>2. PICK t \in Nat : t = taken /\ l <= t /\ t <= Len(stream)  BY <1>1 DEF FrameTypes
<1>3. PICK w \in Nat : w = window /\ w <= l /\ k \in 0 .. w
    BY <1>1, Limits DEF FrameTypes
<1>4. u = t - l /\ u \in Nat /\ t - u = l  BY <1>1, <1>2
<1>5. stream \in Seq(Byte) /\ Len(stream) \in Nat  BY DEF FrameTypes
<1>6. IsPart(buf, stream, u, t)  BY <1>1, <1>2, <1>4, HeldIsPart
<1>7. IsPart(Raw, stream, u + k, u + w)
    <2>1. u \in 0 .. t /\ w \in 0 .. (t - u)  BY <1>2, <1>3, <1>4
    <2>2. IsPart(Raw, buf, k, w)  BY <1>3
    <2>3. QED  BY <1>3, <1>5, <1>6, <2>1, <2>2, PartOfPart
<1>8. u + w <= Len(stream)  BY <1>2, <1>3, <1>4, <1>5
<1>9. ASSUME NEW p \in u + 1 .. u + k PROVE ~PacketAt(stream, p)
    <2>1. PICK v \in Nat : v = u  BY <1>4
    <2>2. k \in Nat /\ k <= l  BY <1>3
    <2>3. p \in Nat /\ u + 1 <= p /\ p <= u + k  BY <2>1, <2>2
    <2>4. v + 1 <= p /\ p <= v + k /\ p - v \in 1 .. k /\ p - v \in 1 .. l /\ v + (p - v) = p
        BY <2>1, <2>2, <2>3
    <2>5. p - u \in 1 .. k /\ p - u \in 1 .. l /\ u + (p - u) = p  BY <2>1, <2>4
    <2>6. buf[p - u] = stream[p]  BY <1>1, <1>4, <2>5 DEF Held
    <2>7. QED  BY <2>5, <2>6 DEF PacketAt
<1>10. Len(Raw) = window - k /\ Raw \in Seq(Byte)  BY DEF IsPart
<1>11. QED  BY <1>3, <1>4, <1>7, <1>8, <1>9, <1>10

(* The buffer without its first d bytes. *)
LEMMA Rest ==
    ASSUME FrameTypes, Held, NEW b, NEW d \in 0 .. Len(buf), IsPart(b, buf, d, Len(buf))
    PROVE  /\ b \in Seq(Byte) /\ Len(b) = Len(buf) - d
           /\ taken - Len(b) = (taken - Len(buf)) + d
           /\ \A i \in 1 .. Len(b) : b[i] = stream[taken - Len(b) + i]
<1>1. PICK l \in Nat : l = Len(buf) /\ d \in 0 .. l  BY DEF FrameTypes
<1>2. PICK t \in Nat : t = taken /\ l <= t  BY <1>1 DEF FrameTypes
<1>3. b \in Seq(Byte) /\ Len(b) = l - d /\ \A i \in 1 .. (l - d) : b[i] = buf[d + i]  BY <1>1 DEF IsPart
<1>4. t - (l - d) = (t - l) + d  BY <1>1
<1>5. ASSUME NEW i \in 1 .. (l - d) PROVE b[i] = stream[(t - (l - d)) + i]
    <2>1. d + i \in 1 .. l /\ (t - l) + (d + i) = (t - (l - d)) + i  BY <1>1, <1>2
    <2>2. buf[d + i] = stream[(t - l) + (d + i)]  BY <1>1, <1>2, <2>1 DEF Held
    <2>3. QED  BY <1>3, <2>1, <2>2
<1>6. QED  BY <1>1, <1>2, <1>3, <1>4, <1>5

(* What a step that takes d bytes out of the buffer and delivers nothing keeps. *)
LEMMA Shortened ==
    ASSUME FrameTypes, Held, ChunkIndependent, UNCHANGED <<stream, taken, delivered, places>>,
           NEW d \in 0 .. Len(buf), IsPart(buf', buf, d, Len(buf)), window' \in 0 .. MAXIMUM_MESSAGE_SIZE,
           window' <= Len(buf) - d,
           \A p \in taken - Len(buf) + 1 .. taken - Len(buf) + d : ~PacketAt(stream, p)
    PROVE  FrameTypes' /\ Held' /\ ChunkIndependent' /\ taken' - Len(buf') = (taken - Len(buf)) + d
<1>1. PICK l \in Nat : l = Len(buf) /\ d \in 0 .. l  BY DEF FrameTypes
<1>2. PICK t \in Nat : t = taken /\ l <= t  BY <1>1 DEF FrameTypes
<1>3. /\ buf' \in Seq(Byte) /\ Len(buf') = l - d /\ t - Len(buf') = (t - l) + d
      /\ \A i \in 1 .. Len(buf') : buf'[i] = stream[t - Len(buf') + i]
    BY <1>1, <1>2, Rest
<1>4. FrameTypes'  BY <1>1, <1>2, <1>3 DEF FrameTypes
<1>5. Held'  BY <1>2, <1>3 DEF Held
<1>6. ChunkIndependent'
    <2>1. PICK u \in Nat : u = t - l  BY <1>2
    <2>2. d \in Nat  BY <1>1
    <2>3. PICK v \in Nat : v = u + d /\ u <= v  BY <2>2
    <2>4. IsScan(stream, places, u)  BY <1>1, <1>2, <2>1 DEF ChunkIndependent
    <2>5. \A p \in u + 1 .. v : ~PacketAt(stream, p)  BY <1>1, <1>2, <2>1, <2>3
    <2>6. stream \in Seq(Byte) /\ places \in Seq(Nat) /\ \A i \in DOMAIN places : places[i] > 0
        BY DEF FrameTypes
    <2>7. IsScan(stream, places, v)  BY <2>3, <2>4, <2>5, <2>6, ScanOn
    <2>8. taken' - Len(buf') = v  BY <1>2, <1>3, <2>1, <2>3
    <2>9. QED  BY <2>7, <2>8 DEF ChunkIndependent
<1>7. QED  BY <1>1, <1>2, <1>3, <1>4, <1>5, <1>6

(* create() that returns without a message keeps the invariant. *)
LEMMA LeaveKeeps == FramingInv /\ Leave => FramingInv'
<1> SUFFICES ASSUME FramingInv, Leave PROVE FramingInv'  OBVIOUS
<1>1. FrameTypes /\ Held /\ ChunkIndependent /\ Untouched /\ window > 0  BY DEF FramingInv, Leave
<1>2. PICK k \in 0 .. window :
          /\ IsPart(Raw, buf, k, window) /\ IsPart(Behind, buf, window, Len(buf))
          /\ IsPart(Raw \o Behind, buf, k, Len(buf))
          /\ \A i \in 1 .. k : buf[i] # START_BYTE
          /\ k < window => Raw[1] = START_BYTE
    BY <1>1, Looking
<1>3. PICK u : u = taken - Len(buf)  OBVIOUS
<1>4. /\ u \in Nat /\ Len(Raw) = window - k /\ Raw \in Seq(Byte)
      /\ \A p \in u + 1 .. u + k : ~PacketAt(stream, p)
    BY <1>1, <1>2, <1>3, Seen
<1>5. PICK w \in Nat : w = window /\ w <= Len(buf) /\ k \in 0 .. w /\ Len(buf) \in Nat /\ buf \in Seq(Byte)
    BY Limits DEF FramingInv, FrameTypes
<1>6. FrameTypes' /\ Held' /\ ChunkIndependent' /\ taken' - Len(buf') = u + k
    <2>1. k \in 0 .. Len(buf) /\ window' \in 0 .. MAXIMUM_MESSAGE_SIZE /\ window' <= Len(buf) - k
        BY <1>5, Limits DEF Leave
    <2>2. IsPart(buf', buf, k, Len(buf)) /\ UNCHANGED <<stream, taken, delivered, places>>  BY <1>2 DEF Leave
    <2>3. QED  BY <1>1, <1>3, <1>4, <2>1, <2>2, Shortened
<1>7. Untouched'
    <2> SUFFICES ASSUME taken' = Len(buf')
                 PROVE  Len(buf') < MINIMUM_MESSAGE_SIZE
                        \/ Parse(Upto(buf', MAXIMUM_MESSAGE_SIZE)).kind = "incomplete"
        BY DEF Untouched, Leave
    <2>1. u = 0 /\ k = 0 /\ taken = Len(buf)
        <3>1. PICK t \in Nat : t = taken'  BY <1>6 DEF FrameTypes
        <3>2. u + k = t - t  BY <1>6, <3>1
        <3>3. u = 0 /\ k = 0  BY <1>4, <1>5, <3>2
        <3>4. t = taken  BY <3>1 DEF Leave
        <3>5. QED  BY <1>3, <1>5, <3>3, <3>4
    <2>2. buf' = buf
        <3>1. IsPart(buf', buf, 0, Len(buf))  BY <1>2, <2>1 DEF Leave
        <3>2. Len(buf) - 0 = Len(buf) /\ \A i \in 1 .. Len(buf) : 0 + i = i  BY <1>5
        <3>3. buf' \in Seq(Byte) /\ Len(buf') = Len(buf) /\ \A i \in 1 .. Len(buf) : buf'[i] = buf[i]
            BY <3>1, <3>2 DEF IsPart
        <3>4. QED  BY <1>5, <3>3, SamePart
    <2>3. window = Window(buf)  BY <1>1, <2>1 DEF Untouched
    <2>4. CASE Len(buf) < MINIMUM_MESSAGE_SIZE  BY <2>2, <2>4
    <2>5. CASE Len(buf) >= MINIMUM_MESSAGE_SIZE
        <3>1. w = (IF Len(buf) < MAXIMUM_MESSAGE_SIZE THEN Len(buf) ELSE MAXIMUM_MESSAGE_SIZE)
            BY <1>5, <2>3, <2>5, Limits DEF Window
        <3>2. Upto(buf, MAXIMUM_MESSAGE_SIZE) = SubSeq(buf, 1, w)
            BY <1>5, <3>1, Limits DEF Upto
        <3>3. Raw = SubSeq(buf, 1, w)
            <4>1. IsPart(SubSeq(buf, 0 + 1, w), buf, 0, w)
                <5>1. w \in 0 .. Len(buf) /\ 0 \in 0 .. w  BY <1>5
                <5>2. QED  BY <1>5, <5>1, PartOf
            <4>2. IsPart(SubSeq(buf, 1, w), buf, 0, w)  BY <4>1
            <4>3. IsPart(Raw, buf, 0, w)  BY <1>2, <1>5, <2>1
            <4>4. PICK r : r = SubSeq(buf, 1, w)  OBVIOUS
            <4>5. Raw \in Seq(Byte) /\ r \in Seq(Byte) /\ Len(Raw) = w - 0 /\ Len(r) = w - 0
                  /\ \A i \in 1 .. (w - 0) : Raw[i] = buf[0 + i] /\ r[i] = buf[0 + i]
                BY <4>2, <4>3, <4>4 DEF IsPart
            <4>6. Raw = r  BY <4>5, SamePart
            <4>7. QED  BY <4>4, <4>6
        <3>4. Len(Raw) >= MINIMUM_MESSAGE_SIZE
            <4>1. w >= MINIMUM_MESSAGE_SIZE
                BY <1>5, <2>5, <3>1, Limits
            <4>2. Len(Raw) = w  BY <1>4, <1>5, <2>1
            <4>3. QED  BY <4>1, <4>2
        <3>5. QED  BY <2>2, <3>2, <3>3, <3>4 DEF Leave
    <2>6. QED  BY <1>5, <2>4, <2>5, Limits
<1>8. QED  BY <1>6, <1>7 DEF FramingInv

(* create() that goes on behind the start byte, after a ParseError, keeps the
   invariant.                                                                *)
LEMMA SkipKeeps == FramingInv /\ Skip => FramingInv'
<1> SUFFICES ASSUME FramingInv, Skip PROVE FramingInv'  OBVIOUS
<1>1. FrameTypes /\ Held /\ ChunkIndependent /\ Untouched /\ window > 0  BY DEF FramingInv, Skip
<1>2. PICK k \in 0 .. window :
          /\ IsPart(Raw, buf, k, window) /\ IsPart(Behind, buf, window, Len(buf))
          /\ \A i \in 1 .. k : buf[i] # START_BYTE
          /\ k < window => Raw[1] = START_BYTE
    BY <1>1, Looking
<1>3. PICK u : u = taken - Len(buf)  OBVIOUS
<1>4. /\ u \in Nat /\ IsPart(Raw, stream, u + k, u + window) /\ u + window <= Len(stream)
      /\ Len(Raw) = window - k /\ Raw \in Seq(Byte)
      /\ \A p \in u + 1 .. u + k : ~PacketAt(stream, p)
    BY <1>1, <1>2, <1>3, Seen
<1>5. PICK w \in 0 .. 14 : w = window /\ w <= Len(buf) /\ k \in 0 .. w /\ Len(buf) \in Nat /\ buf \in Seq(Byte)
    BY Limits DEF FramingInv, FrameTypes
<1>6. PICK n \in 6 .. 14 : n = w - k /\ n = Len(Raw) /\ k < w
    BY <1>4, <1>5, Limits DEF Skip
<1>7. PICK p \in Nat \ {0} : p = u + k + 1  BY <1>4, <1>5
<1>8. ~PacketAt(stream, p)
    <2>1. p - 1 = u + k /\ p - 1 + n = u + w  BY <1>4, <1>5, <1>6, <1>7
    <2>2. IsPart(Raw, stream, p - 1, p - 1 + n) /\ p - 1 + n <= Len(stream)  BY <1>4, <1>5, <2>1
    <2>3. stream \in Seq(Byte) /\ Raw[1] = START_BYTE  BY <1>1, <1>2, <1>5, <1>6 DEF FrameTypes
    <2>4. QED  BY <2>2, <2>3, ParseIs DEF Skip
<1>9. PICK d \in 0 .. w : d = k + 1  BY <1>5, <1>6
<1>10. IsPart(buf', buf, d, Len(buf))
    <2>1. IsPart(Tail(Raw), Raw, 1, n)
        <3>1. Tail(Raw) \in Seq(Byte) /\ Len(Tail(Raw)) = n - 1 /\ \A i \in 1 .. (n - 1) : Tail(Raw)[i] = Raw[1 + i]
            BY <1>4, <1>6
        <3>2. QED  BY <3>1 DEF IsPart
    <2>2. IsPart(Tail(Raw), buf, d, w)
        <3>1. w \in Nat /\ k \in 0 .. w /\ n \in 0 .. (w - k) /\ 1 \in 0 .. n /\ k + 1 = d /\ k + n = w
            BY <1>5, <1>6, <1>9
        <3>2. IsPart(Raw, buf, k, w)  BY <1>2, <1>5
        <3>3. IsPart(Tail(Raw), buf, k + 1, k + n)  BY <1>5, <2>1, <3>1, <3>2, PartOfPart
        <3>4. QED  BY <3>1, <3>3
    <2>3. IsPart(Behind, buf, w, Len(buf)) /\ w \in 0 .. Len(buf)  BY <1>2, <1>5
    <2>4. QED  BY <1>5, <1>9, <2>2, <2>3, Joined DEF Skip
<1>11. FrameTypes' /\ Held' /\ ChunkIndependent' /\ taken' - Len(buf') = u + d
    <2>1. d \in 0 .. Len(buf) /\ window' \in 0 .. MAXIMUM_MESSAGE_SIZE /\ window' <= Len(buf) - d
        <3>1. window' = n - 1  BY <1>6 DEF Skip
        <3>2. d \in 0 .. Len(buf) /\ n - 1 \in 0 .. 14 /\ n - 1 <= Len(buf) - d  BY <1>5, <1>6, <1>9
        <3>3. QED  BY <3>1, <3>2, Limits
    <2>2. UNCHANGED <<stream, taken, delivered, places>>  BY DEF Skip
    <2>3. ASSUME NEW q \in u + 1 .. u + d PROVE ~PacketAt(stream, q)
        <3>1. CASE q = p  BY <1>8, <3>1
        <3>2. CASE q # p
            <4>1. q \in u + 1 .. u + k  BY <1>4, <1>5, <1>7, <1>9, <3>2
            <4>2. QED  BY <1>4, <4>1
        <3>3. QED  BY <3>1, <3>2
    <2>4. QED  BY <1>1, <1>3, <1>10, <2>1, <2>2, <2>3, Shortened
<1>12. Untouched'
    <2>1. u + d # 0  BY <1>4, <1>5, <1>9
    <2>2. taken' # Len(buf')
        <3>1. PICK t \in Nat : t = taken'  BY <1>11 DEF FrameTypes
        <3>2. QED  BY <1>11, <2>1, <3>1
    <2>3. QED  BY <2>2 DEF Untouched
<1>13. QED  BY <1>11, <1>12 DEF FramingInv

(* What _parse() looks at is in the buffer. *)
LEMMA WindowIs ==
    ASSUME NEW b, Len(b) \in Nat
    PROVE  /\ Window(b) \in 0 .. MAXIMUM_MESSAGE_SIZE /\ Window(b) <= Len(b)
           /\ Window(b) = 0 => Len(b) < MINIMUM_MESSAGE_SIZE
<1>1. PICK l \in Nat : l = Len(b)  OBVIOUS
<1>2. MINIMUM_MESSAGE_SIZE = 6 /\ MAXIMUM_MESSAGE_SIZE = 14  BY Limits
<1>3. Window(b) = IF l < 6 THEN 0 ELSE IF l < 14 THEN l ELSE 14  BY <1>1, <1>2 DEF Window
<1>4. CASE l < 6  BY <1>1, <1>2, <1>3, <1>4
<1>5. CASE 6 <= l /\ l < 14
    <2>1. Window(b) = l  BY <1>3, <1>5
    <2>2. l \in 0 .. 14 /\ l <= l /\ l # 0  BY <1>5
    <2>3. QED  BY <1>1, <1>2, <2>1, <2>2
<1>6. CASE 14 <= l  BY <1>1, <1>2, <1>3, <1>6
<1>7. QED  BY <1>1, <1>4, <1>5, <1>6

(* A packet that is delivered keeps the invariant. *)
LEMMA DeliverKeeps == FramingInv /\ Deliver => FramingInv'
<1> SUFFICES ASSUME FramingInv, Deliver PROVE FramingInv'  OBVIOUS
<1>1. FrameTypes /\ Held /\ ChunkIndependent /\ Untouched /\ window > 0  BY DEF FramingInv, Deliver
<1>2. PICK k \in 0 .. window :
          /\ IsPart(Raw, buf, k, window) /\ IsPart(Behind, buf, window, Len(buf))
          /\ IsPart(Raw \o Behind, buf, k, Len(buf))
          /\ \A i \in 1 .. k : buf[i] # START_BYTE
          /\ k < window => Raw[1] = START_BYTE
    BY <1>1, Looking
<1>3. PICK u : u = taken - Len(buf)  OBVIOUS
<1>4. /\ u \in Nat /\ IsPart(Raw, stream, u + k, u + window) /\ u + window <= Len(stream)
      /\ Len(Raw) = window - k /\ Raw \in Seq(Byte)
      /\ \A p \in u + 1 .. u + k : ~PacketAt(stream, p)
    BY <1>1, <1>2, <1>3, Seen
<1>5. PICK w \in 0 .. 14 : w = window /\ w <= Len(buf) /\ k \in 0 .. w /\ Len(buf) \in Nat /\ buf \in Seq(Byte)
    BY Limits DEF FramingInv, FrameTypes
<1>6. PICK n \in 6 .. 14 : n = w - k /\ n = Len(Raw) /\ k < w
    BY <1>4, <1>5, Limits DEF Deliver
<1>7. PICK v \in Nat : v = u + k  BY <1>4, <1>5
<1>8. PICK p \in Nat \ {0} : p = v + 1  BY <1>7
<1>9. /\ stream \in Seq(Byte) /\ taken \in Nat /\ taken <= Len(stream) /\ Len(buf) <= taken
      /\ places \in Seq(Nat) /\ \A i \in DOMAIN places : places[i] > 0
    BY <1>1 DEF FrameTypes
<1>10. /\ Size(stream, p) \in 0 .. 15 /\ LastOf(stream, p) = p + 5 + Size(stream, p)
       /\ PacketAt(stream, p) /\ Parse(Raw).msg = MessageAt(stream, p) /\ 6 + Size(stream, p) <= n
       /\ IsPart(Parse(Raw).rest, Raw, 6 + Size(stream, p), n)
    <2>1. p - 1 = u + k /\ p - 1 + n = u + w  BY <1>4, <1>5, <1>6, <1>7, <1>8
    <2>2. IsPart(Raw, stream, p - 1, p - 1 + n) /\ p - 1 + n <= Len(stream)  BY <1>4, <1>5, <2>1
    <2>3. Raw[1] = START_BYTE  BY <1>2, <1>5, <1>6
    <2>4. /\ PacketAt(stream, p) /\ Parse(Raw).msg = MessageAt(stream, p) /\ 6 + Size(stream, p) <= n
          /\ IsPart(Parse(Raw).rest, Raw, 6 + Size(stream, p), n)
        BY <1>9, <2>2, <2>3, ParseIs DEF Deliver
    <2>5. Size(stream, p) \in 0 .. 15 /\ LastOf(stream, p) = p + 5 + Size(stream, p)
        BY <1>9, <2>2, PlaceOf
    <2>6. QED  BY <2>4, <2>5
<1>11. PICK f \in 6 .. 14 : f = 6 + Size(stream, p) /\ f <= n
    <2>1. PICK z \in 0 .. 15 : z = Size(stream, p)  BY <1>10
    <2>2. 6 + z \in 6 .. 14 /\ 6 + z <= n  BY <1>10, <2>1
    <2>3. QED  BY <2>1, <2>2
<1>12. PICK d \in 0 .. w : d = k + f  BY <1>5, <1>6, <1>11
<1>13. IsPart(buf', buf, d, Len(buf))
    <2>1. IsPart(Parse(Raw).rest, Raw, f, n)  BY <1>10, <1>11
    <2>2. w \in Nat /\ k \in 0 .. w /\ n \in 0 .. (w - k) /\ f \in 0 .. n /\ k + f = d /\ k + n = w
        <3>1. w \in Nat /\ k \in 0 .. w  BY <1>5
        <3>2. n \in 0 .. (w - k) /\ k + n = w  BY <1>6, <3>1
        <3>3. f \in 0 .. n  BY <1>11
        <3>4. k + f = d  BY <1>12
        <3>5. QED  BY <3>1, <3>2, <3>3, <3>4
    <2>3. IsPart(Raw, buf, k, w)  BY <1>2, <1>5
    <2>4. IsPart(Parse(Raw).rest, buf, k + f, k + n)  BY <1>5, <2>1, <2>2, <2>3, PartOfPart
    <2>5. IsPart(Parse(Raw).rest, buf, d, w)  BY <2>2, <2>4
    <2>6. IsPart(Behind, buf, w, Len(buf)) /\ w \in 0 .. Len(buf)  BY <1>2, <1>5
    <2>7. QED  BY <1>5, <1>12, <2>5, <2>6, Joined DEF Deliver
<1>14. d \in 0 .. Len(buf)  BY <1>5, <1>12
<1>15. /\ buf' \in Seq(Byte) /\ Len(buf') = Len(buf) - d /\ taken - Len(buf') = u + d
       /\ \A i \in 1 .. Len(buf') : buf'[i] = stream[taken - Len(buf') + i]
    BY <1>1, <1>3, <1>13, <1>14, Rest
<1>16. LastOf(stream, p) = u + d
    <2>1. p + 5 + Size(stream, p) = u + d
        <3>1. PICK z \in 0 .. 15 : z = Size(stream, p)  BY <1>10
        <3>2. f = 6 + z /\ d = k + (6 + z) /\ p = (u + k) + 1 /\ k \in Nat /\ u \in Nat
            BY <1>4, <1>5, <1>7, <1>8, <1>11, <1>12, <3>1
        <3>3. ((u + k) + 1) + 5 + z = u + (k + (6 + z))  BY <3>2
        <3>4. p + 5 + z = u + d  BY <3>2, <3>3
        <3>5. QED  BY <3>1, <3>4
    <2>2. QED  BY <1>10, <2>1
<1>17. places' = Append(places, p)
    <2>1. Len(Raw \o Behind) = Len(buf) - k  BY <1>2 DEF IsPart
    <2>2. PICK l \in Nat : l = Len(buf)  BY <1>5
    <2>3. taken - (l - k) + 1 = p  BY <1>3, <1>4, <1>5, <1>7, <1>8, <1>9, <2>2
    <2>4. QED  BY <2>1, <2>2, <2>3 DEF Deliver
<1>18. IsScan(stream, places', u + d)
    <2>1. IsScan(stream, places, u)  BY <1>1, <1>3 DEF ChunkIndependent
    <2>2. u \in Nat /\ u <= v /\ \A q \in u + 1 .. v : ~PacketAt(stream, q)  BY <1>4, <1>5, <1>7
    <2>3. IsScan(stream, places, v)  BY <1>9, <2>1, <2>2, ScanOn
    <2>4. PacketAt(stream, v + 1)  BY <1>8, <1>10
    <2>5. IsScan(stream, Append(places, v + 1), LastOf(stream, v + 1))  BY <1>9, <2>3, <2>4, ScanMore
    <2>6. QED  BY <1>8, <1>16, <1>17, <2>5
<1>19. delivered' = [i \in DOMAIN places' |-> MessageAt(stream, places'[i])]
    <2>1. delivered = [i \in DOMAIN places |-> MessageAt(stream, places[i])]  BY <1>1 DEF ChunkIndependent
    <2>2. PICK m \in Nat : m = Len(places) /\ DOMAIN places = 1 .. m  BY <1>9
    <2>3. PICK T : T = {MessageAt(stream, q) : q \in Nat}  OBVIOUS
    <2>4. \A i \in 1 .. m : places[i] \in Nat  BY <1>9, <2>2
    <2>5. delivered \in [1 .. m -> T]  BY <2>1, <2>2, <2>3, <2>4
    <2>6. delivered \in Seq(T) /\ Len(delivered) = m  BY <2>5
    <2>7. PICK g : g = MessageAt(stream, p)  OBVIOUS
    <2>8. g \in T  BY <2>3, <2>7
    <2>9. delivered' = Append(delivered, g)  BY <1>10, <2>7 DEF Deliver
    <2>10. /\ delivered' \in Seq(T) /\ Len(delivered') = m + 1 /\ delivered'[m + 1] = g
           /\ \A i \in 1 .. m : delivered'[i] = delivered[i]
        BY <2>6, <2>8, <2>9, AppendProperties
    <2>11. /\ places' \in Seq(Nat) /\ Len(places') = m + 1 /\ places'[m + 1] = p
           /\ \A i \in 1 .. m : places'[i] = places[i]
        BY <1>8, <1>9, <1>17, <2>2, AppendProperties
    <2>12. PICK e : e = [i \in 1 .. m + 1 |-> MessageAt(stream, places'[i])]  OBVIOUS
    <2>13. ASSUME NEW i \in 1 .. m + 1 PROVE delivered'[i] = e[i]
        <3>1. e[i] = MessageAt(stream, places'[i])  BY <2>12
        <3>2. CASE i = m + 1  BY <2>7, <2>10, <2>11, <3>1, <3>2
        <3>3. CASE i \in 1 .. m
            <4>1. delivered[i] = MessageAt(stream, places[i])  BY <2>1, <2>2, <3>3
            <4>2. QED  BY <2>10, <2>11, <3>1, <3>3, <4>1
        <3>4. QED  BY <3>2, <3>3
    <2>14. DOMAIN delivered' = 1 .. m + 1 /\ delivered' = [i \in 1 .. m + 1 |-> delivered'[i]]  BY <2>10
    <2>15. delivered' = e  BY <2>12, <2>13, <2>14
    <2>16. DOMAIN places' = 1 .. m + 1  BY <2>11
    <2>17. QED  BY <2>12, <2>15, <2>16
<1>20. stream' = stream /\ taken' = taken  BY DEF Deliver
<1>21. ChunkIndependent'  BY <1>15, <1>18, <1>19, <1>20 DEF ChunkIndependent
<1>22. FrameTypes'
    <2>1. Len(buf') <= taken /\ Len(buf') \in Nat  BY <1>4, <1>5, <1>9, <1>12, <1>15
    <2>2. window' \in 0 .. MAXIMUM_MESSAGE_SIZE /\ window' <= Len(buf')
        BY <2>1, WindowIs DEF Deliver
    <2>3. places' \in Seq(Nat) /\ \A i \in DOMAIN places' : places'[i] > 0
        <3>1. PICK m \in Nat : m = Len(places) /\ DOMAIN places = 1 .. m  BY <1>9
        <3>2. /\ places' \in Seq(Nat) /\ Len(places') = m + 1 /\ places'[m + 1] = p
              /\ \A i \in 1 .. m : places'[i] = places[i]
            BY <1>8, <1>9, <1>17, <3>1, AppendProperties
        <3>3. ASSUME NEW i \in 1 .. m + 1 PROVE places'[i] > 0
            <4>1. CASE i = m + 1  BY <1>8, <3>2, <4>1
            <4>2. CASE i \in 1 .. m  BY <1>9, <3>1, <3>2, <4>2
            <4>3. QED  BY <4>1, <4>2
        <3>4. DOMAIN places' = 1 .. m + 1  BY <3>2
        <3>5. QED  BY <3>2, <3>3, <3>4
    <2>4. QED  BY <1>1, <1>15, <1>20, <2>1, <2>2, <2>3 DEF FrameTypes
<1>23. Held'  BY <1>15, <1>20 DEF Held
<1>24. Untouched'
    <2>1. u \in Nat /\ k \in Nat  BY <1>4, <1>5
    <2>2. f \in Nat /\ f > 0  BY <1>11
    <2>3. d = k + f  BY <1>12
    <2>4. u + d # 0  BY <2>1, <2>2, <2>3
    <2>5. taken' # Len(buf')
        <3>1. PICK t \in Nat : t = taken'  BY <1>9, <1>20
        <3>2. QED  BY <1>15, <1>20, <2>4, <3>1
    <2>6. QED  BY <2>5 DEF Untouched
<1>25. QED  BY <1>21, <1>22, <1>23, <1>24 DEF FramingInv

(* Bytes that are read keep the invariant. *)
LEMMA ReadKeeps == ASSUME FramingInv, NEW n \in 1 .. Len(stream) - taken, Read(n) PROVE FramingInv'
<1>1. FrameTypes /\ Held /\ ChunkIndependent  BY DEF FramingInv
<1>2. PICK l \in Nat : l = Len(buf) /\ buf \in Seq(Byte)  BY <1>1 DEF FrameTypes
<1>3. PICK t \in Nat : t = taken /\ l <= t /\ t <= Len(stream)  BY <1>1, <1>2 DEF FrameTypes
<1>4. stream \in Seq(Byte) /\ Len(stream) \in Nat  BY <1>1 DEF FrameTypes
<1>5. n \in Nat /\ n > 0 /\ t + n <= Len(stream)  BY <1>3, <1>4
<1>6. PICK u \in Nat : u = t - l  BY <1>3
<1>7. IsPart(buf', stream, u, t + n)
    <2>1. IsPart(buf, stream, u, t)  BY <1>1, <1>2, <1>3, <1>6, HeldIsPart
    <2>2. t + n \in 0 .. Len(stream) /\ t \in 0 .. (t + n) /\ u \in 0 .. t  BY <1>3, <1>4, <1>5, <1>6
    <2>3. IsPart(SubSeq(stream, t + 1, t + n), stream, t, t + n)  BY <1>4, <2>2, PartOf
    <2>4. t + n \in Nat  BY <1>5
    <2>5. IsPart(buf \o SubSeq(stream, t + 1, t + n), stream, u, t + n)
        BY <1>4, <2>1, <2>2, <2>3, <2>4, Joined
    <2>6. QED  BY <1>3, <2>5 DEF Read
<1>8. PICK m \in Nat : m = t + n /\ u <= m /\ m <= Len(stream)  BY <1>3, <1>5, <1>6
<1>9. buf' \in Seq(Byte) /\ Len(buf') = m - u  BY <1>7, <1>8 DEF IsPart
<1>10. taken' = m /\ taken' - Len(buf') = u
    <2>1. m - (m - u) = u  BY <1>8
    <2>2. QED  BY <1>3, <1>8, <1>9, <2>1 DEF Read
<1>11. FrameTypes'
    <2>1. Len(buf') <= m /\ Len(buf') \in Nat  BY <1>8, <1>9
    <2>2. window' \in 0 .. MAXIMUM_MESSAGE_SIZE /\ window' <= Len(buf')
        BY <2>1, WindowIs DEF Read
    <2>3. taken' \in 0 .. Len(stream)  BY <1>4, <1>8, <1>10
    <2>4. stream' = stream /\ places' = places  BY DEF Read
    <2>5. QED  BY <1>1, <1>9, <1>10, <2>1, <2>2, <2>3, <2>4 DEF FrameTypes
<1>12. Held'
    <2>1. IsPart(buf', stream', taken' - Len(buf'), taken')  BY <1>7, <1>8, <1>10 DEF Read
    <2>2. \A i \in 1 .. Len(buf') : buf'[i] = stream'[(taken' - Len(buf')) + i]
        BY <1>8, <1>9, <1>10, <2>1 DEF IsPart
    <2>3. QED  BY <2>2 DEF Held
<1>13. ChunkIndependent'
    <2>1. IsScan(stream, places, u)  BY <1>1, <1>2, <1>3, <1>6 DEF ChunkIndependent
    <2>2. QED  BY <1>1, <1>10, <2>1 DEF ChunkIndependent, Read
<1>14. Untouched'
    <2>1. window' = Window(buf')  BY DEF Read
    <2>2. window' = 0 => Len(buf') < MINIMUM_MESSAGE_SIZE
        <3>1. Len(buf') \in Nat  BY <1>8, <1>9
        <3>2. QED  BY <2>1, <3>1, WindowIs
    <2>3. QED  BY <2>1, <2>2 DEF Untouched
<1>15. QED  BY <1>11, <1>12, <1>13, <1>14 DEF FramingInv

(* The invariant holds before anything is read. *)
LEMMA FramingStart == FInit => FramingInv
<1> SUFFICES ASSUME FInit PROVE FramingInv  OBVIOUS
<1>1. stream \in Seq(Byte) /\ Len(stream) \in Nat  BY FramingAssumption DEF FInit
<1>2. buf = <<>> /\ places = <<>> /\ delivered = <<>> /\ taken = 0 /\ window = 0  BY DEF FInit
<1>3. Len(buf) = 0 /\ buf \in Seq(Byte) /\ places \in Seq(Nat) /\ DOMAIN places = {}  BY <1>2
<1>4. FrameTypes  BY <1>1, <1>2, <1>3, Limits DEF FrameTypes
<1>5. Held  BY <1>3 DEF Held
<1>6. ChunkIndependent
    <2>1. taken - Len(buf) = 0
        <3>1. 0 - 0 = 0  OBVIOUS
        <3>2. QED  BY <1>2, <1>3, <3>1
    <2>2. IsScan(stream, places, 0)  BY <1>3 DEF IsScan
    <2>3. delivered = [i \in DOMAIN places |-> MessageAt(stream, places[i])]  BY <1>2, <1>3
    <2>4. QED  BY <2>1, <2>2, <2>3 DEF ChunkIndependent
<1>7. Untouched
    <2>1. Len(buf) < MINIMUM_MESSAGE_SIZE  BY <1>3, Limits
    <2>2. QED  BY <1>2, <2>1 DEF Untouched
<1>8. QED  BY <1>4, <1>5, <1>6, <1>7 DEF FramingInv

(* The bytes still buffered are the last ones read, and what was delivered is
   the scan of the stream up to them, after every read and every turn of create(). *)
THEOREM FramingInductive == FSpec => []FramingInv
<1>1. FInit => FramingInv  BY FramingStart
<1>2. FramingInv /\ [FNext]_fvars => FramingInv'
    <2> SUFFICES ASSUME FramingInv, [FNext]_fvars PROVE FramingInv'  OBVIOUS
    <2>1. ASSUME NEW n \in 1 .. Len(stream) - taken, Read(n) PROVE FramingInv'  BY <2>1, ReadKeeps
    <2>2. CASE Leave  BY <2>2, LeaveKeeps
    <2>3. CASE Skip  BY <2>3, SkipKeeps
    <2>4. CASE Deliver  BY <2>4, DeliverKeeps
    <2>5. CASE UNCHANGED fvars
        BY <2>5 DEF fvars, FramingInv, FrameTypes, Held, ChunkIndependent, Untouched, Window
    <2>6. QED  BY <2>1, <2>2, <2>3, <2>4, <2>5 DEF FNext
<1>3. QED  BY <1>1, <1>2, PTL DEF FSpec

(* Whatever the bus sends and however it is cut into reads, what data_received()
   hands on is what a scan of the whole stream finds.                        *)
THEOREM FramingChunkIndependent == FSpec => []ChunkIndependent
<1>1. FramingInv => ChunkIndependent  BY DEF FramingInv
<1>2. QED  BY <1>1, FramingInductive, PTL

(* There is only one such scan: a scan that goes further begins with the same
   packets, so the messages handed on depend on the bytes and on nothing else. *)
THEOREM ScansAgree ==
    ASSUME NEW s \in Seq(Byte), NEW u \in Nat, NEW v \in Nat, u <= v,
           NEW a \in Seq(Nat), NEW b \in Seq(Nat), IsScan(s, a, u), IsScan(s, b, v),
           \A i \in DOMAIN a : a[i] > 0, \A i \in DOMAIN b : b[i] > 0
    PROVE  Len(a) <= Len(b) /\ \A i \in DOMAIN a : a[i] = b[i]
<1>1. PICK n \in Nat : n = Len(a) /\ DOMAIN a = 1 .. n  OBVIOUS
<1>2. PICK m \in Nat : m = Len(b) /\ DOMAIN b = 1 .. m  OBVIOUS
<1>3. /\ \A i \in 1 .. n : PacketAt(s, a[i]) /\ LastOf(s, a[i]) <= u
      /\ \A i, j \in 1 .. n : i < j => LastOf(s, a[i]) < a[j]
      /\ \A p \in 1 .. u : PacketAt(s, p) => \E i \in 1 .. n : p \in a[i] .. LastOf(s, a[i])
    BY <1>1 DEF IsScan
<1>4. /\ \A i \in 1 .. m : PacketAt(s, b[i]) /\ LastOf(s, b[i]) <= v
      /\ \A i, j \in 1 .. m : i < j => LastOf(s, b[i]) < b[j]
      /\ \A p \in 1 .. v : PacketAt(s, p) => \E i \in 1 .. m : p \in b[i] .. LastOf(s, b[i])
    BY <1>2 DEF IsScan
<1>5. /\ \A i \in 1 .. n : a[i] \in Nat \ {0} /\ LastOf(s, a[i]) \in Nat /\ a[i] <= LastOf(s, a[i])
      /\ \A i \in 1 .. m : b[i] \in Nat \ {0} /\ LastOf(s, b[i]) \in Nat /\ b[i] <= LastOf(s, b[i])
    <2>1. ASSUME NEW i \in 1 .. n PROVE a[i] \in Nat \ {0} /\ LastOf(s, a[i]) \in Nat /\ a[i] <= LastOf(s, a[i])
        <3>1. i \in DOMAIN a /\ a[i] \in Nat  BY <1>1
        <3>2. a[i] > 0  BY <3>1
        <3>3. a[i] \in Nat \ {0}  BY <3>1, <3>2
        <3>4. a[i] \in Nat \ {0} /\ PacketAt(s, a[i])  BY <1>3, <3>3
        <3>5. PICK p \in Nat \ {0} : p = a[i]  BY <3>4
        <3>6. LastOf(s, p) \in Nat /\ p + 5 <= LastOf(s, p)  BY <3>4, <3>5, PacketIs
        <3>7. p <= LastOf(s, p)  BY <3>6
        <3>8. QED  BY <3>4, <3>5, <3>6, <3>7
    <2>2. ASSUME NEW i \in 1 .. m PROVE b[i] \in Nat \ {0} /\ LastOf(s, b[i]) \in Nat /\ b[i] <= LastOf(s, b[i])
        <3>1. i \in DOMAIN b /\ b[i] \in Nat  BY <1>2
        <3>2. b[i] > 0  BY <3>1
        <3>3. b[i] \in Nat \ {0}  BY <3>1, <3>2
        <3>4. b[i] \in Nat \ {0} /\ PacketAt(s, b[i])  BY <1>4, <3>3
        <3>5. PICK p \in Nat \ {0} : p = b[i]  BY <3>4
        <3>6. LastOf(s, p) \in Nat /\ p + 5 <= LastOf(s, p)  BY <3>4, <3>5, PacketIs
        <3>7. p <= LastOf(s, p)  BY <3>6
        <3>8. QED  BY <3>4, <3>5, <3>6, <3>7
    <2>3. QED  BY <2>1, <2>2
<1>6. PICK odd \in SUBSET Nat : odd = {i \in 1 .. n : ~(i <= m /\ a[i] = b[i])}
    <2>1. {i \in 1 .. n : ~(i <= m /\ a[i] = b[i])} \in SUBSET Nat  OBVIOUS
    <2>2. QED  BY <2>1
<1>7. ASSUME odd # {} PROVE FALSE
    <2>1. PICK i \in odd : \A j \in odd : i <= j  BY <1>7, Least
    <2>2. i \in 1 .. n /\ ~(i <= m /\ a[i] = b[i])  BY <1>6
    <2>3. ASSUME NEW j \in Nat, 1 <= j, j < i PROVE j \in 1 .. n /\ j \in 1 .. m /\ a[j] = b[j]
        <3>1. j \in 1 .. n /\ ~(i <= j)  BY <2>2, <2>3
        <3>2. j \notin odd  BY <2>1, <3>1
        <3>3. j <= m /\ a[j] = b[j]  BY <1>6, <3>1, <3>2
        <3>4. QED  BY <2>3, <3>1, <3>3
    <2>4. PICK p \in Nat \ {0} : p = a[i]  BY <1>5, <2>2
    <2>5. PacketAt(s, p) /\ p \in 1 .. u /\ p \in 1 .. v
        <3>1. PICK e \in Nat : e = LastOf(s, p)  BY <1>5, <2>2, <2>4
        <3>2. p <= e /\ e <= u  BY <1>3, <1>5, <2>2, <2>4, <3>1
        <3>3. p \in 1 .. u /\ p \in 1 .. v  BY <3>2
        <3>4. QED  BY <1>3, <2>2, <2>4, <3>3
    <2>6. PICK j \in 1 .. m : p \in b[j] .. LastOf(s, b[j])  BY <1>4, <2>5
    <2>7. ~(j < i)
        <3> SUFFICES ASSUME j < i PROVE FALSE  OBVIOUS
        <3>1. j \in 1 .. n /\ a[j] = b[j]  BY <2>3
        <3>2. LastOf(s, a[j]) < a[i]  BY <1>3, <2>2, <3>1
        <3>3. PICK e \in Nat : e = LastOf(s, b[j])  BY <1>5
        <3>4. e < p  BY <2>4, <3>1, <3>2, <3>3
        <3>5. p <= e  BY <1>5, <2>6, <3>3
        <3>6. QED  BY <3>4, <3>5
    <2>8. i \in 1 .. m  BY <2>2, <2>7
    <2>9. PICK q \in Nat \ {0} : q = b[i]  BY <1>5, <2>8
    <2>10. q <= p
        <3>1. b[j] <= p  BY <1>5, <2>6
        <3>2. CASE i = j  BY <2>9, <3>1, <3>2
        <3>3. CASE i < j
            <4>1. LastOf(s, b[i]) < b[j] /\ b[i] <= LastOf(s, b[i])  BY <1>4, <1>5, <2>8, <3>3
            <4>2. PICK e \in Nat : e = LastOf(s, b[i])  BY <1>5, <2>8
            <4>3. PICK r \in Nat : r = b[j]  BY <1>5
            <4>4. q <= e /\ e < r /\ r <= p  BY <2>9, <3>1, <4>1, <4>2, <4>3
            <4>5. QED  BY <4>4
        <3>4. QED  BY <2>7, <2>8, <3>2, <3>3
    <2>11. PacketAt(s, q) /\ q \in 1 .. u  BY <1>4, <2>5, <2>8, <2>9, <2>10
    <2>12. PICK k \in 1 .. n : q \in a[k] .. LastOf(s, a[k])  BY <1>3, <2>11
    <2>13. ~(k < i)
        <3> SUFFICES ASSUME k < i PROVE FALSE  OBVIOUS
        <3>1. k \in 1 .. m /\ a[k] = b[k]  BY <2>3
        <3>2. LastOf(s, b[k]) < b[i]  BY <1>4, <2>8, <3>1
        <3>3. PICK e \in Nat : e = LastOf(s, a[k])  BY <1>5
        <3>4. e < q  BY <2>9, <3>1, <3>2, <3>3
        <3>5. q <= e  BY <1>5, <2>12, <3>3
        <3>6. QED  BY <3>4, <3>5
    <2>14. p <= q
        <3>1. a[k] <= q  BY <1>5, <2>12
        <3>2. CASE i = k  BY <2>4, <3>1, <3>2
        <3>3. CASE i < k
            <4>1. LastOf(s, a[i]) < a[k] /\ a[i] <= LastOf(s, a[i])  BY <1>3, <1>5, <2>2, <3>3
            <4>2. PICK e \in Nat : e = LastOf(s, a[i])  BY <1>5, <2>2
            <4>3. PICK r \in Nat : r = a[k]  BY <1>5
            <4>4. p <= e /\ e < r /\ r <= q  BY <2>4, <3>1, <4>1, <4>2, <4>3
            <4>5. QED  BY <4>4
        <3>4. QED  BY <2>2, <2>13, <3>2, <3>3
    <2>15. p = q  BY <2>10, <2>14
    <2>16. QED  BY <2>2, <2>4, <2>8, <2>9, <2>15
<1>8. ASSUME NEW i \in 1 .. n PROVE i <= m /\ a[i] = b[i]  BY <1>6, <1>7
<1>9. n <= m
    <2>1. CASE n = 0  BY <2>1
    <2>2. CASE n > 0
        <3>1. n \in 1 .. n  BY <2>2
        <3>2. QED  BY <1>8, <3>1
    <2>3. QED  BY <2>1, <2>2
<1>10. QED  BY <1>1, <1>2, <1>8, <1>9
(* A maximum-size packet in the buffer that goes on has an impossible size. *)
LEMMA Stuck == FramingInv => NeverStuckLegalSize
<1> SUFFICES ASSUME FramingInv, Len(buf) >= MAXIMUM_MESSAGE_SIZE,
                    ~(buf[1] = START_BYTE /\ Size(buf, 1) > MAX_BODY_SIZE)
             PROVE  HeadMoves
    BY DEF NeverStuckLegalSize
<1>1. buf \in Seq(Byte) /\ Len(buf) \in Nat /\ Len(buf) >= 14
    BY Limits DEF FramingInv, FrameTypes
<1>2. PICK h : h = Upto(buf, MAXIMUM_MESSAGE_SIZE)  OBVIOUS
<1>3. h = SubSeq(buf, 0 + 1, 14)
    <2>1. h = Upto(buf, 14)
        BY <1>2, Limits
    <2>2. PICK l \in Nat : l = Len(buf) /\ l >= 14  BY <1>1
    <2>3. (IF 14 < l THEN 14 ELSE l) = 14 /\ 0 + 1 = 1  BY <2>2
    <2>4. QED  BY <2>1, <2>2, <2>3 DEF Upto
<1>4. IsPart(h, buf, 0, 14)
    <2>1. 14 \in 0 .. Len(buf) /\ 0 \in 0 .. 14  BY <1>1
    <2>2. QED  BY <1>1, <1>3, <2>1, PartOf
<1>5. h \in Seq(Byte) /\ Len(h) = 14 /\ \A i \in 1 .. 14 : h[i] = buf[i]
    <2>1. 14 - 0 = 14 /\ \A i \in 1 .. 14 : 0 + i = i  OBVIOUS
    <2>2. QED  BY <1>4, <2>1 DEF IsPart
<1>6. PICK k \in 0 .. Len(h) : /\ IsPart(Trim(h), h, k, Len(h)) /\ \A i \in 1 .. k : h[i] # START_BYTE
                               /\ k < Len(h) => h[k + 1] = START_BYTE
    BY <1>5, TrimIs
<1>7. PICK raw : raw = Trim(h)  OBVIOUS
<1>8. k \in 0 .. 14 /\ raw \in Seq(Byte) /\ Len(raw) = 14 - k /\ \A i \in 1 .. (14 - k) : raw[i] = h[k + i]
    BY <1>5, <1>6, <1>7 DEF IsPart
<1>9. SUFFICES ASSUME ~(Len(raw) < 14), Parse(raw).kind = "incomplete" PROVE FALSE
    BY <1>2, <1>7, Limits DEF HeadMoves
<1>10. k = 0  BY <1>8, <1>9
<1>11. Len(raw) = 14 /\ \A i \in 1 .. 14 : raw[i] = buf[i]
    <2>1. 14 - 0 = 14 /\ \A i \in 1 .. 14 : 0 + i = i  OBVIOUS
    <2>2. QED  BY <1>5, <1>8, <1>10, <2>1
<1>12. raw[1] = START_BYTE /\ buf[1] = START_BYTE
    <2>1. h[0 + 1] = START_BYTE  BY <1>5, <1>6, <1>10
    <2>2. QED  BY <1>5, <1>11, <2>1
<1>13. 6 + Size(buf, 1) > 14
    <2>1. PICK p \in Nat \ {0} : p = 1  OBVIOUS
    <2>2. IsPart(raw, buf, p - 1, p - 1 + 14)
        <3>1. p - 1 = 0 /\ p - 1 + 14 = 14 /\ 14 - 0 = 14 /\ \A i \in 1 .. 14 : 0 + i = i  BY <2>1
        <3>2. QED  BY <1>8, <1>11, <3>1 DEF IsPart
    <2>3. p - 1 + 14 <= Len(buf)  BY <1>1, <2>1
    <2>4. 6 + Size(buf, p) > 14  BY <1>1, <1>9, <1>12, <2>2, <2>3, ParseIs
    <2>5. QED  BY <2>1, <2>4
<1>14. Size(buf, 1) > MAX_BODY_SIZE
    <2>1. Size(buf, 1) \in 0 .. 15
        <3>1. buf[1 + 3] \in Byte  BY <1>1
        <3>2. QED  BY <3>1, Sized DEF Size
    <2>2. QED  BY <1>13, <2>1 DEF MAX_BODY_SIZE
<1>15. QED  BY <1>12, <1>14

(* Noise, cut packets, wrong priorities, end bytes and checksums never hold up
   the bytes behind them, whatever the bus sends.                            *)
THEOREM FramingNeverStuck == FSpec => []NeverStuckLegalSize
BY Stuck, FramingInductive, PTL

(* What to_bytes() writes. *)
LEMMA ToBytesIs ==
    ASSUME NEW m \in RawMessages, NEW s \in Seq(Byte), s = ToBytes(m)
    PROVE  PacketAt(s, 1) /\ LastOf(s, 1) = Len(s) /\ Len(s) \in 6 .. 14
           /\ Size(s, 1) = Len(m.data) /\ MessageAt(s, 1) = m
<1>1. /\ m \in [priority : PRIORITIES, address : Byte, rtr : BOOLEAN, data : Seq(Byte)]
      /\ Len(m.data) <= 8
    BY DEF RawMessages, MAX_BODY_SIZE
<1>2. PICK d : d = m.data  OBVIOUS
<1>3. d \in Seq(Byte) /\ Len(d) \in 0 .. 8 /\ m.rtr \in BOOLEAN /\ m.priority \in PRIORITIES /\ m.address \in Byte
    <2>1. Len(m.data) \in Nat  BY <1>1
    <2>2. PICK l \in Nat : l = Len(m.data)  BY <2>1
    <2>3. l <= 8  BY <1>1, <2>2
    <2>4. l \in 0 .. 8  BY <2>3
    <2>5. QED  BY <1>1, <1>2, <2>2, <2>4
<1>4. PICK z \in 0 .. 8 : z = Len(d)  BY <1>3
<1>5. PICK f : f = (IF m.rtr THEN 64 ELSE 0) + z  OBVIOUS
<1>6. f \in Byte /\ f % 16 = z /\ ((f \div 64) % 2 = 1) = m.rtr
    <2>1. CASE m.rtr
        <3>1. f = 64 + z  BY <1>5, <2>1
        <3>2. f \in Byte /\ f % 16 = z /\ (f \div 64) % 2 = 1  BY <3>1 DEF Byte
        <3>3. QED  BY <2>1, <3>2
    <2>2. CASE ~m.rtr
        <3>1. f = z  BY <1>5, <2>2
        <3>2. f \in Byte /\ f % 16 = z /\ (f \div 64) % 2 = 0  BY <3>1 DEF Byte
        <3>3. (f \div 64) % 2 # 1  BY <3>2
        <3>4. QED  BY <1>3, <2>2, <3>2, <3>3
    <2>3. QED  BY <1>3, <2>1, <2>2
<1>7. PICK h : h = <<START_BYTE, m.priority, m.address, f>>  OBVIOUS
<1>8. /\ h \in Seq(Byte) /\ Len(h) = 4 /\ h[1] = START_BYTE /\ h[2] = m.priority /\ h[3] = m.address /\ h[4] = f
    <2>1. START_BYTE \in Byte /\ m.priority \in Byte  BY <1>3 DEF START_BYTE, Byte, PRIORITIES
    <2>2. QED  BY <1>3, <1>6, <1>7, <2>1
<1>9. PICK g : g = h \o d  OBVIOUS
<1>10. /\ g \in Seq(Byte) /\ Len(g) = 4 + z
       /\ \A i \in 1 .. 4 + z : g[i] = IF i <= 4 THEN h[i] ELSE d[i - 4]
    <2>1. h \in Seq(Byte) /\ d \in Seq(Byte) /\ Len(h) = 4 /\ Len(d) = z  BY <1>3, <1>4, <1>8
    <2>2. /\ h \o d \in Seq(Byte) /\ Len(h \o d) = Len(h) + Len(d)
          /\ \A i \in 1 .. Len(h) + Len(d) : (h \o d)[i] = IF i <= Len(h) THEN h[i] ELSE d[i - Len(h)]
        BY <2>1, ConcatProperties
    <2>3. QED  BY <1>9, <2>1, <2>2
<1>11. PICK c : c = Checksum(g)  OBVIOUS
<1>12. s = g \o <<c, END_BYTE>>
    BY <1>2, <1>4, <1>5, <1>7, <1>9, <1>11 DEF ToBytes, RTR
<1>13. PICK U : U = Byte \cup {c, END_BYTE}  OBVIOUS
<1>14. /\ Len(s) = 6 + z
       /\ \A i \in 1 .. 6 + z : s[i] = IF i <= 4 + z THEN g[i] ELSE <<c, END_BYTE>>[i - (4 + z)]
    <2>1. g \in Seq(U)
        <3>1. \A i \in 1 .. 4 + z : g[i] \in U  BY <1>10, <1>13
        <3>2. QED  BY <1>10, <3>1
    <2>2. <<c, END_BYTE>> \in Seq(U) /\ Len(<<c, END_BYTE>>) = 2  BY <1>13
    <2>3. PICK t : t = <<c, END_BYTE>>  OBVIOUS
    <2>4. /\ Len(g \o t) = Len(g) + Len(t)
          /\ \A i \in 1 .. Len(g) + Len(t) : (g \o t)[i] = IF i <= Len(g) THEN g[i] ELSE t[i - Len(g)]
        BY <2>1, <2>2, <2>3, ConcatProperties
    <2>5. (4 + z) + 2 = 6 + z  OBVIOUS
    <2>6. QED  BY <1>10, <1>12, <2>2, <2>3, <2>4, <2>5
<1>15. s[1] = START_BYTE /\ s[2] = m.priority /\ s[3] = m.address /\ s[4] = f
    <2>1. ASSUME NEW i \in 1 .. 4 PROVE s[i] = h[i]
        <3>1. i \in 1 .. 6 + z /\ i <= 4 + z /\ i \in 1 .. 4 + z /\ i <= 4  OBVIOUS
        <3>2. QED  BY <1>10, <1>14, <3>1
    <2>2. QED  BY <1>8, <2>1
<1>16. s[5 + z] = c /\ s[6 + z] = END_BYTE
    <2>1. 5 + z \in 1 .. 6 + z /\ ~(5 + z <= 4 + z) /\ (5 + z) - (4 + z) = 1  OBVIOUS
    <2>2. 6 + z \in 1 .. 6 + z /\ ~(6 + z <= 4 + z) /\ (6 + z) - (4 + z) = 2  OBVIOUS
    <2>3. <<c, END_BYTE>>[1] = c /\ <<c, END_BYTE>>[2] = END_BYTE  OBVIOUS
    <2>4. QED  BY <1>14, <2>1, <2>2, <2>3
<1>17. Size(s, 1) = z
    <2>1. 1 + 3 = 4  OBVIOUS
    <2>2. QED  BY <1>6, <1>15, <2>1 DEF Size, SIZES
<1>18. LastOf(s, 1) = 6 + z
    <2>1. 1 + 4 + z + 2 - 1 = 6 + z  OBVIOUS
    <2>2. QED  BY <1>17, <2>1 DEF LastOf, HEADER_LENGTH, TAIL_LENGTH
<1>19. SubSeq(s, 1, 4 + z) = g
    <2>1. 4 + z \in 0 .. Len(s) /\ 0 \in 0 .. (4 + z) /\ 0 + 1 = 1 /\ (4 + z) - 0 = 4 + z  BY <1>14
    <2>2. IsPart(SubSeq(s, 0 + 1, 4 + z), s, 0, 4 + z)  BY <2>1, PartOf
    <2>3. PICK r : r = SubSeq(s, 1, 4 + z)  OBVIOUS
    <2>4. r \in Seq(Byte) /\ Len(r) = 4 + z /\ \A i \in 1 .. 4 + z : r[i] = s[0 + i]
        BY <2>1, <2>2, <2>3 DEF IsPart
    <2>5. ASSUME NEW i \in 1 .. 4 + z PROVE r[i] = g[i]
        <3>1. 0 + i = i /\ i \in 1 .. 6 + z /\ i <= 4 + z  OBVIOUS
        <3>2. QED  BY <1>14, <2>4, <3>1
    <2>6. r = g  BY <1>10, <2>4, <2>5, SamePart
    <2>7. QED  BY <2>3, <2>6
<1>20. SubSeq(s, 5, 4 + z) = d
    <2>1. 4 + z \in 0 .. Len(s) /\ 4 \in 0 .. (4 + z) /\ 4 + 1 = 5 /\ (4 + z) - 4 = z  BY <1>14
    <2>2. IsPart(SubSeq(s, 4 + 1, 4 + z), s, 4, 4 + z)  BY <2>1, PartOf
    <2>3. PICK r : r = SubSeq(s, 5, 4 + z)  OBVIOUS
    <2>4. r \in Seq(Byte) /\ Len(r) = z /\ \A i \in 1 .. z : r[i] = s[4 + i]
        BY <2>1, <2>2, <2>3 DEF IsPart
    <2>5. ASSUME NEW i \in 1 .. z PROVE r[i] = d[i]
        <3>1. 4 + i \in 1 .. 6 + z /\ 4 + i <= 4 + z /\ 4 + i \in 1 .. 4 + z /\ ~(4 + i <= 4) /\ (4 + i) - 4 = i
            OBVIOUS
        <3>2. QED  BY <1>10, <1>14, <2>4, <3>1
    <2>6. r = d  BY <1>3, <1>4, <2>4, <2>5, SamePart
    <2>7. QED  BY <2>3, <2>6
<1>21. PacketAt(s, 1)
    <2>1. 1 + 6 - 1 <= Len(s) /\ 1 + 1 = 2 /\ (6 + z) - 1 = 5 + z /\ (6 + z) - 2 = 4 + z  BY <1>14
    <2>2. s[1 + 1] \in PRIORITIES  BY <1>3, <1>15, <2>1
    <2>3. Size(s, 1) <= 8 /\ LastOf(s, 1) <= Len(s)  BY <1>14, <1>17, <1>18
    <2>4. s[LastOf(s, 1)] = END_BYTE /\ s[LastOf(s, 1) - 1] = c  BY <1>16, <1>18, <2>1
    <2>5. Checksum(SubSeq(s, 1, LastOf(s, 1) - 2)) = c  BY <1>11, <1>18, <1>19, <2>1
    <2>6. QED
        BY <1>15, <2>1, <2>2, <2>3, <2>4, <2>5
        DEF PacketAt, MINIMUM_MESSAGE_SIZE, HEADER_LENGTH, TAIL_LENGTH, MAX_BODY_SIZE
<1>22. MessageAt(s, 1) = m
    <2>1. 1 + 1 = 2 /\ 1 + 2 = 3 /\ 1 + 3 = 4 /\ 1 + 4 = 5 /\ (6 + z) - 2 = 4 + z  OBVIOUS
    <2>2. MessageAt(s, 1) = [priority |-> m.priority, address |-> m.address, rtr |-> m.rtr, data |-> m.data]
        BY <1>2, <1>6, <1>15, <1>18, <1>20, <2>1 DEF MessageAt, HEADER_LENGTH, TAIL_LENGTH, RTR
    <2>3. QED  BY <1>1, <2>2
<1>23. Len(s) \in 6 .. 14  BY <1>14
<1>24. QED  BY <1>2, <1>4, <1>14, <1>17, <1>18, <1>21, <1>22, <1>23

(* A message that is alone in the stream, and read completely, has been
   delivered.                                                                *)
LEMMA ArrivesAsSent ==
    ASSUME FramingInv, NEW m \in Samples, stream = ToBytes(m), taken = Len(stream), window = 0
    PROVE  delivered = <<m>> /\ buf = <<>>
<1>1. FrameTypes /\ Held /\ ChunkIndependent /\ Untouched  BY DEF FramingInv
<1>2. PICK s \in Seq(Byte) : s = stream  BY <1>1 DEF FrameTypes
<1>3. m \in RawMessages  BY FramingAssumption
<1>4. PICK n \in 6 .. 14 : n = Len(s)  BY <1>2, <1>3, ToBytesIs
<1>5. PacketAt(s, 1) /\ LastOf(s, 1) = n /\ MessageAt(s, 1) = m /\ Size(s, 1) = Len(m.data) /\ taken = n
    BY <1>2, <1>3, <1>4, ToBytesIs
<1>6. PICK l \in Nat : l = Len(buf) /\ l <= n /\ buf \in Seq(Byte)  BY <1>1, <1>5 DEF FrameTypes
<1>7. l <= n  BY <1>6
<1>8. PICK u \in Nat : u = n - l  BY <1>7
<1>9. places \in Seq(Nat) /\ \A i \in DOMAIN places : places[i] > 0  BY <1>1 DEF FrameTypes
<1>10. /\ IsScan(s, places, u) /\ delivered = [i \in DOMAIN places |-> MessageAt(s, places[i])]
    BY <1>1, <1>2, <1>5, <1>6, <1>8 DEF ChunkIndependent
<1>11. u # 0
    <2> SUFFICES ASSUME u = 0 PROVE FALSE  OBVIOUS
    <2>1. l = n  BY <1>6, <1>8
    <2>2. taken = Len(buf)  BY <1>5, <1>6, <2>1
    <2>3. Len(buf) < MINIMUM_MESSAGE_SIZE \/ Parse(Upto(buf, MAXIMUM_MESSAGE_SIZE)).kind = "incomplete"
        BY <1>1, <2>2 DEF Untouched
    <2>4. Len(buf) = n /\ ~(n < 6)  BY <1>6, <2>1
    <2>5. Parse(Upto(buf, 14)).kind = "incomplete"
        BY <2>3, <2>4, Limits
    <2>6. PICK r : r = Upto(buf, 14)  OBVIOUS
    <2>7. IsPart(r, s, 0, n)
        <3>1. (IF 14 < n THEN 14 ELSE n) = n /\ 0 + 1 = 1  OBVIOUS
        <3>2. r = SubSeq(buf, 0 + 1, n)  BY <2>4, <2>6, <3>1 DEF Upto
        <3>3. n \in 0 .. Len(buf) /\ 0 \in 0 .. n  BY <2>4
        <3>4. IsPart(r, buf, 0, n)  BY <1>6, <3>2, <3>3, PartOf
        <3>5. IsPart(buf, s, 0, n)
            <4>1. taken - Len(buf) = 0  BY <1>5, <2>4
            <4>2. QED  BY <1>1, <1>2, <1>5, <4>1, HeldIsPart
        <3>6. n \in Nat /\ 0 \in 0 .. n /\ n \in 0 .. (n - 0) /\ 0 + 0 = 0 /\ 0 + n = n  OBVIOUS
        <3>7. IsPart(r, s, 0 + 0, 0 + n)  BY <1>2, <3>4, <3>5, <3>6, PartOfPart
        <3>8. QED  BY <3>6, <3>7
    <2>8. PICK p \in Nat \ {0} : p = 1 /\ p - 1 = 0 /\ p - 1 + n = n  OBVIOUS
    <2>9. r[1] = START_BYTE
        <3>1. 1 \in 1 .. (n - 0) /\ 0 + 1 = 1  OBVIOUS
        <3>2. r[1] = s[1]  BY <2>7, <3>1 DEF IsPart
        <3>3. QED  BY <1>5, <3>2 DEF PacketAt
    <2>10. IsPart(r, s, p - 1, p - 1 + n) /\ p - 1 + n <= Len(s)  BY <1>4, <2>7, <2>8
    <2>11. 6 + Size(s, p) > n  BY <1>2, <2>5, <2>6, <2>9, <2>10, ParseIs
    <2>12. LastOf(s, p) = p + 5 + Size(s, p) /\ Size(s, p) \in 0 .. 15  BY <1>2, <2>10, PlaceOf
    <2>13. PICK z \in 0 .. 15 : z = Size(s, p)  BY <2>12
    <2>14. n = 1 + 5 + z  BY <1>5, <2>8, <2>12, <2>13
    <2>15. QED  BY <2>11, <2>13, <2>14
<1>12. /\ \A i \in DOMAIN places : PacketAt(s, places[i]) /\ LastOf(s, places[i]) <= u
       /\ \A i, j \in DOMAIN places : i < j => LastOf(s, places[i]) < places[j]
       /\ \A p \in 1 .. u : PacketAt(s, p) => \E i \in DOMAIN places : p \in places[i] .. LastOf(s, places[i])
    BY <1>10 DEF IsScan
<1>13. PICK k \in Nat : k = Len(places) /\ DOMAIN places = 1 .. k  BY <1>9
<1>14. PICK i \in 1 .. k : 1 \in places[i] .. LastOf(s, places[i])
    <2>1. 1 \in 1 .. u  BY <1>11
    <2>2. QED  BY <1>5, <1>12, <1>13, <2>1
<1>15. \A j \in 1 .. k : places[j] \in Nat \ {0} /\ places[j] + 5 <= LastOf(s, places[j])
                         /\ LastOf(s, places[j]) \in Nat /\ LastOf(s, places[j]) <= n
    <2> SUFFICES ASSUME NEW j \in 1 .. k
                 PROVE  places[j] \in Nat \ {0} /\ places[j] + 5 <= LastOf(s, places[j])
                        /\ LastOf(s, places[j]) \in Nat /\ LastOf(s, places[j]) <= n
        OBVIOUS
    <2>1. j \in DOMAIN places /\ places[j] \in Nat  BY <1>9, <1>13
    <2>2. places[j] > 0  BY <1>9, <2>1
    <2>3. PICK p \in Nat \ {0} : p = places[j]  BY <2>1, <2>2
    <2>4. PacketAt(s, p)  BY <1>12, <2>1, <2>3
    <2>5. LastOf(s, p) \in Nat /\ p + 5 <= LastOf(s, p) /\ LastOf(s, p) <= n  BY <1>2, <1>4, <2>4, PacketIs
    <2>6. QED  BY <2>3, <2>5
<1>16. places[i] = 1  BY <1>14, <1>15
<1>17. i = 1
    <2>1. ASSUME 1 < i PROVE FALSE
        <3>1. 1 \in 1 .. k  BY <1>14
        <3>2. LastOf(s, places[1]) < 1  BY <1>12, <1>13, <1>16, <2>1, <3>1
        <3>3. PICK e \in Nat : e = LastOf(s, places[1])  BY <1>15, <3>1
        <3>4. PICK p \in Nat : p = places[1] /\ p + 5 <= e  BY <1>15, <3>1, <3>3
        <3>5. QED  BY <3>2, <3>3, <3>4
    <2>2. QED  BY <2>1
<1>18. k = 1
    <2>1. ASSUME 1 < k PROVE FALSE
        <3>1. 1 \in 1 .. k /\ k \in 1 .. k  BY <2>1
        <3>2. LastOf(s, places[1]) < places[k]  BY <1>12, <1>13, <2>1, <3>1
        <3>3. n < places[k]  BY <1>5, <1>16, <1>17, <3>2
        <3>4. PICK e \in Nat : e = LastOf(s, places[k]) /\ e <= n  BY <1>15, <3>1
        <3>5. PICK p \in Nat : p = places[k] /\ p + 5 <= e  BY <1>15, <3>1, <3>4
        <3>6. QED  BY <3>3, <3>4, <3>5
    <2>2. QED  BY <1>14, <2>1
<1>19. delivered = <<m>>
    <2>1. delivered = [j \in 1 .. 1 |-> MessageAt(s, places[j])]  BY <1>10, <1>13, <1>18
    <2>2. \A j \in 1 .. 1 : MessageAt(s, places[j]) = m
        <3>1. \A j \in 1 .. 1 : j = 1  OBVIOUS
        <3>2. QED  BY <1>5, <1>16, <1>17, <3>1
    <2>3. delivered = [j \in 1 .. 1 |-> m]  BY <2>1, <2>2
    <2>4. <<m>> = [j \in 1 .. 1 |-> m]  OBVIOUS
    <2>5. QED  BY <2>3, <2>4
<1>20. buf = <<>>
    <2>1. n <= u  BY <1>5, <1>12, <1>13, <1>14, <1>16
    <2>2. l = 0  BY <1>6, <1>8, <2>1
    <2>3. Len(buf) = 0 /\ buf \in Seq(Byte)  BY <1>6, <2>2
    <2>4. QED  BY <2>3, EmptySeq
<1>21. QED  BY <1>19, <1>20

(* Any message of a size a packet can have that to_bytes() puts alone on the bus
   arrives as it was sent, in however many reads: _parse() undoes to_bytes(). *)
THEOREM FramingRoundTrip == FSpec => []RoundTrip
<1>1. FramingInv => RoundTrip
    <2> SUFFICES ASSUME FramingInv, NEW m \in Samples, stream = ToBytes(m), taken = Len(stream), window = 0
                 PROVE  delivered = <<m>> /\ buf = <<>>
        BY DEF RoundTrip
    <2>1. QED  BY ArrivesAsSent
<1>2. QED  BY <1>1, FramingInductive, PTL

=============================================================================
