--------------------------- MODULE ProtocolWriter ---------------------------
(***************************************************************************)
(* The send side of VelbusProtocol (velbusaio/protocol.py): the transport  *)
(* the event loop hands to the protocol object, the send queue, the write  *)
(* lock and the writer tasks running _get_message_from_send_queue().       *)
(*                                                                         *)
(* asyncio runs one task at a time, so a step of a writer is the code from *)
(* one suspension to the next: the await of Lock.acquire, of Queue.get, of *)
(* the back-off timer inside _write_message, and of the sleep that paces   *)
(* the bus.  A queued message is its number in the order of acceptance;    *)
(* None is the element pause_writing() puts to stop the writer.            *)
(***************************************************************************)
EXTENDS Naturals, Sequences, FiniteSets

CONSTANTS
    Writers,      \* identities for writer tasks alive at the same time
    NoWriter,     \* the owner of a free lock
    Dead,         \* the owner of a lock whose task ended without a release
    MaxMsgs,      \* bound: messages handed to send_message()
    MaxConns,     \* bound: times a transport is attached
    MaxErrors,    \* bound: writes that raise OSError or RuntimeError
    FlowControl,  \* whether the transport's write buffer can fill up
    Oversized     \* whether a caller sends a body that fits in no packet

ASSUME WritersAssumption == /\ NoWriter \notin Writers
                            /\ Dead \notin Writers
                            /\ Dead # NoWriter
ASSUME BoundsAssumption == /\ MaxMsgs \in Nat
                           /\ MaxConns \in Nat
                           /\ MaxErrors \in Nat
                           /\ FlowControl \in BOOLEAN
                           /\ Oversized \in BOOLEAN

VARIABLES
    transport,      \* "none", "open", or "closing": is_closing(), loss still to be told
    full,           \* the transport has called pause_writing() for its own buffer
    restartWriter,  \* _restart_writer
    everStarted,    \* _writer_task is not None
    closing,        \* _closing
    lock,           \* owner of _write_transport_lock
    queue,          \* _send_queue
    unfinished,     \* _send_queue's count of elements without task_done()
    pc,             \* where each writer task is suspended
    msg,            \* msg_info of each writer task that is trying to write one
    accepted,       \* history: messages taken by send_message()
    wire,           \* history: messages given to transport.write()
    dropped,        \* history: messages whose packing or write raised
    conns           \* history: transports attached so far

linkVars == <<transport, full, closing, conns>>
vars == <<transport, full, restartWriter, everStarted, closing, lock, queue,
          unfinished, pc, msg, accepted, wire, dropped, conns>>

None == 0
Msgs == 1 .. MaxMsgs

(* A writer task is not there ("idle"), created and not yet run, waiting for
   the lock, waiting for the queue, backing off before the next attempt to
   write, about to evaluate the loop condition again ("loop": it sleeps after
   a write, or an exception was just caught), or has returned with its done
   callback still to run ("finished").                                      *)
PCs == {"idle", "created", "lock", "get", "write", "loop", "finished"}

InLoop == {"get", "write", "loop"}

Init == /\ transport = "none" /\ full = FALSE /\ closing = FALSE
        /\ restartWriter = FALSE /\ everStarted = FALSE
        /\ lock = NoWriter /\ queue = <<>> /\ unfinished = 0
        /\ pc = [w \in Writers |-> "idle"]
        /\ msg = [w \in Writers |-> None]
        /\ accepted = 0 /\ wire = <<>> /\ dropped = {} /\ conns = 0
-----------------------------------------------------------------------------
(* restart_writing(), called when _restart_writer has the value restart and
   the tasks are at p: a task is created only when the lock is free.  A slot
   of Writers is taken for it.                                              *)
RestartWriting(restart, p) ==
    IF restart /\ lock = NoWriter
    THEN /\ everStarted' = TRUE
         /\ \E w \in Writers : /\ p[w] = "idle"
                               /\ pc' = [p EXCEPT ![w] = "created"]
    ELSE /\ pc' = p
         /\ UNCHANGED everStarted

(* The effect of pause_writing() on a queue whose other contents are q: the
   writer is told to stop by a None at the end of the queue.                *)
PauseOn(q) == IF everStarted THEN Append(q, None) ELSE q
Paused(u)  == IF everStarted THEN u + 1 ELSE u

(* put_nowait(None) wakes a writer waiting in get() for the next pass of the
   event loop, and a created task runs in the next pass as well.  Attaching
   another transport takes create_connection() several passes, so it never
   overtakes a writer that the previous loss has woken.                     *)
WokenByLoss(w) == \/ pc[w] = "created"
                  \/ pc[w] = "get" /\ \E i \in DOMAIN queue : queue[i] = None

(* Mutant: the flag is set, but no writer task is started. *)
ConnectionMadeNoTask ==
    /\ transport = "none" /\ conns < MaxConns
    /\ \A w \in Writers : ~WokenByLoss(w)
    /\ transport' = "open" /\ full' = FALSE /\ conns' = conns + 1
    /\ restartWriter' = TRUE
    /\ UNCHANGED <<everStarted, pc, closing, lock, queue, unfinished, msg,
                   accepted, wire, dropped>>

ConnectionMade ==
    /\ transport = "none" /\ conns < MaxConns
    /\ \A w \in Writers : ~WokenByLoss(w)
    /\ transport' = "open" /\ full' = FALSE /\ conns' = conns + 1
    /\ restartWriter' = TRUE
    /\ RestartWriting(TRUE, pc)
    /\ UNCHANGED <<closing, lock, queue, unfinished, msg, accepted, wire, dropped>>

(* The transport fails or reads EOF: it is closing, and connection_lost() is
   scheduled.  A transport starts reading in the pass after connection_made(),
   when a task that was created, or a done callback, has had its turn.      *)
TransportFails ==
    /\ transport = "open"
    /\ \A w \in Writers : pc[w] \notin {"created", "finished"}
    /\ transport' = "closing"
    /\ UNCHANGED <<full, restartWriter, everStarted, closing, lock, queue,
                   unfinished, pc, msg, accepted, wire, dropped, conns>>

ConnectionLost ==
    /\ transport = "closing"
    /\ transport' = "none" /\ full' = FALSE
    /\ restartWriter' = FALSE
    /\ queue' = PauseOn(queue) /\ unfinished' = Paused(unfinished)
    /\ UNCHANGED <<everStarted, closing, lock, pc, msg, accepted, wire, dropped, conns>>

Close ==
    /\ ~closing
    /\ closing' = TRUE /\ restartWriter' = FALSE
    /\ transport' = IF transport = "open" THEN "closing" ELSE transport
    /\ UNCHANGED <<full, everStarted, lock, queue, unfinished, pc, msg,
                   accepted, wire, dropped, conns>>

(* The transport's buffer drains below its low-water mark and the transport
   calls resume_writing(), which the class inherits as a no-operation.      *)
TransportDrains ==
    /\ full /\ transport = "open"
    /\ full' = FALSE
    /\ UNCHANGED <<transport, restartWriter, everStarted, closing, lock, queue,
                   unfinished, pc, msg, accepted, wire, dropped, conns>>

SendMessage ==
    /\ accepted < MaxMsgs
    /\ accepted' = accepted + 1
    /\ queue' = Append(queue, accepted + 1)
    /\ unfinished' = unfinished + 1
    /\ UNCHANGED <<transport, full, restartWriter, everStarted, closing, lock,
                   pc, msg, wire, dropped, conns>>
-----------------------------------------------------------------------------
(* Writer w holds the lock and is at the next suspension point, at, with the
   message m in hand.                                                       *)
Suspend(w, at, m) == /\ lock' = w
                     /\ pc' = [pc EXCEPT ![w] = at]
                     /\ msg' = [msg EXCEPT ![w] = m]

(* The task returns and releases the lock. *)
Return(w) == /\ lock' = NoWriter
             /\ pc' = [pc EXCEPT ![w] = "finished"]
             /\ msg' = [msg EXCEPT ![w] = None]

(* transport.write(m) succeeded, and task_done() was called; a transport
   whose buffer passes its high-water mark calls pause_writing() within it. *)
Written(w, m, rest) ==
    /\ transport = "open"
    /\ wire' = Append(wire, m)
    /\ Suspend(w, "loop", None)
    /\ \/ /\ queue' = rest /\ unfinished' = unfinished - 1
          /\ UNCHANGED <<restartWriter, full>>
       \/ /\ FlowControl /\ ~full
          /\ full' = TRUE /\ restartWriter' = FALSE
          /\ queue' = PauseOn(rest) /\ unfinished' = Paused(unfinished) - 1
    /\ UNCHANGED dropped

(* Mutant: a message whose write raised goes back to the end of the queue. *)
WriteRaisesRequeue(w, m, rest) ==
    /\ transport = "open" /\ Cardinality(dropped) < MaxErrors
    /\ restartWriter' = TRUE
    /\ queue' = Append(rest, m)
    /\ Suspend(w, "loop", None)
    /\ UNCHANGED <<full, unfinished, wire, dropped>>

(* transport.write(m) raised: the loop goes on, without task_done(). *)
WriteRaises(w, m, rest) ==
    /\ transport = "open" /\ Cardinality(dropped) < MaxErrors
    /\ dropped' = dropped \cup {m}
    /\ restartWriter' = TRUE
    /\ queue' = rest
    /\ Suspend(w, "loop", None)
    /\ UNCHANGED <<full, unfinished, wire>>

(* msg.to_bytes() raised ValueError: the checksum refuses a body that is too
   long, a memo text outside ASCII say.  Nothing catches it, so the task ends
   as it is: the lock stays taken, _restart_writer is left alone, and there is
   no task_done().  A message is packed once at most, when it is tried with a
   transport to write to.                                                   *)
PackingRaises(w, m, rest) ==
    /\ transport = "open" /\ Oversized
    /\ dropped' = dropped \cup {m}
    /\ queue' = rest
    /\ lock' = Dead
    /\ pc' = [pc EXCEPT ![w] = "finished"]
    /\ msg' = [msg EXCEPT ![w] = None]
    /\ UNCHANGED <<full, restartWriter, unfinished, wire>>

(* Mutant: task_done() is called for a message that was not written. *)
BackOffDone(w, m, rest) ==
    /\ transport # "open"
    /\ queue' = rest /\ unfinished' = unfinished - 1
    /\ Suspend(w, "write", m)
    /\ UNCHANGED <<full, restartWriter, wire, dropped>>

(* Mutant: the loop goes on to the next message when the tries are used up. *)
BackOffGivesUp(w, m, rest) ==
    /\ transport # "open"
    /\ queue' = rest
    /\ Suspend(w, "loop", None)
    /\ UNCHANGED <<full, restartWriter, unfinished, wire, dropped>>

(* There is no transport to write to: _write_message() returned False, and
   the back-off decorator and the loop around it try again later.           *)
BackOff(w, m, rest) ==
    /\ transport # "open"
    /\ queue' = rest
    /\ Suspend(w, "write", m)
    /\ UNCHANGED <<full, restartWriter, unfinished, wire, dropped>>

(* One call of _write_message(m) by w, with rest left in the queue. *)
Attempt(w, m, rest) == \/ Written(w, m, rest)
                       \/ WriteRaises(w, m, rest)
                       \/ PackingRaises(w, m, rest)
                       \/ BackOff(w, m, rest)

(* get() returns the head of the queue: None ends the task, without
   task_done(); a message is written or tried.                              *)
TakeHead(w) ==
    /\ queue # <<>>
    /\ \/ /\ Head(queue) = None
          /\ restartWriter' = FALSE
          /\ queue' = Tail(queue)
          /\ Return(w)
          /\ UNCHANGED <<full, unfinished, wire, dropped>>
       \/ /\ Head(queue) # None
          /\ Attempt(w, Head(queue), Tail(queue))

(* while self._restart_writer: await self._send_queue.get() ... *)
LoopHead(w) ==
    \/ /\ ~restartWriter
       /\ Return(w)
       /\ UNCHANGED <<full, restartWriter, queue, unfinished, wire, dropped>>
    \/ /\ restartWriter /\ queue = <<>>
       /\ Suspend(w, "get", None)
       /\ UNCHANGED <<full, restartWriter, queue, unfinished, wire, dropped>>
    \/ /\ restartWriter
       /\ TakeHead(w)

WriterFrame == UNCHANGED <<transport, everStarted, closing, accepted, conns>>

(* Mutant: a task does not wait for the lock. *)
LockIgnored == TRUE

LockIsFree == lock = NoWriter /\ \A w \in Writers : pc[w] # "lock"

(* The first step of a new task: it takes a free lock or queues up for it. *)
StartWriter(w) ==
    /\ pc[w] = "created"
    /\ \/ LockIsFree /\ LoopHead(w)
       \/ /\ ~LockIsFree
          /\ pc' = [pc EXCEPT ![w] = "lock"]
          /\ UNCHANGED <<full, restartWriter, lock, queue, unfinished, msg, wire, dropped>>
    /\ WriterFrame

GetLock(w)  == pc[w] = "lock" /\ lock = NoWriter /\ LoopHead(w) /\ WriterFrame

GetItem(w)  == pc[w] = "get" /\ TakeHead(w) /\ WriterFrame

(* Mutant: a writer that backs off returns when it has been told to stop. *)
RetryUnlessStopped(w) ==
    /\ pc[w] = "write"
    /\ \/ Attempt(w, msg[w], queue) /\ \A i \in DOMAIN queue : queue[i] # None
       \/ /\ \E i \in DOMAIN queue : queue[i] = None
          /\ Return(w)
          /\ UNCHANGED <<full, restartWriter, queue, unfinished, wire, dropped>>
    /\ WriterFrame

Retry(w)    == pc[w] = "write" /\ Attempt(w, msg[w], queue) /\ WriterFrame

Continue(w) == pc[w] = "loop" /\ LoopHead(w) /\ WriterFrame

(* The done callback of a writer task is restart_writing(). *)
WriterDone(w) ==
    /\ pc[w] = "finished"
    /\ RestartWriting(restartWriter, [pc EXCEPT ![w] = "idle"])
    /\ UNCHANGED <<transport, full, restartWriter, closing, lock, queue,
                   unfinished, msg, accepted, wire, dropped, conns>>

WriterStep(w) == \/ StartWriter(w) \/ GetLock(w) \/ GetItem(w)
                 \/ Retry(w) \/ Continue(w) \/ WriterDone(w)

Next == \/ ConnectionMade \/ TransportFails \/ ConnectionLost \/ Close
        \/ TransportDrains \/ SendMessage
        \/ \E w \in Writers : WriterStep(w)

Spec == Init /\ [][Next]_vars

(* The event loop runs every task that is ready, timers of the back-off and
   of the pacing included, and calls connection_lost() once it is scheduled.
   Nothing makes the transport come, fail or drain, or a caller send.       *)
FairSpec == /\ Spec
            /\ WF_vars(ConnectionLost)
            /\ \A w \in Writers : WF_vars(WriterStep(w))
-----------------------------------------------------------------------------
InFlight == {msg[w] : w \in Writers} \ {None}
Queued   == {queue[i] : i \in DOMAIN queue} \ {None}
OnWire   == {wire[i] : i \in DOMAIN wire}

(* Every variable has a value of its kind. *)
TypeOK ==
    /\ transport \in {"none", "open", "closing"}
    /\ full \in BOOLEAN /\ restartWriter \in BOOLEAN
    /\ everStarted \in BOOLEAN /\ closing \in BOOLEAN
    /\ lock \in Writers \cup {NoWriter, Dead}
    /\ queue \in Seq(Nat)
    /\ unfinished \in Nat
    /\ pc \in [Writers -> PCs]
    /\ msg \in [Writers -> Nat]
    /\ accepted \in Nat
    /\ wire \in Seq(Nat)
    /\ dropped \subseteq Nat
    /\ conns \in Nat

(* A reconnect can leave several writer tasks alive, because restart_writing()
   looks at the lock and the task it creates takes it only later: whatever the
   order of losses, reconnects and done callbacks, only the task that owns the
   write lock is between the first get() and its return.                    *)
WriterMutex == \A w \in Writers : pc[w] \in InLoop <=> lock = w

(* Messages reach transport.write() in the order send_message() took them and
   none of them twice, across losses, back-off, failed writes and a change of
   writer task.                                                             *)
InOrder == \A i, j \in DOMAIN wire : i < j => wire[i] < wire[j]

(* An accepted message is never forgotten: it is on the wire, queued, in the
   hand of a writer that retries it, or its packing or its write raised.    *)
NothingForgotten == 1 .. accepted \subseteq OnWire \cup Queued \cup InFlight \cup dropped

(* wait_on_all_messages_sent_async() returns only when every accepted message
   is on the wire: the queue's count of unfinished elements does not reach 0
   while a message waits, is being retried, or was lost to an exception.    *)
JoinSound == unfinished = 0 => 1 .. accepted \subseteq OnWire

(* The transport takes bytes: it is attached, its buffer is below the mark at
   which it asked for a pause, and nobody has closed the connection.        *)
Serving == transport = "open" /\ ~full /\ ~closing

(* While the transport serves, a writer that nothing has told to stop (the flag
   _restart_writer is set and no None is queued) starves no message: not in
   back-off, after a failed write, or at a change of writer task.  The one way
   out is a body that fits in no packet: the task that packs it dies with the
   lock, and every message behind it waits for ever.                        *)
DeliveredUnlessStopped == \A m \in Msgs :
    (/\ accepted >= m /\ Serving
     /\ restartWriter /\ \A i \in DOMAIN queue : queue[i] # None)
        ~> (m \in OnWire \cup dropped \/ ~Serving \/ lock = Dead)

(* The message a writer had in hand when the transport was lost is written on
   the next transport, unless that one stops serving first: neither the None
   that announced the loss nor the end of the ten back-off tries drops it.
   The death of a task, which a body that fits in no packet causes, strands no
   message in hand: it is the one that was packed.                          *)
InFlightSurvives == \A m \in Msgs :
    (m \in InFlight /\ Serving) ~> (m \in OnWire \cup dropped \/ ~Serving)

(* The send side, with its sentinels, tasks and lock, is an Outbox. *)
Abstract == INSTANCE Outbox WITH pending <- Queued \cup InFlight
ImplementsOutbox == Abstract!OutSpec
=============================================================================
