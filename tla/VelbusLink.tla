----------------------------- MODULE VelbusLink -----------------------------
(***************************************************************************)
(* The connection life cycle of the controller (class Velbus in            *)
(* velbusaio/controller.py) composed with the protocol object of           *)
(* ProtocolWriter: the caller's connect(), the reconnect loops, the tasks  *)
(* that run _on_connection_state(), and stop().                            *)
(*                                                                         *)
(* A connector is whoever awaits connect(): the caller, or one of the      *)
(* reconnect loops.  The network decides when an attempt succeeds, which   *)
(* attaches a transport to the one protocol object, or fails.              *)
(***************************************************************************)
EXTENDS ProtocolWriter

CONSTANTS
    User,          \* the caller of connect()
    Loops,         \* identities for reconnect loops alive at the same time
    MaxRaises      \* bound: disconnect callbacks that raise

ASSUME LinkAssumption == User \notin Loops /\ MaxRaises \in Nat

Connectors == {User} \cup Loops

VARIABLES
    stopped,       \* _closing, and not _auto_reconnect: stop() sets both
    isConnected,   \* _is_connected
    notes,         \* _on_connection_state(up) tasks created and not yet started
    telling,       \* how many of them await connect / disconnect callbacks
    cpc,           \* where each connector is
    raises         \* history: disconnect callbacks that raised

ctlVars == <<stopped, isConnected, notes, telling, cpc, raises>>
allVars == <<vars, ctlVars>>

(* A connector is not there, about to evaluate the loop condition, awaiting
   create_connection(), or sleeping after a failed attempt.                 *)
CPCs == {"off", "check", "connecting", "sleeping"}

LinkInit == /\ Init
            /\ stopped = FALSE /\ isConnected = FALSE
            /\ notes = <<>> /\ telling = [up \in BOOLEAN |-> 0]
            /\ cpc = [c \in Connectors |-> "off"]
            /\ raises = 0
-----------------------------------------------------------------------------
(* The caller connects once, and again only when the attempt failed. *)
UserConnects ==
    /\ conns = 0 /\ ~stopped /\ cpc[User] = "off"
    /\ cpc' = [cpc EXCEPT ![User] = "connecting"]
    /\ UNCHANGED <<vars, stopped, isConnected, notes, telling, raises>>

(* Mutant: the loop does not look at what stop() set. *)
LoopForever(c) ==
    /\ cpc[c] = "check"
    /\ cpc' = [cpc EXCEPT ![c] = "connecting"]
    /\ UNCHANGED <<vars, stopped, isConnected, notes, telling, raises>>

(* while self._auto_reconnect and not self._closing: await self.connect() *)
LoopCondition(c) ==
    /\ cpc[c] = "check"
    /\ cpc' = [cpc EXCEPT ![c] = IF stopped THEN "off" ELSE "connecting"]
    /\ UNCHANGED <<vars, stopped, isConnected, notes, telling, raises>>

(* The attempt succeeds: connection_made() attaches the transport, and
   connect() and the loop around it return.                                 *)
Connected(c) ==
    /\ cpc[c] = "connecting"
    /\ ConnectionMade
    /\ notes' = Append(notes, TRUE)
    /\ cpc' = [cpc EXCEPT ![c] = "off"]
    /\ UNCHANGED <<stopped, isConnected, telling, raises>>

(* Mutant: a failed attempt ends the loop. *)
ConnectFailsOnce(c) ==
    /\ cpc[c] = "connecting"
    /\ cpc' = [cpc EXCEPT ![c] = "off"]
    /\ UNCHANGED <<vars, stopped, isConnected, notes, telling, raises>>

(* VelbusConnectionFailed: the caller is told, a loop sleeps and retries. *)
ConnectFails(c) ==
    /\ cpc[c] = "connecting"
    /\ cpc' = [cpc EXCEPT ![c] = IF c = User THEN "off" ELSE "sleeping"]
    /\ UNCHANGED <<vars, stopped, isConnected, notes, telling, raises>>

RetryDelayOver(c) ==
    /\ cpc[c] = "sleeping"
    /\ cpc' = [cpc EXCEPT ![c] = "check"]
    /\ UNCHANGED <<vars, stopped, isConnected, notes, telling, raises>>

(* connection_lost() tells the controller unless the loss was asked for. *)
Lost == /\ ConnectionLost
        /\ notes' = IF closing THEN notes ELSE Append(notes, FALSE)
        /\ UNCHANGED <<stopped, isConnected, telling, cpc, raises>>

Stop == /\ stopped' = TRUE
        /\ Close
        /\ UNCHANGED <<isConnected, notes, telling, cpc, raises>>

(* Mutant: the newest change is told first. *)
NewestFirst ==
    /\ notes # <<>>
    /\ notes' = SubSeq(notes, 1, Len(notes) - 1)
    /\ isConnected' = notes[Len(notes)]
    /\ telling' = [telling EXCEPT ![notes[Len(notes)]] = @ + 1]
    /\ UNCHANGED <<vars, stopped, cpc, raises>>

(* Mutant: the reconnect loop is started before the disconnect callbacks. *)
LoopBeforeCallbacks ==
    /\ notes # <<>>
    /\ notes' = Tail(notes)
    /\ isConnected' = Head(notes)
    /\ telling' = [telling EXCEPT ![Head(notes)] = @ + 1]
    /\ IF ~Head(notes) /\ ~stopped
       THEN \E c \in Loops : cpc[c] = "off" /\ cpc' = [cpc EXCEPT ![c] = "check"]
       ELSE UNCHANGED cpc
    /\ UNCHANGED <<vars, stopped, raises>>

(* _on_connection_state(up) starts: it sets the flag and calls the callbacks.
   Tasks start in the order of their creation.                              *)
StateTaskStarts ==
    /\ notes # <<>>
    /\ notes' = Tail(notes)
    /\ isConnected' = Head(notes)
    /\ telling' = [telling EXCEPT ![Head(notes)] = @ + 1]
    /\ UNCHANGED <<vars, stopped, cpc, raises>>

(* Mutant: a loop is started after every change, the good ones included. *)
LoopAfterAnyChange(up) ==
    /\ telling[up] > 0
    /\ telling' = [telling EXCEPT ![up] = @ - 1]
    /\ IF ~stopped
       THEN \E c \in Loops : cpc[c] = "off" /\ cpc' = [cpc EXCEPT ![c] = "check"]
       ELSE UNCHANGED cpc
    /\ UNCHANGED <<vars, stopped, isConnected, notes, raises>>

(* The callbacks of such a task are done.  After the disconnect callbacks a
   reconnect loop is started, unless stop() was called meanwhile.           *)
CallbacksDone(up) ==
    /\ telling[up] > 0
    /\ telling' = [telling EXCEPT ![up] = @ - 1]
    /\ IF ~up /\ ~stopped
       THEN \E c \in Loops : cpc[c] = "off" /\ cpc' = [cpc EXCEPT ![c] = "check"]
       ELSE UNCHANGED cpc
    /\ UNCHANGED <<vars, stopped, isConnected, notes, raises>>

(* A disconnect callback raises: the task ends with it. *)
CallbackRaises ==
    /\ telling[FALSE] > 0 /\ raises < MaxRaises
    /\ telling' = [telling EXCEPT ![FALSE] = @ - 1]
    /\ raises' = raises + 1
    /\ UNCHANGED <<vars, stopped, isConnected, notes, cpc>>

(* The steps of the protocol object the controller takes no part in. *)
ProtocolStep == /\ \/ TransportFails \/ TransportDrains \/ SendMessage
                   \/ \E w \in Writers : WriterStep(w)
                /\ UNCHANGED ctlVars

LinkNext == \/ UserConnects \/ Lost \/ Stop
            \/ \E c \in Connectors : Connected(c) \/ ConnectFails(c)
            \/ \E c \in Loops : LoopCondition(c) \/ RetryDelayOver(c)
            \/ StateTaskStarts \/ CallbackRaises
            \/ \E up \in BOOLEAN : CallbacksDone(up)
            \/ ProtocolStep

LinkSpec == LinkInit /\ [][LinkNext]_allVars

(* The event loop runs what is ready, callbacks return or raise, delays end, an
   attempt to connect ends, and the gateway comes back: an attempt made again
   and again succeeds.                                                      *)
LinkFairSpec ==
    /\ LinkSpec
    /\ WF_allVars(Lost) /\ WF_allVars(StateTaskStarts)
    /\ \A up \in BOOLEAN : WF_allVars(CallbacksDone(up))
    /\ \A c \in Connectors : /\ SF_allVars(Connected(c))
                             /\ WF_allVars(Connected(c) \/ ConnectFails(c))
    /\ \A c \in Loops : WF_allVars(LoopCondition(c)) /\ WF_allVars(RetryDelayOver(c))
    /\ \A w \in Writers : WF_allVars(WriterStep(w) /\ UNCHANGED ctlVars)
-----------------------------------------------------------------------------
Active == {c \in Connectors : cpc[c] # "off"}

(* The protocol object has one transport attribute, and connection_made()
   overwrites it: at most one connector is ever under way, and only while no
   transport is attached, whatever the overlap of losses, callbacks and loops. *)
SingleTransport == /\ \A c, d \in Active : c = d
                   /\ Active # {} => transport = "none"

(* While disconnect callbacks run nothing reconnects: an application that
   tears down its state in them never sees the next connection before it is
   done.                                                                    *)
DisconnectFirst == telling[FALSE] > 0 => transport = "none" /\ Active = {}

(* The application is told every change once and in order: _is_connected
   followed by the changes not yet delivered alternates, and ends with what
   the protocol object has, until stop() is called.                         *)
ChangesAlternate ==
    ~stopped => LET told == <<isConnected>> \o notes
                IN  /\ \A i \in 1 .. Len(notes) : told[i] # told[i + 1]
                    /\ told[Len(told)] <=> transport # "none"

(* A lost connection comes back: unless stop() is called or a disconnect
   callback raises, the controller is connected again (or the bound on
   connections is reached).                                                 *)
Reconnects == (transport = "none" /\ conns > 0)
                  ~> (transport = "open" \/ stopped \/ raises > 0 \/ conns = MaxConns)

(* After stop() every reconnect loop ends. *)
LoopsEnd == stopped ~> \A c \in Loops : cpc[c] = "off"

=============================================================================
