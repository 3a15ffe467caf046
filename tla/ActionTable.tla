----------------------------- MODULE ActionTable -----------------------------
(***************************************************************************)
(* ActionTable and _SharedSlotStore of velbusaio/actions.py over the       *)
(* MemoryBackend: a list of action slots read from the EEPROM once, and    *)
(* operations that look for a slot in that list and program it.  A table   *)
(* of the layout "per_channel" is the instance with one channel.           *)
(*                                                                         *)
(* A task goes on at once when the memory call it awaits returns: while    *)
(* one is Running no other task, and nothing else, takes a step.           *)
(***************************************************************************)
EXTENDS MemoryBackend, FiniteSets

CONSTANTS
    NSlots,        \* slot_count
    Shared,        \* whether the layout is "shared"
    Channels,      \* output channels that share the table
    Sources,       \* source addresses of the actions programmed
    TableOps,      \* the operations called: see TableOp
    MaxOps,        \* bound: operations called
    MaxTimeouts,   \* bound: timers that expire
    ReloadAlone    \* whether callers keep load(force=True) apart from other operations

EMPTY == 255
SlotSize == 3     \* source, action and subject: the bytes the code compares
Slots == 0 .. NSlots - 1
NoSlot == NSlots  \* slot=None
TableLen == NSlots * SlotSize

(* set_action, clear_action, clear_actions_for_source, load, load(force=True).
   The action programmed is told apart by its source.                       *)
TableOp == [op : {"set", "clear", "clearSource", "load", "reload"},
            channel : Channels, source : Sources, slot : Slots \cup {NoSlot}]

Blank == [source |-> EMPTY, action |-> EMPTY, subject |-> EMPTY]
EmptySlot(e) == e.source \in {0, EMPTY}

(* ActionSlot.to_bytes and from_bytes *)
ToBytes(e) == IF EmptySlot(e) THEN <<EMPTY, EMPTY, EMPTY>>
              ELSE <<e.source, e.action, e.subject>>
FromBytes(d) == [source |-> d[1], action |-> d[2], subject |-> d[3]]

(* What is written, and the calls of the memory backend that a table makes. *)
Entries == {Blank} \cup {[source |-> x, action |-> x, subject |-> c] : x \in Sources, c \in Channels}

WriteJob(s, e) == [op |-> "write", start |-> s * SlotSize, len |-> SlotSize,
                   data |-> ToBytes(e), useCache |-> FALSE]
ReadJob(cached) == [op |-> "read", start |-> 0, len |-> TableLen, data |-> <<>>, useCache |-> cached]
TableJobs == {ReadJob(cached) : cached \in BOOLEAN} \cup {WriteJob(s, e) : s \in Slots, e \in Entries}

ASSUME TableAssumption ==
    /\ NSlots \in Nat \ {0} /\ TableLen <= MaxAddr + 1
    /\ Channels \subseteq Values \ {0, EMPTY} /\ Sources \subseteq Values \ {0, EMPTY}
    /\ Shared \in BOOLEAN /\ (~Shared => Cardinality(Channels) = 1)
    /\ EMPTY \in Values /\ TableOps \subseteq TableOp
    /\ \A o \in TableOps : o.op = "clear" => o.slot \in Slots
    /\ TableJobs \subseteq Jobs
    /\ MaxOps \in Nat /\ MaxTimeouts \in Nat /\ ReloadAlone \in BOOLEAN

VARIABLES
    slots,       \* the list of slots: <<>> is None, <<f>> is f on Slots
    at,          \* what each task awaits
    todo,        \* its operation
    entry,       \* the slot it is writing and what it writes there
    next,        \* slots clear_actions_for_source has still to clear
    programmed,  \* history: what operations that returned have left in each slot
    doubtful,    \* history: slots whose last write ended in an exception, and slots
                 \* about which something was under way when the table was reloaded
    alone,       \* history: no other operation was under way during a task's operation
    apart,       \* history: no two operations have been under way at once
    ops,         \* history: operations called
    timeouts     \* history: timers that expired

tableVars == <<slots, at, todo, entry, next, programmed, doubtful,
               alone, apart, ops, timeouts>>
avars == <<mvars, tableVars>>

(* The slots of a table of bytes raw. *)
Decoded(raw) == [s \in Slots |-> FromBytes(SubSeq(raw, s * SlotSize + 1, s * SlotSize + SlotSize))]

(* get_slots for a channel: in a shared table those that match it. *)
Programmed(f, c) == {s \in Slots : ~EmptySlot(f[s]) /\ (Shared => f[s].subject = c)}

First(S) == CHOOSE s \in S : \A t \in S : s <= t

AInit ==
    /\ MInit
    /\ slots = <<>> /\ ops = 0 /\ timeouts = 0
    /\ at = [p \in Callers |-> "none"] /\ next = [p \in Callers |-> {}]
    /\ todo = [p \in Callers |-> CHOOSE o \in TableOps : TRUE]
    /\ entry = [p \in Callers |-> [slot |-> NoSlot, is |-> Blank]]
    /\ programmed = Decoded(Slice(eeprom, 0, TableLen)) /\ doubtful = {}
    /\ alone = [p \in Callers |-> FALSE] /\ apart = TRUE
-----------------------------------------------------------------------------
Resumed(p) == at[p] = "begin" \/ (at[p] \in {"read", "write"} /\ pc[p] = "idle")
Running    == {p \in Callers : Resumed(p)}
Busy       == {p \in Callers : at[p] # "none"}

(* A write of slot s has not reached the module yet, or a reply that tells less
   than the module holds of it has not reached the backend.                 *)
OnItsWay(s) == \E i \in DOMAIN toModule :
    /\ toModule[i].op = "write"
    /\ Covers(toModule[i].addr, toModule[i].size) \cap Covers(s * SlotSize, SlotSize) # {}

OldNews(s) == \E i \in DOMAIN toBackend :
    LET m == toBackend[i]
    IN  \E a \in Covers(s * SlotSize, SlotSize) \cap Covers(m.addr, Len(m.data)) :
            m.data[a - m.addr + 1] # eeprom[a]

(* An operation is called; load(force=True) starts by forgetting the table. *)
Begin(p, o) ==
    /\ at[p] = "none" /\ ops < MaxOps
    /\ ReloadAlone => \A q \in Busy : "reload" \notin {o.op, todo[q].op}
    /\ ops' = ops + 1
    /\ at' = [at EXCEPT ![p] = "begin"]
    /\ todo' = [todo EXCEPT ![p] = o]
    /\ IF o.op = "reload"
       THEN /\ slots' = <<>> /\ Invalidate(Covers(0, TableLen))
            /\ doubtful' = doubtful \cup {s \in Slots : OnItsWay(s) \/ OldNews(s)}
       ELSE UNCHANGED <<slots, doubtful, mvars>>
    /\ alone' = [q \in Callers |-> IF q = p THEN Busy = {} ELSE FALSE]
    /\ apart' = (apart /\ Busy = {})
    /\ UNCHANGED <<entry, next, programmed, timeouts>>

(* The operation returns, or an exception leaves it. *)
Leave(p) == at' = [at EXCEPT ![p] = "none"] /\ UNCHANGED <<mvars, entry>>

(* _write_slot(e) up to its wait. *)
Write(p, s, e) ==
    /\ Call(p, WriteJob(s, e))
    /\ at' = [at EXCEPT ![p] = "write"]
    /\ entry' = [entry EXCEPT ![p] = [slot |-> s, is |-> e]]

(* Mutant: the slot the source already has is not looked for. *)
ChoicesFreeOnly(o, f) ==
    LET free == {s \in Slots : EmptySlot(f[s])}
    IN  IF o.slot # NoSlot THEN {o.slot} ELSE IF free # {} THEN {First(free)} ELSE {}

(* Mutant: a slot is free when it is not among the channel's own. *)
ChoicesOwnView(o, f) ==
    LET same == {s \in Programmed(f, o.channel) : f[s].source = o.source}
        free == Slots \ Programmed(f, o.channel)
    IN  IF o.slot # NoSlot THEN {o.slot}
        ELSE IF same # {} THEN {First(same)}
        ELSE IF free # {} THEN {First(free)} ELSE {}

(* set_action picks its slot in the list f: the one that already has the
   source, else the first free one, else the table is full.                 *)
Choices(o, f) ==
    LET same == {s \in Programmed(f, o.channel) : f[s].source = o.source}
        free == {s \in Slots : EmptySlot(f[s])}
    IN  IF o.slot # NoSlot THEN {o.slot}
        ELSE IF same # {} THEN {First(same)}
        ELSE IF free # {} THEN {First(free)} ELSE {}

(* The operation o of p goes on with the list f at hand: a table of a module with
   a contact byte would read that byte first, and has one more await here.  *)
Loaded(p, o, f) ==
    CASE o.op \in {"load", "reload"} -> Leave(p) /\ UNCHANGED next
      [] o.op = "set" ->
             IF Choices(o, f) = {} THEN Leave(p) /\ UNCHANGED next
             ELSE /\ \E s \in Choices(o, f) :
                         Write(p, s, [source |-> o.source, action |-> o.source, subject |-> o.channel])
                  /\ UNCHANGED next
      [] o.op = "clear" -> Write(p, o.slot, Blank) /\ UNCHANGED next
      [] o.op = "clearSource" ->
             LET all == {s \in Programmed(f, o.channel) : f[s].source = o.source}
             IN  IF all = {} THEN Leave(p) /\ UNCHANGED next
                 ELSE /\ Write(p, First(all), Blank)
                      /\ next' = [next EXCEPT ![p] = all \ {First(all)}]

(* load(): the list is there, or it is read from the memory. *)
Load(p) ==
    /\ at[p] = "begin"
    /\ IF slots # <<>>
       THEN Loaded(p, todo[p], slots[1])
       ELSE /\ Call(p, ReadJob(todo[p].op # "reload"))
            /\ at' = [at EXCEPT ![p] = "read"]
            /\ UNCHANGED <<entry, next>>
    /\ UNCHANGED <<slots, todo, programmed, doubtful, alone, apart, ops, timeouts>>

(* read_bytes() has returned the table, in full or with bytes missing: then
   from_bytes() raises VelbusConfigError.                                   *)
ReadDone(p) ==
    /\ at[p] = "read" /\ pc[p] = "idle" /\ outcome[p] = "ok"
    /\ IF Len(out[p]) < TableLen
       THEN Leave(p) /\ UNCHANGED <<slots, next>>
       ELSE /\ slots' = <<Decoded(out[p])>>
            /\ Loaded(p, todo[p], Decoded(out[p]))
    /\ UNCHANGED <<todo, programmed, doubtful, alone, apart, ops, timeouts>>

(* Mutant: the list is not told of what was written. *)
WriteDoneForgets(p) ==
    /\ at[p] = "write" /\ pc[p] = "idle" /\ outcome[p] = "ok"
    /\ programmed' = [programmed EXCEPT ![entry[p].slot] = entry[p].is]
    /\ next' = [next EXCEPT ![p] = {}] /\ Leave(p)
    /\ doubtful' = doubtful \ {entry[p].slot}
    /\ UNCHANGED <<slots, todo, alone, apart, ops, timeouts>>

(* write_bytes() has returned: the entry goes into the list, into one of empty
   slots when the list was dropped meanwhile; clear_actions_for_source goes on
   to its next slot.                                                        *)
WriteDone(p) ==
    /\ at[p] = "write" /\ pc[p] = "idle" /\ outcome[p] = "ok"
    /\ slots' = <<[(IF slots = <<>> THEN [s \in Slots |-> Blank] ELSE slots[1])
                       EXCEPT ![entry[p].slot] = entry[p].is]>>
    /\ programmed' = [programmed EXCEPT ![entry[p].slot] = entry[p].is]
    /\ IF next[p] = {}
       THEN Leave(p) /\ UNCHANGED next
       ELSE /\ Write(p, First(next[p]), Blank)
            /\ next' = [next EXCEPT ![p] = @ \ {First(@)}]
    /\ doubtful' = doubtful \ {entry[p].slot}
    /\ UNCHANGED <<todo, alone, apart, ops, timeouts>>

(* VelbusMemoryTimeout leaves the operation. *)
Failed(p) ==
    /\ at[p] \in {"read", "write"} /\ pc[p] = "idle" /\ outcome[p] = "timeout"
    /\ Leave(p) /\ next' = [next EXCEPT ![p] = {}]
    /\ doubtful' = doubtful \cup (IF at[p] = "write" THEN {entry[p].slot} ELSE {})
    /\ UNCHANGED <<slots, todo, programmed, alone, apart, ops, timeouts>>

Continue(p) == Load(p) \/ ReadDone(p) \/ WriteDone(p) \/ Failed(p)

Memory ==
    \/ (\E p \in Callers : Enter(p) \/ Wake(p) \/ GapOver(p)) /\ UNCHANGED tableVars
    \/ /\ timeouts < MaxTimeouts /\ timeouts' = timeouts + 1
       /\ \E p \in Callers : Timeout(p)
       /\ UNCHANGED <<slots, at, todo, entry, next, programmed, doubtful, alone, apart, ops>>
    \/ (Feed \/ ModuleAnswers \/ LoseRequest \/ LoseReply) /\ UNCHANGED tableVars

ANext == IF Running # {} THEN \E p \in Running : Continue(p)
         ELSE Memory \/ \E p \in Callers, o \in TableOps : Begin(p, o)

ASpec == AInit /\ [][ANext]_avars
-----------------------------------------------------------------------------
InEeprom == Decoded(Slice(eeprom, 0, TableLen))
Writing  == {entry[p].slot : p \in {q \in Callers : at[q] = "write"}}

(* What a channel's table shows is what the module holds: the list agrees with
   the EEPROM for every slot that nobody is writing and that is not doubtful,
   unless a write of it is still on its way (its acknowledgement having been
   mistaken for an earlier one).                                            *)
TableFollows ==
    slots # <<>> => \A s \in Slots \ (Writing \cup doubtful) :
                        slots[1][s] = InEeprom[s] \/ OnItsWay(s)

(* A source has at most one action on a channel, also when a set_action that
   timed out is tried again: as long as operations do not overlap, settled
   slots, of which no write is on its way either, never repeat a source.    *)
SourcesOnce ==
    apart => \A s, t \in {u \in Slots \ (Writing \cup doubtful) : ~OnItsWay(u)} :
        (s # t /\ ~EmptySlot(InEeprom[s]) /\ InEeprom[s].source = InEeprom[t].source)
            => Shared /\ InEeprom[s].subject # InEeprom[t].subject

SetReturns(p) == /\ at[p] = "write" /\ pc[p] = "idle" /\ outcome[p] = "ok"
                 /\ at'[p] = "none" /\ todo[p].op = "set" /\ todo[p].slot = NoSlot

PickWasFree(p) ==
    LET was == programmed[entry[p].slot]
        is  == entry[p].is
    IN  EmptySlot(was) \/ entry[p].slot \in doubtful
        \/ (was.source = is.source /\ (Shared => was.subject = is.subject))

(* "Program a slot (auto-picks a free slot when slot is None)": a set_action
   during which no other operation was called has, when it returns, not
   replaced the action of another source, or of another channel, that an
   operation had programmed.                                                *)
PickedFreeAlone == [][\A p \in Callers : SetReturns(p) /\ alone[p] => PickWasFree(p)]_avars
=============================================================================
