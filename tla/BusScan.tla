------------------------------- MODULE BusScan -------------------------------
(***************************************************************************)
(* The scan of the bus (PacketHandler of velbusaio/handler.py) over all    *)
(* addresses, with the controller's modules and their sub-addresses        *)
(* (velbusaio/controller.py, velbusaio/module.py): two scans may be asked  *)
(* for at the same time, frames come at any moment, and the program may    *)
(* take its modules from a VLP file instead.                               *)
(*                                                                         *)
(* What load() and the cache file do within one module is ModuleLoad's;    *)
(* here a load is one step and the names of a module's channels one frame. *)
(* A module has one channel for each block of eight it may have, and       *)
(* perhaps a temperature.                                                  *)
(***************************************************************************)
EXTENDS Integers, Sequences, SequencesExt, FiniteSets

CONSTANTS
    MaxAddress,    \* addresses are 1 .. MaxAddress
    Site,          \* external: for each module on the bus its sub-addresses, by number
    Spec,          \* the channels the module specification of each names
    Has,           \* external: the channels each really has
    Sources,       \* where start() takes the modules from: "bus", "vlp"
    Initial,       \* get_initial_timeout(), in polls
    Interval,      \* SCAN_MODULEINFO_TIMEOUT_INTERVAL, in polls
    MaxDelay,      \* bound: of _scan_delay_msec, in polls
    MaxLost        \* bound: frames lost

Addresses == 1 .. MaxAddress
Mains     == DOMAIN Site
Scans     == {"start", "service"}
NoSub     == 255
None      == [main |-> 0, offset |-> 0]

(* The sub-addresses module m really has. *)
Subs(m) == {k \in DOMAIN Site[m] : Site[m][k] # NoSub}

(* An address on the bus is one module's, its own or one of its sub-addresses.
   Of the channels its specification names a module may lack some in a block of
   eight for which it has no sub-address.                                   *)
ASSUME ScanAssumption ==
    /\ MaxAddress \in 1 .. 254 /\ Mains \subseteq Addresses
    /\ DOMAIN Spec = Mains /\ DOMAIN Has = Mains
    /\ \A m \in Mains : /\ DOMAIN Site[m] \subseteq 1 .. 12
                        /\ \A k \in Subs(m) : Site[m][k] \in (1 .. 254) \ Mains
                        /\ \A c \in Spec[m] : c.block \in Nat /\ c.temperature \in BOOLEAN
                        /\ Has[m] \subseteq Spec[m]
                        /\ \A c \in Spec[m] \ Has[m] : /\ DOMAIN Site[m] # {} /\ ~c.temperature
                                                       /\ c.block \in (1 .. 3) \ Subs(m)
    /\ \A m, n \in Mains : \A k \in Subs(m), j \in Subs(n) :
           Site[m][k] = Site[n][j] => m = n /\ k = j
    /\ Sources \subseteq {"bus", "vlp"} /\ Initial \in Nat /\ Interval \in Nat
    /\ MaxDelay \in Nat /\ MaxLost \in Nat

VARIABLES
    source,        \* what start() does
    pc, at,        \* where each scan is, and at which address
    fullLock,      \* _fullScanLock: its holder, then those who wait
    found,         \* the keys of __scan_found_addresses that have a message
    scanning,      \* __scan_found_addresses is not None
    complete,      \* _scan_complete
    delay,         \* _scan_delay_msec
    mods,          \* _modules, by address
    file,          \* the cache files, by address: <<>> or what one says
    bus,           \* frames on their way to the program
    due,           \* history: the addresses found when a scan began to load
    cached,        \* history: modules that took their channels from a file
    lost,          \* history: frames lost
    clogged,       \* external: the send queue's join() returns no more
    late           \* history: a subtype message came after the time a scan gives it

scan  == <<pc, at, fullLock, found, scanning, complete, delay, due>>
svars == <<scan, mods, file, bus, cached, source, lost, clogged, late>>
world == <<source, lost, clogged, late>>

Channel(b, temp) == [block |-> b, temperature |-> temp]

(* Dictionary d with the entries of e put into it. *)
Updated(d, e) == [k \in DOMAIN d \cup DOMAIN e |-> IF k \in DOMAIN e THEN e[k] ELSE d[k]]

(* A sub-address as the VLP file gives it: its hexadecimal digits, which are
   equal to no address.                                                     *)
Digits(x) == -x

(* subs: _sub_address, a dictionary from numbers to addresses. *)
NewModule == [subs |-> <<>>, chans |-> {}, named |-> {}, loading |-> FALSE, loaded |-> FALSE,
              useCache |-> TRUE]

(* The channels module m has in a block of which it has no sub-address: the last
   sub-address of a VMBGP4 has the channels 17 and 18 of its thermostat, which
   are in the third block.  cleanupSubChannels() deletes them, as the TODO in it
   says.                                                                    *)
Misplaced(m) == {c \in Has[m] : DOMAIN Site[m] # {} /\ ~c.temperature /\ c.block \in (1 .. 3) \ Subs(m)}

TypeFrame(m) == [kind |-> "type", from |-> m]
SubFrame(m, o) == [kind |-> "sub", from |-> m, offset |-> o,
    subs |-> [k \in 1 .. 4 |-> IF o + k \in Subs(m) THEN Site[m][o + k] ELSE NoSub]]
NameFrame(m) == [kind |-> "name", from |-> m]

(* The answer to a ModuleTypeRequest. *)
TypeAnswer(m) == <<TypeFrame(m)>> \o
    (IF DOMAIN Site[m] = {} THEN <<>> ELSE IF \E k \in DOMAIN Site[m] : k > 4
     THEN <<SubFrame(m, 0), SubFrame(m, 4)>> ELSE <<SubFrame(m, 0)>>)

(* The file an earlier run left, after a scan that was complete. *)
Left(m) == [subs |-> [k \in Subs(m) |-> Site[m][k]], chans |-> Has[m] \ Misplaced(m)]

SInit ==
    /\ source \in Sources
    /\ pc = [s \in Scans |-> "off"] /\ at = [s \in Scans |-> 0] /\ fullLock = <<>>
    /\ found = {} /\ scanning = FALSE /\ complete = FALSE /\ delay = 0
    /\ mods = <<>> /\ file \in [Mains -> {<<>>}] \cup {[m \in Mains |-> <<Left(m)>>]}
    /\ bus = <<>> /\ due = {} /\ cached = {} /\ lost = 0 /\ clogged = FALSE /\ late = FALSE
-----------------------------------------------------------------------------
(* get_module(): by its own address, else by one of its sub-addresses. *)
GetModule(x) ==
    IF x \in DOMAIN mods THEN {x}
    ELSE {m \in DOMAIN mods : \E k \in DOMAIN mods[m].subs : mods[m].subs[k] = x}

(* calc_channel_offset(): the key that has the address. *)
ChannelOffset(m, x) ==
    LET hits == {k \in DOMAIN mods[m].subs : mods[m].subs[k] = x}
    IN  IF x = m \/ hits = {} THEN 0 ELSE CHOOSE k \in hits : TRUE

(* Where a frame from address x goes: the module, the offset in blocks. *)
Route(x) == LET m == GetModule(x)
            IN  IF m = {} THEN None
                ELSE LET o == CHOOSE n \in m : TRUE IN [main |-> o, offset |-> ChannelOffset(o, x)]

IsLoaded(r) == r.loaded \/ (~r.loading /\ r.chans \subseteq r.named)

(* is_channel_active() *)
Active(r, b) == b = 0 \/ b \in DOMAIN r.subs

(* Mutant: the third block is never cleaned up. *)
CleanedUpTwo(r) == [r EXCEPT !.chans =
    {c \in @ : c.temperature \/ c.block \notin (1 .. 2) \ DOMAIN r.subs}]

(* cleanupSubChannels() *)
CleanedUp(r) == [r EXCEPT !.chans =
    {c \in @ : c.temperature \/ c.block \notin (1 .. 3) \ DOMAIN r.subs}]

(* Mutant: every subtype message counts from one. *)
AddSubmodulesFromOne(r, o, subs) ==
    CleanedUp([r EXCEPT !.subs = Updated(@, [k \in {j \in 1 .. 4 : subs[j] # NoSub} |-> subs[k]])])

(* add_submodules(), for the four of one message. *)
AddSubmodules(r, o, subs) ==
    LET told == {k \in o + 1 .. o + 4 : subs[k - o] # NoSub}
    IN  CleanedUp([r EXCEPT !.subs = Updated(@, [k \in told |-> subs[k - o]])])

Snapshot(r) == <<[subs |-> r.subs, chans |-> r.chans]>>
Cached(f, m, r) == IF r.useCache /\ m \in DOMAIN f THEN [f EXCEPT ![m] = Snapshot(r)] ELSE f
-----------------------------------------------------------------------------
(* start() with a VLP file: the modules are made from it, the sub-addresses
   numbered from 0, all channels of the file are there and have their names. *)
StartVlp ==
    /\ source = "vlp" /\ pc["start"] = "off"
    /\ mods' = [m \in Mains |->
         LET rank(k) == Cardinality({j \in Subs(m) : j < k})
         IN  [NewModule EXCEPT !.subs = [i \in {rank(k) : k \in Subs(m)} |->
                                            Digits(Site[m][CHOOSE k \in Subs(m) : rank(k) = i])],
                               !.chans = Spec[m], !.named = Spec[m],
                               !.loaded = TRUE, !.useCache = FALSE]]
    /\ pc' = [pc EXCEPT !["start"] = "done"]
    /\ UNCHANGED <<at, fullLock, found, scanning, complete, delay, due, file, bus, cached, world>>

(* Mutant: nothing keeps two scans apart. *)
AskUnlocked(s) ==
    /\ pc[s] = "off" /\ (s = "start" => source = "bus")
    /\ fullLock' = Append(fullLock, s)
    /\ pc' = [pc EXCEPT ![s] = "draining"] /\ complete' = FALSE
    /\ UNCHANGED <<at, found, scanning, delay, due, mods, file, bus, cached, world>>

(* start() and the service scan() call PacketHandler.scan(). *)
Ask(s) ==
    /\ pc[s] = "off" /\ (s = "start" => source = "bus")
    /\ fullLock' = Append(fullLock, s)
    /\ IF fullLock = <<>> THEN pc' = [pc EXCEPT ![s] = "draining"] /\ complete' = FALSE
                          ELSE pc' = [pc EXCEPT ![s] = "queued"] /\ UNCHANGED complete
    /\ UNCHANGED <<at, found, scanning, delay, due, mods, file, bus, cached, world>>

Acquire(s) ==
    /\ pc[s] = "queued" /\ Head(fullLock) = s
    /\ pc' = [pc EXCEPT ![s] = "draining"] /\ complete' = FALSE
    /\ UNCHANGED <<at, fullLock, found, scanning, delay, due, mods, file, bus, cached, world>>

(* The send queue is joined: every address is asked for its type; the service
   removes the cache files first.                                           *)
Probe(s) ==
    /\ pc[s] = "draining" /\ ~clogged
    /\ found' = {} /\ scanning' = TRUE
    /\ file' = IF s = "service" THEN [m \in Mains |-> <<>>] ELSE file
    /\ bus' = bus \o FlattenSeq([i \in 1 .. MaxAddress |->
                                  IF i \in Mains THEN TypeAnswer(i) ELSE <<>>])
    /\ pc' = [pc EXCEPT ![s] = "sending"]
    /\ UNCHANGED <<at, fullLock, complete, delay, due, mods, cached, world>>

(* The send queue is joined again: all the requests were sent. *)
Sent(s) ==
    /\ pc[s] = "sending" /\ ~clogged
    /\ pc' = [pc EXCEPT ![s] = "sleeping"]
    /\ UNCHANGED <<at, fullLock, found, scanning, complete, delay, due, mods, file, bus, cached, world>>

(* External: a connection is lost or a write fails, and leaves an element in the
   send queue of which no task_done() will be told (ProtocolWriter).        *)
Clog ==
    /\ ~clogged /\ clogged' = TRUE
    /\ UNCHANGED <<scan, mods, file, bus, cached, source, lost, late>>

SubUnderWay == \E i \in DOMAIN bus : bus[i].kind = "sub"

(* SCAN_MODULETYPE_TIMEOUT is over. *)
SleepOver(s) ==
    /\ pc[s] = "sleeping"
    /\ pc' = [pc EXCEPT ![s] = "visiting"] /\ at' = [at EXCEPT ![s] = 1] /\ due' = found
    /\ late' = (late \/ SubUnderWay)
    /\ UNCHANGED <<fullLock, found, scanning, complete, delay, mods, file, bus, cached, source, lost, clogged>>

NextAddress(s, to) ==
    /\ at' = [at EXCEPT ![s] = @ + 1] /\ pc' = [pc EXCEPT ![s] = to]

(* The next address: nobody answered, or the module is new, or it is known,
   perhaps as the owner of a sub-address.                                   *)
Visit(s) ==
    /\ pc[s] = "visiting" /\ at[s] \in Addresses
    /\ IF at[s] \notin found THEN NextAddress(s, "visiting")
       ELSE /\ pc' = [pc EXCEPT ![s] = IF GetModule(at[s]) = {} THEN "adding" ELSE "loading"]
            /\ UNCHANGED at
    /\ UNCHANGED <<fullLock, found, scanning, complete, delay, due, mods, file, bus, cached, world>>

(* add_module(), after initialize() has read the specifications. *)
Added(s) ==
    /\ pc[s] = "adding"
    /\ mods' = [m \in DOMAIN mods \cup {at[s]} |-> IF m = at[s] THEN NewModule ELSE mods[m]]
    /\ pc' = [pc EXCEPT ![s] = "loading"]
    /\ UNCHANGED <<at, fullLock, found, scanning, complete, delay, due, file, bus, cached, world>>

Visited(s) == CHOOSE m \in GetModule(at[s]) : TRUE

(* load(): from the cache file, or by asking the bus. *)
Load(s) ==
    /\ pc[s] = "loading"
    /\ LET m == Visited(s)
           r == mods[m]
       IN  IF file[m] = <<>>
           THEN /\ mods' = [mods EXCEPT ![m] = [r EXCEPT !.chans = Spec[m], !.named = {},
                                                         !.loading = FALSE]]
                /\ bus' = bus \o Append(TypeAnswer(m), NameFrame(m))
                /\ cached' = cached \ {m}
           ELSE /\ mods' = [mods EXCEPT ![m] = [r EXCEPT !.chans = Spec[m],
                               !.named = file[m][1].chans, !.loading = FALSE,
                               !.subs = Updated(@, file[m][1].subs)]]
                /\ cached' = cached \cup {m} /\ UNCHANGED bus
    /\ delay' = Initial /\ pc' = [pc EXCEPT ![s] = "polling"]
    /\ UNCHANGED <<at, fullLock, found, scanning, complete, due, file, world>>

(* wait_for(module.load()) gives up. *)
LoadTimeout(s) ==
    /\ pc[s] = "loading"
    /\ mods' = [mods EXCEPT ![Visited(s)].loading = TRUE]
    /\ NextAddress(s, "visiting")
    /\ UNCHANGED <<fullLock, found, scanning, complete, delay, due, file, bus, cached, world>>

(* is_loaded(): the first time it is so, the module is cached. *)
Noted(m) ==
    /\ mods' = [mods EXCEPT ![m].loaded = IsLoaded(mods[m])]
    /\ file' = IF IsLoaded(mods[m]) /\ ~mods[m].loaded THEN Cached(file, m, mods[m]) ELSE file

(* Mutant: the wait is not counted down. *)
PollStuck(s) ==
    /\ pc[s] = "polling" /\ Noted(Visited(s))
    /\ IF delay > 1 /\ ~IsLoaded(mods[Visited(s)])
       THEN UNCHANGED <<pc, delay>>
       ELSE pc' = [pc EXCEPT ![s] = "concluding"] /\ UNCHANGED delay
    /\ UNCHANGED <<at, fullLock, found, scanning, complete, due, bus, cached, world>>

(* The polling loop: another 50 ms, or it is through. *)
Poll(s) ==
    /\ pc[s] = "polling" /\ Noted(Visited(s))
    /\ IF delay > 1 /\ ~IsLoaded(mods[Visited(s)])
       THEN delay' = delay - 1 /\ UNCHANGED pc
       ELSE pc' = [pc EXCEPT ![s] = "concluding"] /\ UNCHANGED delay
    /\ UNCHANGED <<at, fullLock, found, scanning, complete, due, bus, cached, world>>

(* After wait_for_status_messages(): a module that is not loaded is written too. *)
Conclude(s) ==
    /\ pc[s] = "concluding"
    /\ LET m == Visited(s)
       IN  /\ mods' = [mods EXCEPT ![m].loaded = IsLoaded(mods[m])]
           /\ file' = IF mods[m].loaded THEN file ELSE Cached(file, m, mods[m])
    /\ NextAddress(s, "visiting")
    /\ UNCHANGED <<fullLock, found, scanning, complete, delay, due, bus, cached, world>>

(* The last address is behind: the lock goes to the next scan. *)
Finish(s) ==
    /\ pc[s] = "visiting" /\ at[s] \notin Addresses
    /\ complete' = TRUE /\ fullLock' = Tail(fullLock)
    /\ pc' = [pc EXCEPT ![s] = "done"]
    /\ late' = (late \/ SubUnderWay)
    /\ UNCHANGED <<at, found, scanning, delay, due, mods, file, bus, cached, source, lost, clogged>>
-----------------------------------------------------------------------------
(* What a message told about a module adds to the wait. *)
Longer == IF delay + Interval > MaxDelay THEN MaxDelay ELSE delay + Interval

Frame(kind) == bus # <<>> /\ Head(bus).kind = kind /\ bus' = Tail(bus)

(* __handle_module_type_response_async() *)
HandleType ==
    /\ Frame("type")
    /\ found' = IF scanning THEN found \cup {Head(bus).from} ELSE found
    /\ UNCHANGED <<pc, at, fullLock, scanning, complete, delay, due, mods, file, cached, world>>

(* handle() and _handle_module_subtype(): only while a scan runs, which it
   prolongs.                                                                *)
HandleSubtype ==
    /\ Frame("sub")
    /\ LET f == Head(bus)
           ms == GetModule(f.from)
       IN  IF complete THEN UNCHANGED <<delay, mods>>
           ELSE /\ delay' = Longer
                /\ mods' = [m \in DOMAIN mods |-> IF m \in ms
                            THEN AddSubmodules(mods[m], f.offset, f.subs) ELSE mods[m]]
    /\ UNCHANGED <<pc, at, fullLock, found, scanning, complete, due, file, cached, world>>

(* handle() of the messages that tell the names: for a module that is known; they
   prolong the scan, whichever module is being loaded.                      *)
NamesOf(m) ==
    /\ IF m \notin DOMAIN mods THEN UNCHANGED <<delay, mods, file>>
       ELSE LET r == [mods[m] EXCEPT !.named = @ \cup (mods[m].chans \cap Has[m])]
            IN  /\ delay' = Longer
                /\ mods' = [mods EXCEPT ![m] = r] /\ file' = Cached(file, m, r)
    /\ UNCHANGED <<pc, at, fullLock, found, scanning, complete, due, cached, world>>

HandleName == Frame("name") /\ NamesOf(Head(bus).from)

(* External: a frame is lost. *)
Lose ==
    /\ bus # <<>> /\ lost < MaxLost
    /\ bus' = Tail(bus) /\ lost' = lost + 1
    /\ UNCHANGED <<scan, mods, file, cached, source, clogged, late>>

(* External: a module that has its names here tells them to another program. *)
Foreign == \E m \in DOMAIN mods :
    /\ mods[m].chans # {} /\ mods[m].chans \cap Has[m] \subseteq mods[m].named
    /\ NamesOf(m) /\ UNCHANGED bus

Steps(s) == \/ Ask(s) \/ Acquire(s) \/ Probe(s) \/ Sent(s) \/ SleepOver(s) \/ Visit(s) \/ Added(s)
            \/ Load(s) \/ LoadTimeout(s) \/ Poll(s) \/ Conclude(s) \/ Finish(s)
Handle == HandleType \/ HandleSubtype \/ HandleName

SNext == StartVlp \/ (\E s \in Scans : Steps(s)) \/ Handle \/ Lose \/ Clog \/ Foreign

SSpec == SInit /\ [][SNext]_svars

(* The send queue drains unless it is clogged, files are read, timers expire and
   a lock that is free is taken; a scan that is asked for goes on.          *)
FairSSpec == SSpec /\ \A s \in Scans :
    WF_svars(pc[s] # "off" /\ Steps(s))
-----------------------------------------------------------------------------
(* Every address that answered in time has its module when the scan is over,
   whatever a second scan, asked for meanwhile, resets.                     *)
ScanIsWhole == [][\A s \in Scans : pc[s] = "visiting" /\ pc'[s] = "done" =>
                    \A a \in due : GetModule(a) # {}]_svars

SubAddresses == UNION {{Site[m][k] : k \in Subs(m)} : m \in Mains}

(* A frame goes to the module whose address it comes from, and its channels to
   the block that address stands for, or nowhere: never to another.         *)
RightRoute == source = "bus" => \A x \in Addresses \cup SubAddresses :
    \/ Route(x) = None
    \/ Route(x).main = x /\ Route(x).offset = 0
    \/ /\ Route(x).offset \in Subs(Route(x).main)
       /\ Site[Route(x).main][Route(x).offset] = x

(* A module loaded from the bus is left with the channels it has, once its
   answers are in, when none was lost and none was late: none that it lacks
   stays, and of those it has none goes but the misplaced.                  *)
ChannelsRight == (bus = <<>> /\ lost = 0 /\ ~late /\ source = "bus") =>
    \A m \in DOMAIN mods : (mods[m].chans # {} /\ m \notin cached /\ ~mods[m].loading) =>
        mods[m].chans \subseteq Has[m] /\ Has[m] \ mods[m].chans \subseteq Misplaced(m)

(* A scan waits for a send queue that is never joined, and has the lock. *)
Hangs == clogged /\ \E s \in Scans : pc[s] \in {"draining", "sending"}

(* Every scan comes to its end, unless names keep coming for ever: every one of
   them prolongs it; or an element of the send queue was never done: then the
   scan that waits for the queue keeps the lock for ever, and with it whoever
   asks for the next.                                                       *)
ScanEnds == []<><<Foreign>>_svars \/ []<>(Hangs \/ \A s \in Scans : pc[s] \in {"off", "done"})

(* "Block 2: 9-16 (index 1)": a block counts as active when the module has the
   sub-address of that block.                                               *)
BlocksActive == \A m \in DOMAIN mods : mods[m].loaded =>
    \A b \in Subs(m) : Active(mods[m], b)
=============================================================================
