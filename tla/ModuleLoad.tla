------------------------------ MODULE ModuleLoad ------------------------------
(***************************************************************************)
(* One module of the bus from its discovery to its cache file: what        *)
(* PacketHandler.scan() does with it (velbusaio/handler.py), load(),       *)
(* is_loaded(), the handlers of its name replies and _cache() of           *)
(* velbusaio/module.py, over scans, lost replies and restarts.             *)
(*                                                                         *)
(* A step is the code between two awaits that really suspend: the cache    *)
(* file is read and written in threads, everything that is sent goes       *)
(* straight to the send queue.  A request is modelled by the replies it    *)
(* will have, in the order of the requests; a request lost loses them one  *)
(* by one.  Timers may expire at any time.  A name is the sequence of the  *)
(* blocks it was made of; a channel name is the default or the real one.   *)
(***************************************************************************)
EXTENDS Integers, Sequences, SequencesExt

CONSTANTS
    NChannels,     \* channels with an editable name
    NBlocks,       \* memory blocks that hold the module's name
    MaxScans,      \* bound: scans by the first run of the program; each next, one less
    MaxLost,       \* bound: lost replies
    MaxRestarts    \* bound: restarts

ASSUME LoadAssumption ==
    /\ NChannels \in Nat /\ NBlocks \in Nat \ {0}
    /\ MaxScans \in Nat /\ MaxLost \in Nat /\ MaxRestarts \in Nat

VARIABLES
    file,        \* {address}.json: <<>> or one snapshot
    bus,         \* replies on their way to the program
    pc,          \* what the scan does with this module
    found,       \* __scan_found_addresses[address] is not None
    exists,      \* the Module object is in _modules
    cached,      \* what _get_cache() returned
    name,        \* _name: <<>> before it is a string
    buffer,      \* _name_buffer: blocks in the order of arrival
    chans,       \* _channels
    subs,        \* _sub_address is filled
    isLoading,   \* _is_loading
    loaded,      \* loaded
    writers,     \* tasks inside _cache(), in the order of _cache_lock
    latest,      \* history: what the file is when they are through
    failed,      \* history: load() timed out in this scan
    scans,       \* history: scans of this run of the program
    lost,        \* history: replies lost
    restarts,    \* history: restarts
    late         \* history: replies to an earlier run reached a later one

module == <<exists, cached, name, buffer, chans, subs, isLoading, loaded>>
lvars  == <<file, bus, pc, found, module, writers, latest, failed, scans, lost, restarts, late>>

Channels == 1 .. NChannels
Blocks   == 1 .. NBlocks
Parts    == 1 .. 3
TypeName == <<0>>                  \* get_type_name(), which is no block
RealName == [b \in Blocks |-> b]

Fresh == [name |-> "default", parts |-> {}, loaded |-> FALSE]

(* Mutant: a channel in the cache counts as loaded, its name is forgotten. *)
RestoredUnnamed(n) == [name |-> "default", parts |-> {}, loaded |-> TRUE]

Restored(n) == [name |-> n, parts |-> {}, loaded |-> TRUE]

TypeReply == [kind |-> "type"]
SubReply == [kind |-> "sub"]
BlockReply(b) == [kind |-> "block", block |-> b]
PartReply(c, k) == [kind |-> "part", chan |-> c, part |-> k]

(* The answer to a ModuleTypeRequest, to a request for the names of channels. *)
TypeReplies == <<TypeReply, SubReply>>
NameReplies(n) == [i \in 1 .. 3 * n |-> PartReply(((i - 1) \div 3) + 1, ((i - 1) % 3) + 1)]

LInit ==
    /\ file = <<>> /\ bus = <<>> /\ pc = "off" /\ found = FALSE /\ exists = FALSE
    /\ cached = <<>> /\ name = <<>> /\ buffer = <<>> /\ chans = <<>> /\ subs = FALSE
    /\ isLoading = FALSE /\ loaded = FALSE /\ writers = <<>> /\ latest = <<>>
    /\ failed = FALSE /\ scans = 0 /\ lost = 0 /\ restarts = 0
    /\ late = FALSE
-----------------------------------------------------------------------------
(* to_cache(): the type name stands in for a name not yet known. *)
ToCache(n, cs, s) ==
    [name |-> IF n = <<>> THEN TypeName ELSE n,
     chans |-> [c \in DOMAIN cs |-> cs[c].name], subs |-> s]

(* _cache() up to its lock: the snapshot is taken at once, the write has to
   wait for its turn.                                                       *)
Cache(by, snap) ==
    /\ writers' = Append(writers, [by |-> by, snap |-> snap])
    /\ latest' = <<snap>>

NoCache == UNCHANGED <<writers, latest>>

(* Mutant: without the lock any of the writers may be the next. *)
CacheWrittenUnlocked ==
    \E i \in DOMAIN writers :
        /\ file' = <<writers[i].snap>> /\ writers' = RemoveAt(writers, i)
        /\ UNCHANGED <<bus, pc, found, module, latest, failed, scans, lost, restarts, late>>

(* The holder of the lock has written its temporary file and renames it. *)
CacheWritten ==
    /\ writers # <<>>
    /\ file' = <<Head(writers).snap>> /\ writers' = Tail(writers)
    /\ UNCHANGED <<bus, pc, found, module, latest, failed, scans, lost, restarts, late>>

(* The scan waits for the writes it asked for itself. *)
ScanRuns == \A i \in DOMAIN writers : writers[i].by # "scan"
-----------------------------------------------------------------------------
(* start() scans, scan() of the controller scans again and removes the cache
   file; the module's address is asked for its type.                        *)
BeginScan ==
    /\ pc \in {"off", "done"} /\ scans + restarts < MaxScans
    /\ file' = IF scans > 0 THEN <<>> ELSE file
    /\ latest' = IF scans > 0 /\ writers = <<>> THEN <<>> ELSE latest
    /\ found' = FALSE /\ failed' = FALSE /\ scans' = scans + 1
    /\ bus' = bus \o TypeReplies
    /\ pc' = "probing"
    /\ UNCHANGED <<module, writers, lost, restarts, late>>

(* SCAN_MODULETYPE_TIMEOUT is over: a module that was found is added, unless it
   is known, and load() begins.  The send queue is joined before that, which may
   take for ever (BusScan): nothing makes this step happen.                 *)
ProbeOver ==
    /\ pc = "probing"
    /\ IF found THEN exists' = TRUE /\ isLoading' = TRUE /\ pc' = "reading"
                ELSE pc' = "rest" /\ UNCHANGED <<exists, isLoading>>
    /\ UNCHANGED <<file, bus, found, cached, name, buffer, chans, subs, loaded,
                   writers, latest, failed, scans, lost, restarts, late>>

(* _get_cache(), in a thread. *)
ReadCache ==
    /\ pc = "reading"
    /\ cached' = file /\ pc' = "read"
    /\ UNCHANGED <<file, bus, found, exists, name, buffer, chans, subs, isLoading, loaded,
                   writers, latest, failed, scans, lost, restarts, late>>

(* Mutant: the last channel is not asked for. *)
AskedShort == NameReplies(NChannels - 1)

(* The range of _request_channel_name(). *)
Asked == NameReplies(NChannels)

(* load() from the cache's content to its callbacks: the channels are made
   anew; what the cache has is taken from it, and only without a cache is the
   bus asked for the name, the sub-addresses and the channel names.         *)
Load ==
    /\ pc = "read"
    /\ IF cached = <<>>
       THEN /\ chans' = [c \in Channels |-> Fresh]
            /\ bus' = bus \o [b \in Blocks |-> BlockReply(b)] \o TypeReplies \o Asked
            /\ UNCHANGED <<name, subs>>
       ELSE /\ chans' = [c \in Channels |-> IF c \in DOMAIN cached[1].chans
                                            THEN Restored(cached[1].chans[c]) ELSE Fresh]
            /\ name' = cached[1].name /\ subs' = (subs \/ cached[1].subs)
            /\ UNCHANGED bus
    /\ isLoading' = FALSE /\ pc' = "calling"
    /\ UNCHANGED <<file, found, exists, cached, buffer, loaded, writers, latest, failed,
                   scans, lost, restarts, late>>

(* The application's on_module_found callback returns. *)
CallbackReturns ==
    /\ pc = "calling" /\ pc' = "polling"
    /\ UNCHANGED <<file, bus, found, module, writers, latest, failed, scans, lost, restarts, late>>

(* wait_for(module.load()) gives up, while the cache is read or in the callback. *)
LoadTimeout ==
    /\ pc \in {"reading", "read", "calling"}
    /\ pc' = "rest" /\ failed' = TRUE
    /\ UNCHANGED <<file, bus, found, module, writers, latest, scans, lost, restarts, late>>

(* is_loaded(), where it is not yet known. *)
Complete == ~isLoading /\ buffer = <<>> /\ \A c \in DOMAIN chans : chans[c].loaded

Snapshot == ToCache(name, chans, subs)

(* The polling loop ends, because is_loaded() or because the time is up. *)
PollingEnds ==
    /\ pc = "polling" /\ ScanRuns
    /\ loaded' = (loaded \/ Complete)
    /\ IF loaded' # loaded THEN Cache("scan", Snapshot) ELSE NoCache
    /\ pc' = "status"
    /\ UNCHANGED <<file, bus, found, exists, cached, name, buffer, chans, subs, isLoading,
                   failed, scans, lost, restarts, late>>

(* Mutant: only a module that is complete is written. *)
ConcludeComplete ==
    /\ pc = "status" /\ ScanRuns
    /\ loaded' = (loaded \/ Complete)
    /\ IF loaded' # loaded THEN Cache("scan", Snapshot) ELSE NoCache
    /\ pc' = "rest"
    /\ UNCHANGED <<file, bus, found, exists, cached, name, buffer, chans, subs, isLoading,
                   failed, scans, lost, restarts, late>>

(* After wait_for_status_messages(): unless the module was loaded before, it is
   written, by is_loaded() or by write_cache().                             *)
Conclude ==
    /\ pc = "status" /\ ScanRuns
    /\ loaded' = (loaded \/ Complete)
    /\ IF loaded THEN NoCache ELSE Cache("scan", Snapshot)
    /\ pc' = "rest"
    /\ UNCHANGED <<file, bus, found, exists, cached, name, buffer, chans, subs, isLoading,
                   failed, scans, lost, restarts, late>>

(* The other addresses are through as well: _scan_complete. *)
EndScan ==
    /\ pc = "rest" /\ ScanRuns /\ pc' = "done"
    /\ UNCHANGED <<file, bus, found, module, writers, latest, failed, scans, lost, restarts, late>>
-----------------------------------------------------------------------------
Next1(kind) == bus # <<>> /\ Head(bus).kind = kind /\ bus' = Tail(bus)

(* handle(): a module type response. *)
HandleType ==
    /\ Next1("type")
    /\ found' = TRUE
    /\ UNCHANGED <<file, pc, module, writers, latest, failed, scans, lost, restarts, late>>

(* handle(): a subtype response, for a module that exists during a scan. *)
HandleSubtype ==
    /\ Next1("sub")
    /\ subs' = (subs \/ (exists /\ pc # "done"))
    /\ UNCHANGED <<file, pc, found, exists, cached, name, buffer, chans, isLoading, loaded,
                   writers, latest, failed, scans, lost, restarts, late>>

(* Mutant: the name is complete with the last block. *)
LastReceived(blocks) == Last(blocks) = NBlocks

AllReceived(blocks) == Len(blocks) >= NBlocks

(* _process_memory_data_block_message(): the dictionary keeps the order in which
   its keys came; with the last of them the name is joined in that order.   *)
HandleBlock ==
    /\ Next1("block")
    /\ LET b == Head(bus).block
           filled == IF b \in ToSet(buffer) THEN buffer ELSE Append(buffer, b)
       IN  IF ~exists \/ name # <<>> THEN UNCHANGED <<name, buffer>> /\ NoCache
           ELSE IF ~AllReceived(filled)
           THEN buffer' = filled /\ UNCHANGED name /\ NoCache
           ELSE /\ name' = filled /\ buffer' = <<>>
                /\ Cache("handler", ToCache(filled, chans, subs))
    /\ UNCHANGED <<file, pc, found, exists, cached, chans, subs, isLoading, loaded,
                   failed, scans, lost, restarts, late>>

(* Channel.set_name_part() *)
SetNamePart(ch, k) ==
    LET parts == ch.parts \cup {k}
    IN  IF parts = Parts THEN [name |-> "real", parts |-> {}, loaded |-> TRUE]
        ELSE [ch EXCEPT !.parts = parts]

(* _handle_channel_name_part1(), 2 and 3: the module is cached with every part,
   also when it does not know the channel.                                  *)
HandlePart ==
    /\ Next1("part")
    /\ LET c == Head(bus).chan
           cs == IF c \in DOMAIN chans
                 THEN [chans EXCEPT ![c] = SetNamePart(@, Head(bus).part)] ELSE chans
       IN  IF exists THEN chans' = cs /\ Cache("handler", ToCache(name, cs, subs))
                     ELSE UNCHANGED chans /\ NoCache
    /\ UNCHANGED <<file, pc, found, exists, cached, name, buffer, subs, isLoading, loaded,
                   failed, scans, lost, restarts, late>>
-----------------------------------------------------------------------------
(* External: a reply, or the request it answers, is lost. *)
LoseReply ==
    /\ bus # <<>> /\ lost < MaxLost
    /\ bus' = Tail(bus) /\ lost' = lost + 1
    /\ UNCHANGED <<file, pc, found, module, writers, latest, failed, scans, restarts, late>>

(* External: the program ends, in the middle of whatever it does, and is started
   again.  Only the file is left, and perhaps what the bus has under way.   *)
Restart ==
    /\ restarts < MaxRestarts /\ restarts' = restarts + 1
    /\ \/ bus' = <<>> /\ UNCHANGED late
       \/ bus # <<>> /\ UNCHANGED bus /\ late' = TRUE
    /\ pc' = "off" /\ found' = FALSE /\ exists' = FALSE /\ cached' = <<>> /\ name' = <<>>
    /\ buffer' = <<>> /\ chans' = <<>> /\ subs' = FALSE /\ isLoading' = FALSE
    /\ loaded' = FALSE /\ writers' = <<>> /\ latest' = file
    /\ failed' = FALSE /\ scans' = 0
    /\ UNCHANGED <<file, lost>>

Scan == \/ BeginScan \/ ProbeOver \/ ReadCache \/ Load \/ CallbackReturns
        \/ LoadTimeout \/ PollingEnds \/ Conclude \/ EndScan
Handle == HandleType \/ HandleSubtype \/ HandleBlock \/ HandlePart

LNext == Scan \/ Handle \/ CacheWritten \/ LoseReply \/ Restart

LSpec == LInit /\ [][LNext]_lvars

(* A reply that is not lost is received, and the threads that write return. *)
FairLSpec == LSpec /\ WF_lvars(Handle) /\ WF_lvars(CacheWritten)
-----------------------------------------------------------------------------
Snapshots == {f \in {file, cached, latest} : f # <<>>} \cup {<<w.snap>> : w \in ToSet(writers)}

(* Writes land in the order in which their snapshots were taken: whatever tasks
   call _cache() at the same time, the file ends up with the last snapshot. *)
FileIsLatest == latest = IF writers = <<>> THEN file ELSE <<Last(writers).snap>>

(* "we still persist a cache file here so every found module is represented on
   disk": after the first scan that did not time out, whatever was lost.    *)
Represented ==
    (pc = "done" /\ exists /\ ~failed /\ scans = 1 /\ writers = <<>>) => file # <<>>

(* What one cache file says is in another as well. *)
Retains(f, g) ==
    f # <<>> => /\ g # <<>>
                /\ f[1].name # TypeName => g[1].name = f[1].name
                /\ f[1].subs => g[1].subs
                /\ \A c \in DOMAIN f[1].chans : f[1].chans[c] = "real" =>
                       c \in DOMAIN g[1].chans /\ g[1].chans[c] = "real"

(* What was learnt once stays in the file over restarts, losses and timeouts, as
   long as nobody asks for a new scan, which removes it, and no reply meant for
   an earlier run comes while a new one reads the file.                     *)
Kept == [][scans' <= 1 /\ ~late => Retains(file, file')]_lvars

(* "_name is only set to a string once all bytes have been received": the name
   is whole and its blocks are in the order of their positions, within one scan
   whatever is lost, and over scans and restarts when nothing is lost and no
   reply comes late.                                                        *)
NameWhole == (/\ name \notin {<<>>, TypeName} /\ ~late
              /\ lost = 0 \/ (scans <= 1 /\ restarts = 0)) => name = RealName

Named == exists /\ \A c \in Channels : c \in DOMAIN chans /\ chans[c].name = "real"
Saved == file # <<>> /\ Retains(<<ToCache(name, chans, subs)>>, file)

(* Once load() is through, every channel gets its name in the end and the file
   gets it too, unless a reply is lost, the program ends or another scan begins. *)
EventuallyNamed == (pc = "polling") ~> ((Named /\ Saved) \/ lost > 0 \/ restarts > 0 \/ scans > 1)

=============================================================================
