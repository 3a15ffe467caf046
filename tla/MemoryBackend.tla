---------------------------- MODULE MemoryBackend ----------------------------
(***************************************************************************)
(* MemoryBackend of velbusaio/memory.py: reads and writes of a module's    *)
(* EEPROM by request and reply over the bus, one call at a time under an   *)
(* asyncio lock, with a cache fed by every memory reply that is received.  *)
(*                                                                         *)
(* A step is the code from one await to the next.  A call of read_byte or  *)
(* write_byte is a call of read_bytes or write_bytes on one byte.  The     *)
(* way to the module (the send queue, then the bus) and the way back keep  *)
(* the order of messages and may lose them; time is abstract, so the timer *)
(* of a request may expire before its reply, or its request, has arrived.  *)
(***************************************************************************)
EXTENDS Integers, Sequences

CONSTANTS
    Callers,     \* tasks that use the backend
    MaxAddr,     \* addresses are 0 .. MaxAddr
    Values,      \* contents of an EEPROM byte
    BlockSize,   \* _BLOCK_SIZE
    Contents,    \* what the EEPROM may hold at first
    Jobs,        \* the calls made: see Job
    MaxCalls,    \* bound: calls
    MaxLost,     \* bound: messages lost on the bus
    MaxLoads     \* bound: requests sent by Module.__load_memory()

Addr == 0 .. MaxAddr
Bytes == UNION {[1 .. n -> Values] : n \in 0 .. MaxAddr + 1}

(* A call: what, where, how many bytes, and for a write which. *)
Job == [op : {"read", "write"}, start : Addr, len : 1 .. MaxAddr + 1,
        data : Bytes, useCache : BOOLEAN]

ASSUME SizeAssumption == MaxAddr \in Nat /\ BlockSize \in Nat \ {0, 1}
ASSUME ContentsAssumption == Contents \subseteq [Addr -> Values]
ASSUME JobsAssumption == Jobs # {} /\ \A j \in Jobs :
    /\ j \in Job /\ j.start + j.len <= MaxAddr + 1
    /\ j.op = "write" => Len(j.data) = j.len
ASSUME MemoryBounds == MaxCalls \in Nat /\ MaxLost \in Nat /\ MaxLoads \in Nat

VARIABLES
    eeprom,      \* the module's memory
    toModule,    \* requests on their way to the module
    toBackend,   \* replies on their way back
    cache,       \* _cache: a function on the addresses known
    waiters,     \* _waiters: which call waits for a reply at an address
    reply,       \* the result of the future each call waits for: <<>> or <<data>>
    lockQueue,   \* _lock: its holder, then those who wait for it, in order
    pc,          \* where each call is suspended
    job,         \* the call each task makes, or made last
    pos,         \* bytes of the job already asked for and answered
    out,         \* bytes a read has collected
    outcome,     \* how each task's last call ended
    calls,       \* history: calls made
    lost,        \* history: messages lost
    loads,       \* history: requests of __load_memory()
    stale,       \* history: addresses whose last acknowledged change was lost
    quiet        \* history: nothing but its own requests under way during the call

busVars  == <<eeprom, toModule, toBackend, lost, loads, stale>>
callVars == <<reply, lockQueue, pc, job, pos, out, outcome, calls, quiet>>
mvars    == <<eeprom, toModule, toBackend, cache, waiters, reply, lockQueue, pc,
              job, pos, out, outcome, calls, lost, loads, stale, quiet>>

Covers(addr, n) == {a \in Addr : addr <= a /\ a < addr + n}
Known(f, addr, n) == \A a \in addr .. addr + n - 1 : a \in DOMAIN f
Slice(f, addr, n) == [i \in 1 .. n |-> f[addr + i - 1]]
Without(f, S) == [a \in DOMAIN f \ S |-> f[a]]

PCs == {"idle", "lock", "waiting", "gap"}

MInit ==
    /\ eeprom \in Contents /\ toModule = <<>> /\ toBackend = <<>>
    /\ cache = <<>> /\ waiters = <<>> /\ lockQueue = <<>>
    /\ reply = [p \in Callers |-> <<>>] /\ pc = [p \in Callers |-> "idle"]
    /\ job \in [Callers -> {CHOOSE j \in Jobs : TRUE}]
    /\ pos = [p \in Callers |-> 0] /\ out = [p \in Callers |-> <<>>]
    /\ outcome = [p \in Callers |-> "none"] /\ quiet = [p \in Callers |-> FALSE]
    /\ calls = 0 /\ lost = 0 /\ loads = 0 /\ stale = {}
-----------------------------------------------------------------------------
(* The next request of job j, of which n bytes are done: a block as long as a
   whole block is left, then single bytes.                                  *)
Chunk(j, n) == IF j.len - n >= BlockSize THEN BlockSize ELSE 1

Request(j, n) ==
    [op |-> j.op, addr |-> j.start + n, size |-> Chunk(j, n),
     data |-> IF j.op = "read" THEN <<>> ELSE SubSeq(j.data, n + 1, n + Chunk(j, n))]

(* The finally of _request(): a call removes only its own waiter. *)
Unregister(p) == Without(waiters, {a \in DOMAIN waiters : waiters[a] = p})

(* _request() up to its wait: the waiter takes the place of a stale one and the
   message goes to the send queue.  (OneAtATime shows that a waiter somebody
   still waits for is never replaced.)                                      *)
Ask(p, n) ==
    LET r == Request(job[p], n)
        w == Unregister(p)
    IN  /\ waiters' = [a \in DOMAIN w \cup {r.addr} |-> IF a = r.addr THEN p ELSE w[a]]
        /\ reply' = [reply EXCEPT ![p] = <<>>]
        /\ toModule' = Append(toModule, r)
        /\ pos' = [pos EXCEPT ![p] = n]
        /\ pc' = [pc EXCEPT ![p] = "waiting"]

(* The call of p ends, and with it `async with self._lock`. *)
Return(p, how) ==
    /\ pc' = [pc EXCEPT ![p] = "idle"]
    /\ outcome' = [outcome EXCEPT ![p] = how]
    /\ lockQueue' = Tail(lockQueue)
    /\ reply' = [reply EXCEPT ![p] = <<>>]
    /\ waiters' = Unregister(p)
    /\ pos' = [pos EXCEPT ![p] = 0] /\ quiet' = [quiet EXCEPT ![p] = FALSE]

(* Mutant: the loop ends one byte early. *)
ProceedShort(p, n) ==
    IF n + 1 < job[p].len
    THEN Ask(p, n) /\ UNCHANGED <<lockQueue, outcome, quiet>>
    ELSE Return(p, "ok") /\ UNCHANGED toModule

(* n bytes are done: the next request, or the end of the call. *)
Proceed(p, n) ==
    IF n < job[p].len
    THEN Ask(p, n) /\ UNCHANGED <<lockQueue, outcome, quiet>>
    ELSE Return(p, "ok") /\ UNCHANGED toModule

FromCache(j) == j.op = "read" /\ j.useCache /\ Known(cache, j.start, j.len)
-----------------------------------------------------------------------------
(* read_byte, read_bytes, write_byte or write_bytes is called.  A read whose
   bytes are all cached returns without the lock.                           *)
Call(p, j) ==
    /\ pc[p] = "idle" /\ calls < MaxCalls
    /\ calls' = calls + 1
    /\ job' = [job EXCEPT ![p] = j]
    /\ IF FromCache(j)
       THEN /\ out' = [out EXCEPT ![p] = Slice(cache, j.start, j.len)]
            /\ outcome' = [outcome EXCEPT ![p] = "ok"]
            /\ UNCHANGED <<lockQueue, pc>>
       ELSE /\ out' = [out EXCEPT ![p] = <<>>]
            /\ outcome' = [outcome EXCEPT ![p] = "none"]
            /\ lockQueue' = Append(lockQueue, p)
            /\ pc' = [pc EXCEPT ![p] = "lock"]
    /\ UNCHANGED <<eeprom, toModule, toBackend, cache, waiters, reply, pos, lost,
                   loads, stale, quiet>>

(* Mutant: the lock is not waited for. *)
EnterUnlocked(p) ==
    /\ pc[p] = "lock"
    /\ Ask(p, 0)
    /\ UNCHANGED <<out, outcome, lockQueue, eeprom, toBackend, cache, job, calls,
                   lost, loads, stale, quiet>>

(* The lock is acquired: the cache is looked up once more, then the first
   request is sent.                                                         *)
Enter(p) ==
    /\ pc[p] = "lock" /\ Head(lockQueue) = p
    /\ IF FromCache(job[p])
       THEN /\ out' = [out EXCEPT ![p] = Slice(cache, job[p].start, job[p].len)]
            /\ Return(p, "ok")
            /\ UNCHANGED toModule
       ELSE /\ Ask(p, 0)
            /\ quiet' = [quiet EXCEPT ![p] = toModule = <<>> /\ toBackend = <<>>]
            /\ UNCHANGED <<out, outcome, lockQueue>>
    /\ UNCHANGED <<eeprom, toBackend, cache, job, calls, lost, loads, stale>>

(* The padding of a reply shorter than was asked for: bytes known from the
   cache, up to the first that is not.                                      *)
Padded(addr, data, n) ==
    LET gaps == {i \in Len(data) + 1 .. n : addr + i - 1 \notin DOMAIN cache}
        last == CHOOSE k \in Len(data) .. n :
                    /\ \A i \in Len(data) + 1 .. k : i \notin gaps
                    /\ k = n \/ k + 1 \in gaps
    IN  IF Len(data) >= n THEN data
        ELSE [i \in 1 .. last |-> IF i <= Len(data) THEN data[i] ELSE cache[addr + i - 1]]

(* What a read appends: block[:take] or data[0]. *)
Taken(p) ==
    LET n == Chunk(job[p], pos[p])
        d == Padded(job[p].start + pos[p], reply[p][1], n)
    IN  SubSeq(d, 1, IF Len(d) < n THEN Len(d) ELSE n)

(* The future is done and the task runs again: after a single written byte it
   pauses, after anything else it goes on.                                  *)
Wake(p) ==
    /\ pc[p] = "waiting" /\ reply[p] # <<>>
    /\ LET n == pos[p] + Chunk(job[p], pos[p])
       IN  IF job[p].op = "write" /\ Chunk(job[p], pos[p]) = 1
           THEN /\ pc' = [pc EXCEPT ![p] = "gap"] /\ pos' = [pos EXCEPT ![p] = n]
                /\ waiters' = Unregister(p) /\ reply' = [reply EXCEPT ![p] = <<>>]
                /\ UNCHANGED <<toModule, lockQueue, outcome, quiet>>
           ELSE Proceed(p, n)
    /\ out' = IF job[p].op = "read" THEN [out EXCEPT ![p] = @ \o Taken(p)] ELSE out
    /\ UNCHANGED <<eeprom, toBackend, cache, job, calls, lost, loads, stale>>

(* The pause of _WRITE_BYTE_GAP is over. *)
GapOver(p) ==
    /\ pc[p] = "gap"
    /\ Proceed(p, pos[p])
    /\ UNCHANGED <<eeprom, toBackend, cache, job, out, calls, lost, loads, stale>>

(* Mutant: only requests of one byte have a timer. *)
TimeoutBytesOnly(p) ==
    /\ pc[p] = "waiting" /\ Chunk(job[p], pos[p]) = 1
    /\ Return(p, "timeout")
    /\ UNCHANGED <<eeprom, toModule, toBackend, cache, job, out, calls, lost, loads, stale>>

(* wait_for() gives up, and VelbusMemoryTimeout leaves the call.  The timer may
   also win over a future that was completed in the same pass.              *)
Timeout(p) ==
    /\ pc[p] = "waiting"
    /\ Return(p, "timeout")
    /\ UNCHANGED <<eeprom, toModule, toBackend, cache, job, out, calls, lost, loads, stale>>

(* invalidate(), as ActionTable.load(force=True) calls it. *)
Invalidate(S) ==
    /\ cache' = Without(cache, S)
    /\ UNCHANGED <<busVars, callVars, waiters>>

(* Mutant: a reply nobody waits for is dropped. *)
FeedWanted ==
    /\ toBackend # <<>>
    /\ LET m == Head(toBackend)
           S == Covers(m.addr, Len(m.data))
       IN  IF m.addr \in DOMAIN waiters
           THEN /\ cache' = [a \in DOMAIN cache \cup S |->
                                IF a \in S THEN m.data[a - m.addr + 1] ELSE cache[a]]
                /\ reply' = [reply EXCEPT ![waiters[m.addr]] = <<m.data>>]
           ELSE UNCHANGED <<cache, reply>>
    /\ toBackend' = Tail(toBackend)
    /\ UNCHANGED <<eeprom, toModule, waiters, lockQueue, pc, job, pos, out, outcome,
                   calls, lost, loads, quiet, stale>>

(* feed_message() for the next reply: every byte goes to the cache, and a call
   that waits at the reply's address gets the data, whatever they answer.   *)
Feed ==
    /\ toBackend # <<>>
    /\ LET m == Head(toBackend)
           S == Covers(m.addr, Len(m.data))
       IN  /\ cache' = [a \in DOMAIN cache \cup S |->
                            IF a \in S THEN m.data[a - m.addr + 1] ELSE cache[a]]
           /\ reply' = [p \in Callers |->
                            IF m.addr \in DOMAIN waiters /\ waiters[m.addr] = p /\ reply[p] = <<>>
                            THEN <<m.data>> ELSE reply[p]]
           /\ stale' = stale \ S
    /\ toBackend' = Tail(toBackend)
    /\ UNCHANGED <<eeprom, toModule, waiters, lockQueue, pc, job, pos, out, outcome,
                   calls, lost, loads, quiet>>
-----------------------------------------------------------------------------
(* External: the module carries out its requests in order and answers each
   with the bytes it read or wrote.                                         *)
ModuleAnswers ==
    /\ toModule # <<>>
    /\ LET r == Head(toModule)
           S == Covers(r.addr, r.size)
           e == [a \in Addr |-> IF r.op = "write" /\ a \in S THEN r.data[a - r.addr + 1]
                                ELSE eeprom[a]]
       IN  /\ eeprom' = e
           /\ toBackend' = Append(toBackend, [addr |-> r.addr, data |-> Slice(e, r.addr, r.size)])
    /\ toModule' = Tail(toModule)
    /\ UNCHANGED <<cache, callVars, waiters, lost, loads, stale>>

(* External: a request does not reach the module, because the connection was
   lost or the bus was disturbed, or a reply does not reach the backend.    *)
LoseRequest ==
    /\ toModule # <<>> /\ lost < MaxLost
    /\ toModule' = Tail(toModule) /\ lost' = lost + 1
    /\ UNCHANGED <<eeprom, toBackend, cache, callVars, waiters, loads, stale>>

LoseReply ==
    /\ toBackend # <<>> /\ lost < MaxLost
    /\ toBackend' = Tail(toBackend) /\ lost' = lost + 1
    /\ stale' = stale \cup Covers(Head(toBackend).addr, Len(Head(toBackend).data))
    /\ UNCHANGED <<eeprom, toModule, cache, callVars, waiters, loads>>

(* Module.__load_memory() asks for n bytes on its own account, without lock or
   waiter; the reply reaches feed_message() like any other.                 *)
LoadMemory(a, n) ==
    /\ loads < MaxLoads /\ loads' = loads + 1
    /\ toModule' = Append(toModule, [op |-> "read", addr |-> a, size |-> n, data |-> <<>>])
    /\ quiet' = [p \in Callers |-> FALSE]
    /\ UNCHANGED <<eeprom, toBackend, cache, waiters, lost, stale, reply, lockQueue,
                   pc, job, pos, out, outcome, calls>>

Loadable == {an \in Addr \X {1, BlockSize} : an[1] + an[2] <= MaxAddr + 1}

CallerStep(p) == Enter(p) \/ Wake(p) \/ GapOver(p) \/ Timeout(p)

MNext ==
    \/ \E p \in Callers : \/ \E j \in Jobs : Call(p, j)
                          \/ Enter(p)
                          \/ Wake(p)
                          \/ GapOver(p)
                          \/ Timeout(p)
    \/ \E j \in Jobs : Invalidate(Covers(j.start, j.len))
    \/ Feed
    \/ ModuleAnswers
    \/ LoseRequest
    \/ LoseReply
    \/ \E an \in Loadable : LoadMemory(an[1], an[2])

MSpec == MInit /\ [][MNext]_mvars

(* A task that is due runs, and a timer expires: asyncio's loop sees to both.
   Nothing is assumed of the bus or the module.                             *)
FairMSpec == MSpec /\ \A p \in Callers : WF_mvars(CallerStep(p))
-----------------------------------------------------------------------------
(* Every variable has its type, a write in hand has its bytes, and the queue of
   the lock has everyone who has not returned, once.                        *)
MTypeOK ==
    /\ eeprom \in [Addr -> Values]
    /\ \A i \in DOMAIN toModule : /\ toModule[i].addr \in Addr
                                 /\ toModule[i].addr + toModule[i].size <= MaxAddr + 1
    /\ \A i \in DOMAIN toBackend : toBackend[i].addr \in Addr /\ toBackend[i].data \in Bytes
    /\ DOMAIN cache \subseteq Addr /\ \A a \in DOMAIN cache : cache[a] \in Values
    /\ DOMAIN waiters \subseteq Addr /\ \A a \in DOMAIN waiters : waiters[a] \in Callers
    /\ pc \in [Callers -> PCs] /\ job \in [Callers -> Jobs]
    /\ \A p \in Callers : pos[p] \in 0 .. job[p].len
    /\ {lockQueue[i] : i \in DOMAIN lockQueue} = {p \in Callers : pc[p] # "idle"}
    /\ \A i, j \in DOMAIN lockQueue : lockQueue[i] = lockQueue[j] => i = j

(* The lock lets one request at a time out: who waits for a reply or pauses
   holds the lock, only that call has a waiter, so _request() never cancels a
   future somebody waits for.                                               *)
OneAtATime ==
    /\ \A p \in Callers : pc[p] \in {"waiting", "gap"} => Head(lockQueue) = p
    /\ \A a \in DOMAIN waiters : pc[waiters[a]] = "waiting"
                                 /\ a = job[waiters[a]].start + pos[waiters[a]]

(* The cache follows the EEPROM through timeouts, late replies, requests that
   were lost and replies nobody waits for: a cached byte that differs from the
   module's has its news on the way, or the news was lost.                  *)
CacheFollows ==
    \A a \in DOMAIN cache :
        \/ cache[a] = eeprom[a]
        \/ a \in stale
        \/ \E i \in DOMAIN toBackend : a \in Covers(toBackend[i].addr, Len(toBackend[i].data))

(* The step in which p's call ends well over the bus. *)
Finishes(p) == pc[p] \in {"waiting", "gap"} /\ pc'[p] = "idle" /\ outcome'[p] = "ok"

Agrees(p) == LET j == job[p]
             IN  Slice(eeprom, j.start, j.len) = IF j.op = "write" THEN j.data ELSE out'[p]

(* With only its own requests under way a call does what it says, block by
   block: the bytes written are in the EEPROM all together, and the bytes read
   are what it holds, none missing, of one moment.                          *)
ConfirmedWhenQuiet == [][\A p \in Callers : Finishes(p) /\ quiet[p] => Agrees(p)]_mvars

(* Every call ends, whatever is lost: none keeps the lock for ever. *)
CallsReturn == \A p \in Callers : pc[p] # "idle" ~> pc[p] = "idle"
=============================================================================
