---------------------------- MODULE Memory_proofs ----------------------------
(***************************************************************************)
(* Proofs about MemoryBackend, for every number of tasks, addresses, block *)
(* size, calls, losses and loader requests, and about the action tables    *)
(* above it (ActionTable), for every number of slots, channels, tasks,     *)
(* operations and timeouts.                                                *)
(*                                                                         *)
(* The inductive invariant of the backend has two halves: CallInv, what    *)
(* the lock, the waiters and the positions of the calls have to do with    *)
(* each other, and BusInv, what the messages under way say of the EEPROM   *)
(* and the cache.                                                          *)
(*                                                                         *)
(* A table uses the backend as MemoryBackend says, so that the backend's   *)
(* invariant holds under it; on top of it TInv relates the list, the       *)
(* tasks' requests and the EEPROM, on a bus that loses nothing and for     *)
(* callers that keep a reload apart from other operations.                 *)
(***************************************************************************)
EXTENDS ActionTable, FiniteSetTheorems, WellFoundedInduction, TLAPS

(* Messages as the protocol forms them: inside the memory, with as many bytes
   as they announce.                                                        *)
Req == {r \in [op : {"read", "write"}, addr : Addr, size : Nat, data : Seq(Values)] :
            /\ r.addr + r.size <= MaxAddr + 1
            /\ r.op = "write" => Len(r.data) = r.size}
Rep == {m \in [addr : Addr, data : Seq(Values)] : m.addr + Len(m.data) <= MaxAddr + 1}

(* A call that has not its lock has done nothing yet; one that waits has asked
   for something that is left to do.                                        *)
Progress ==
    /\ pc \in [Callers -> PCs] /\ job \in [Callers -> Jobs] /\ pos \in [Callers -> Nat]
    /\ \A p \in Callers : /\ pos[p] <= job[p].len
                          /\ pc[p] \in {"idle", "lock"} => pos[p] = 0
                          /\ pc[p] = "waiting" => pos[p] < job[p].len

(* The queue of the lock has everyone who has not returned, once. *)
Queued ==
    /\ lockQueue \in Seq(Callers)
    /\ {lockQueue[i] : i \in DOMAIN lockQueue} = {p \in Callers : pc[p] # "idle"}
    /\ \A i, j \in DOMAIN lockQueue : lockQueue[i] = lockQueue[j] => i = j

WaiterTypes == DOMAIN waiters \subseteq Addr /\ \A a \in DOMAIN waiters : waiters[a] \in Callers

CallInv == Progress /\ Queued /\ WaiterTypes /\ OneAtATime

BusTypes ==
    /\ eeprom \in [Addr -> Values] /\ toModule \in Seq(Req) /\ toBackend \in Seq(Rep)
    /\ DOMAIN cache \subseteq Addr /\ \A a \in DOMAIN cache : cache[a] \in Values

Tells(i, a) == a \in Covers(toBackend[i].addr, Len(toBackend[i].data))

(* The last reply under way that covers an address has its present content. *)
News == \A a \in Addr, i \in DOMAIN toBackend :
    (Tells(i, a) /\ \A j \in DOMAIN toBackend : j > i => ~Tells(j, a))
        => toBackend[i].data[a - toBackend[i].addr + 1] = eeprom[a]

BusInv == BusTypes /\ News /\ CacheFollows

MInv == CallInv /\ BusInv

callState == <<pc, job, pos, lockQueue, waiters>>
busState  == <<eeprom, toBackend, cache, stale>>
-----------------------------------------------------------------------------
(* A new backend satisfies the invariant. *)
LEMMA InitInv == MInit => MInv
<1> SUFFICES ASSUME MInit PROVE MInv OBVIOUS
<1> USE DEF MInit
<1>1. job \in [Callers -> Jobs]
  <2>1. (CHOOSE j \in Jobs : TRUE) \in Jobs BY JobsAssumption
  <2>2. QED BY <2>1
<1>2. Progress BY <1>1, JobsAssumption, SizeAssumption DEF Progress, PCs, Job
<1>3. Queued BY DEF Queued
<1>4. WaiterTypes /\ OneAtATime BY DEF WaiterTypes, OneAtATime
<1>5. BusTypes BY ContentsAssumption DEF BusTypes
<1>6. News /\ CacheFollows BY DEF News, CacheFollows
<1>7. QED BY <1>2, <1>3, <1>4, <1>5, <1>6 DEF MInv, CallInv, BusInv

(* A request stays inside its job and inside the memory. *)
LEMMA RequestFact ==
    ASSUME NEW j \in Jobs, NEW n \in Nat, n < j.len
    PROVE  /\ Chunk(j, n) \in Nat \ {0} /\ n + Chunk(j, n) <= j.len
           /\ Request(j, n) \in Req /\ Request(j, n).addr = j.start + n
<1> DEFINE k == Chunk(j, n)
<1>1. j \in Job /\ j.start + j.len <= MaxAddr + 1 /\ (j.op = "write" => Len(j.data) = j.len)
  BY JobsAssumption
<1>2. /\ j.op \in {"read", "write"} /\ j.start \in Nat /\ j.len \in Nat /\ j.data \in Bytes
      /\ MaxAddr \in Nat
  BY <1>1, SizeAssumption DEF Job, Addr
<1>3. j.data \in Seq(Values)
  BY <1>2 DEF Bytes
<1>4. k \in Nat \ {0} /\ n + k <= j.len
  BY <1>2, SizeAssumption DEF Chunk
<1>5. j.start + n \in Addr /\ j.start + n + k <= MaxAddr + 1
  BY <1>1, <1>2, <1>4 DEF Addr
<1>6. CASE j.op = "read"
  <2>1. Request(j, n) = [op |-> "read", addr |-> j.start + n, size |-> k, data |-> <<>>]
    BY <1>6 DEF Request
  <2>2. QED BY <2>1, <1>4, <1>5 DEF Req
<1>7. CASE j.op = "write"
  <2> DEFINE d == SubSeq(j.data, n + 1, n + k)
  <2>1. Request(j, n) = [op |-> "write", addr |-> j.start + n, size |-> k, data |-> d]
    BY <1>7 DEF Request
  <2>2. Len(j.data) = j.len BY <1>1, <1>7
  <2>3. d \in Seq(Values) /\ Len(d) = k BY <1>3, <1>4, <2>2, <1>2
  <2>4. QED BY <2>1, <2>3, <1>4, <1>5 DEF Req
<1>8. QED BY <1>2, <1>6, <1>7
-----------------------------------------------------------------------------
(* Whoever waits for a reply or pauses is the head of the lock's queue, so that
   while p is the head only p may have a waiter.                            *)
LEMMA OthersQuiet ==
    ASSUME CallInv, NEW p \in Callers, lockQueue # <<>>, Head(lockQueue) = p
    PROVE  /\ \A q \in Callers : q # p => pc[q] \notin {"waiting", "gap"}
           /\ \A a \in DOMAIN waiters : waiters[a] = p
           /\ Unregister(p) = <<>> /\ DOMAIN Unregister(p) = {}
<1>1. \A q \in Callers : q # p => pc[q] \notin {"waiting", "gap"}
  BY DEF CallInv, OneAtATime
<1>2. \A a \in DOMAIN waiters : waiters[a] = p
  BY <1>1 DEF CallInv, OneAtATime, WaiterTypes
<1>3. DOMAIN waiters \ {a \in DOMAIN waiters : waiters[a] = p} = {}
  BY <1>2
<1>4. QED BY <1>1, <1>2, <1>3 DEF Unregister, Without

(* The head of the lock's queue sends a request. *)
LEMMA AskInv ==
    ASSUME CallInv, NEW p \in Callers, lockQueue # <<>>, Head(lockQueue) = p, pc[p] # "idle",
           NEW n \in Nat, n < job[p].len, Ask(p, n), UNCHANGED <<lockQueue, job>>
    PROVE  CallInv' /\ \E r \in Req : toModule' = Append(toModule, r)
<1> DEFINE r == Request(job[p], n)
<1>1. job[p] \in Jobs /\ job[p].len \in Nat
  BY JobsAssumption DEF CallInv, Progress, Job
<1>2. r \in Req /\ r.addr = job[p].start + n /\ r.addr \in Addr
  BY <1>1, RequestFact DEF Req
<1>3. /\ waiters' = [a \in {r.addr} |-> p]
  BY OthersQuiet DEF Ask
<1>4. /\ pc' = [pc EXCEPT ![p] = "waiting"] /\ pos' = [pos EXCEPT ![p] = n]
      /\ toModule' = Append(toModule, r)
  BY DEF Ask
<1>5. Progress'
  BY <1>1, <1>4 DEF CallInv, Progress, PCs
<1>6. Queued'
  BY <1>4 DEF CallInv, Queued, Progress
<1>7. WaiterTypes' BY <1>2, <1>3 DEF WaiterTypes
<1>8. OneAtATime'
  <2>1. \A q \in Callers : pc'[q] \in {"waiting", "gap"} => q = p
    BY <1>4, OthersQuiet DEF CallInv, Progress
  <2>2. pc'[p] = "waiting" /\ pos'[p] = n BY <1>4 DEF CallInv, Progress
  <2>3. QED BY <1>2, <1>3, <2>1, <2>2 DEF OneAtATime
<1>9. QED BY <1>2, <1>4, <1>5, <1>6, <1>7, <1>8 DEF CallInv

(* The head of the lock's queue returns. *)
LEMMA ReturnInv ==
    ASSUME CallInv, NEW p \in Callers, lockQueue # <<>>, Head(lockQueue) = p,
           NEW how, Return(p, how), UNCHANGED job
    PROVE  CallInv'
<1>1. /\ pc' = [pc EXCEPT ![p] = "idle"] /\ pos' = [pos EXCEPT ![p] = 0]
      /\ lockQueue' = Tail(lockQueue) /\ waiters' = <<>> /\ DOMAIN waiters' = {}
  BY OthersQuiet DEF Return
<1>2. Progress'
  BY <1>1, JobsAssumption DEF CallInv, Progress, PCs, Job
<1>3. Queued'
  <2>1. /\ lockQueue \in Seq(Callers) /\ Len(lockQueue) \in Nat \ {0} /\ lockQueue[1] = p
        /\ lockQueue' \in Seq(Callers) /\ DOMAIN lockQueue' = 1 .. Len(lockQueue) - 1
        /\ DOMAIN lockQueue = 1 .. Len(lockQueue)
        /\ \A i \in DOMAIN lockQueue' : i + 1 \in DOMAIN lockQueue /\ lockQueue'[i] = lockQueue[i + 1]
        /\ \A i \in DOMAIN lockQueue : i = 1 \/ (i - 1 \in DOMAIN lockQueue' /\ lockQueue'[i - 1] = lockQueue[i])
    BY <1>1 DEF CallInv, Queued
  <2>2. \A i, j \in DOMAIN lockQueue' : lockQueue'[i] = lockQueue'[j] => i = j
    BY <2>1 DEF CallInv, Queued
  <2>3. ASSUME NEW i \in DOMAIN lockQueue'
        PROVE  lockQueue'[i] \in Callers /\ pc'[lockQueue'[i]] # "idle"
    <3>1. lockQueue'[i] # p
      <4>1. i \in Nat \ {0} /\ 1 \in DOMAIN lockQueue /\ i + 1 # 1 BY <2>1
      <4>2. lockQueue[i + 1] # lockQueue[1] BY <4>1, <2>1 DEF CallInv, Queued
      <4>3. QED BY <4>2, <2>1
    <3>2. lockQueue[i + 1] \in {q \in Callers : pc[q] # "idle"} BY <2>1 DEF CallInv, Queued
    <3>3. QED BY <3>1, <3>2, <2>1, <1>1 DEF CallInv, Progress
  <2>4. ASSUME NEW q \in Callers, pc'[q] # "idle"
        PROVE  \E i \in DOMAIN lockQueue' : lockQueue'[i] = q
    <3>1. q # p /\ pc[q] # "idle" BY <2>4, <1>1 DEF CallInv, Progress
    <3>2. PICK i \in DOMAIN lockQueue : lockQueue[i] = q BY <3>1 DEF CallInv, Queued
    <3>3. QED BY <3>1, <3>2, <2>1
  <2>5. QED BY <2>1, <2>2, <2>3, <2>4 DEF Queued
<1>4. WaiterTypes' BY <1>1 DEF WaiterTypes
<1>5. OneAtATime'
  <2>1. \A q \in Callers : pc'[q] \notin {"waiting", "gap"}
    BY <1>1, OthersQuiet DEF CallInv, Progress
  <2>2. QED BY <2>1, <1>1 DEF OneAtATime
<1>6. QED BY <1>2, <1>3, <1>4, <1>5 DEF CallInv

(* The head of the lock's queue has n bytes of its job behind it. *)
LEMMA ProceedInv ==
    ASSUME CallInv, NEW p \in Callers, lockQueue # <<>>, Head(lockQueue) = p, pc[p] # "idle",
           NEW n \in Nat, n <= job[p].len, Proceed(p, n), UNCHANGED job
    PROVE  CallInv' /\ (toModule' = toModule \/ \E r \in Req : toModule' = Append(toModule, r))
<1>1. CASE n < job[p].len BY <1>1, AskInv DEF Proceed
<1>2. CASE ~(n < job[p].len) BY <1>2, ReturnInv DEF Proceed
<1>3. QED BY <1>1, <1>2

(* Who is past "lock" is the head of the lock's queue. *)
LEMMA HeadRuns ==
    ASSUME CallInv, NEW p \in Callers, pc[p] # "idle",
           pc[p] = "lock" => Head(lockQueue) = p
    PROVE  lockQueue # <<>> /\ Head(lockQueue) = p
<1>1. \E i \in DOMAIN lockQueue : lockQueue[i] = p BY DEF CallInv, Queued
<1>2. lockQueue # <<>> BY <1>1
<1>3. Head(lockQueue) = p BY DEF CallInv, OneAtATime, Progress, PCs
<1>4. QED BY <1>2, <1>3

(* A call is made: the caller joins the queue, or is served from the cache. *)
LEMMA CallJoins == ASSUME CallInv, NEW p \in Callers, NEW j \in Jobs, Call(p, j) PROVE CallInv'
<1>1. /\ pc[p] = "idle" /\ job' = [job EXCEPT ![p] = j] /\ pos' = pos /\ waiters' = waiters
      /\ \/ pc' = pc /\ lockQueue' = lockQueue
         \/ pc' = [pc EXCEPT ![p] = "lock"] /\ lockQueue' = Append(lockQueue, p)
  BY DEF Call
<1>2. Progress'
  <2>1. job' \in [Callers -> Jobs] /\ pos' \in [Callers -> Nat] BY <1>1 DEF CallInv, Progress
  <2>2. pc' \in [Callers -> PCs] BY <1>1 DEF CallInv, Progress, PCs
  <2>3. j.len \in Nat \ {0} BY JobsAssumption DEF Job
  <2>4. pos[p] = 0 BY <1>1 DEF CallInv, Progress
  <2>5. \A q \in Callers : q # p => pc'[q] = pc[q] /\ job'[q] = job[q]
    BY <1>1 DEF CallInv, Progress
  <2>6. pc'[p] \in {"idle", "lock"} /\ job'[p] = j BY <1>1 DEF CallInv, Progress
  <2>7. ASSUME NEW q \in Callers
        PROVE  /\ pos'[q] <= job'[q].len
               /\ pc'[q] \in {"idle", "lock"} => pos'[q] = 0
               /\ pc'[q] = "waiting" => pos'[q] < job'[q].len
    <3>1. CASE q = p BY <3>1, <2>3, <2>4, <2>6, <1>1
    <3>2. CASE q # p BY <3>2, <2>5, <1>1 DEF CallInv, Progress
    <3>3. QED BY <3>1, <3>2
  <2>8. QED BY <2>1, <2>2, <2>7 DEF Progress
<1>3. Queued'
  <2>1. CASE pc' = pc /\ lockQueue' = lockQueue BY <2>1 DEF CallInv, Queued
  <2>2. CASE pc' = [pc EXCEPT ![p] = "lock"] /\ lockQueue' = Append(lockQueue, p)
    <3>1. /\ lockQueue' \in Seq(Callers) /\ DOMAIN lockQueue = 1 .. Len(lockQueue)
          /\ DOMAIN lockQueue' = 1 .. Len(lockQueue) + 1 /\ Len(lockQueue) \in Nat
          /\ lockQueue'[Len(lockQueue) + 1] = p
          /\ \A i \in DOMAIN lockQueue : i \in DOMAIN lockQueue' /\ lockQueue'[i] = lockQueue[i]
          /\ \A i \in DOMAIN lockQueue' : i \in DOMAIN lockQueue \/ i = Len(lockQueue) + 1
      BY <2>2 DEF CallInv, Queued
    <3>2. \A i \in DOMAIN lockQueue : lockQueue[i] # p /\ lockQueue[i] \in Callers
      BY <1>1 DEF CallInv, Queued
    <3>3. \A i, k \in DOMAIN lockQueue' : lockQueue'[i] = lockQueue'[k] => i = k
      BY <3>1, <3>2 DEF CallInv, Queued
    <3>4. \A q \in Callers : pc'[q] # "idle" <=> (pc[q] # "idle" \/ q = p)
      BY <2>2, <1>1 DEF CallInv, Progress
    <3>5. \A i \in DOMAIN lockQueue' : lockQueue'[i] \in Callers /\ pc'[lockQueue'[i]] # "idle"
      BY <3>1, <3>2, <3>4 DEF CallInv, Queued
    <3>6. \A q \in Callers : pc'[q] # "idle" => \E i \in DOMAIN lockQueue' : lockQueue'[i] = q
      BY <3>1, <3>4 DEF CallInv, Queued
    <3>7. QED BY <3>1, <3>3, <3>5, <3>6 DEF Queued
  <2>3. QED BY <1>1, <2>1, <2>2
<1>4. WaiterTypes' BY <1>1 DEF CallInv, WaiterTypes
<1>5. OneAtATime'
  <2>1. \A q \in Callers : pc'[q] \in {"waiting", "gap"} => pc[q] = pc'[q] /\ q # p /\ job'[q] = job[q]
    BY <1>1 DEF CallInv, Progress
  <2>2. \A q \in Callers : pc[q] \in {"waiting", "gap"} => Head(lockQueue') = q
    <3>1. ASSUME NEW q \in Callers, pc[q] \in {"waiting", "gap"} PROVE Head(lockQueue') = q
      <4>1. lockQueue # <<>> /\ Head(lockQueue) = q BY <3>1, HeadRuns
      <4>2. Head(Append(lockQueue, p)) = Head(lockQueue) BY <4>1 DEF CallInv, Queued
      <4>3. QED BY <4>1, <4>2, <1>1
    <3>2. QED BY <3>1
  <2>3. \A a \in DOMAIN waiters : waiters[a] # p /\ waiters[a] \in Callers
    BY <1>1 DEF CallInv, OneAtATime, WaiterTypes
  <2>4. \A q \in Callers : q # p => pc'[q] = pc[q] /\ job'[q] = job[q]
    BY <1>1 DEF CallInv, Progress
  <2>5. QED BY <2>1, <2>2, <2>3, <2>4, <1>1 DEF CallInv, OneAtATime
<1>6. QED BY <1>2, <1>3, <1>4, <1>5 DEF CallInv

(* The steps of a call keep what its half of the invariant says, and send at
   most one request, well formed.                                           *)
LEMMA CallerStepInv ==
    ASSUME CallInv, NEW p \in Callers, CallerStep(p)
    PROVE  CallInv' /\ UNCHANGED busState
               /\ (toModule' = toModule \/ \E r \in Req : toModule' = Append(toModule, r))
<1>1. CASE Enter(p)
  <2>1. lockQueue # <<>> /\ Head(lockQueue) = p BY <1>1, HeadRuns DEF Enter
  <2>2. 0 < job[p].len BY JobsAssumption DEF CallInv, Progress, Job
  <2>3. CASE FromCache(job[p]) BY <1>1, <2>1, <2>3, ReturnInv DEF Enter, busState
  <2>4. CASE ~FromCache(job[p]) BY <1>1, <2>1, <2>2, <2>4, AskInv DEF Enter, busState
  <2>5. QED BY <2>3, <2>4
<1>2. CASE Wake(p)
  <2> DEFINE k == Chunk(job[p], pos[p])
             n == pos[p] + k
  <2>1. pc[p] = "waiting" /\ lockQueue # <<>> /\ Head(lockQueue) = p
    BY <1>2, HeadRuns DEF Wake
  <2>2. n \in Nat /\ n <= job[p].len /\ job[p].len \in Nat
    BY <2>1, RequestFact, JobsAssumption DEF CallInv, Progress, Job
  <2>3. CASE job[p].op = "write" /\ k = 1
    <3>1. /\ pc' = [pc EXCEPT ![p] = "gap"] /\ pos' = [pos EXCEPT ![p] = n] /\ toModule' = toModule
          /\ waiters' = <<>> /\ DOMAIN waiters' = {} /\ UNCHANGED <<lockQueue, job, busState>>
      BY <1>2, <2>1, <2>3, OthersQuiet DEF Wake, busState
    <3>2. Progress' BY <3>1, <2>1, <2>2 DEF CallInv, Progress, PCs
    <3>3. Queued' BY <3>1, <2>1 DEF CallInv, Queued, Progress
    <3>4. WaiterTypes' BY <3>1 DEF WaiterTypes
    <3>5. OneAtATime' BY <3>1, <2>1, OthersQuiet DEF OneAtATime, CallInv, Progress
    <3>6. QED BY <3>1, <3>2, <3>3, <3>4, <3>5 DEF CallInv
  <2>4. CASE ~(job[p].op = "write" /\ k = 1)
    BY <1>2, <2>1, <2>2, <2>4, ProceedInv DEF Wake, busState
  <2>5. QED BY <2>3, <2>4
<1>3. CASE GapOver(p)
  <2>1. pc[p] = "gap" /\ lockQueue # <<>> /\ Head(lockQueue) = p BY <1>3, HeadRuns DEF GapOver
  <2>2. pos[p] \in Nat /\ pos[p] <= job[p].len BY DEF CallInv, Progress
  <2>3. QED BY <1>3, <2>1, <2>2, ProceedInv DEF GapOver, busState
<1>4. CASE Timeout(p)
  <2>1. lockQueue # <<>> /\ Head(lockQueue) = p BY <1>4, HeadRuns DEF Timeout
  <2>2. QED BY <1>4, <2>1, ReturnInv DEF Timeout, busState
<1>5. QED BY <1>1, <1>2, <1>3, <1>4 DEF CallerStep
-----------------------------------------------------------------------------
(* Everything but a reply's arrival, loss or making leaves what is under way. *)
LEMMA BusStutters ==
    ASSUME BusInv, UNCHANGED <<eeprom, toBackend, stale>>, toModule' \in Seq(Req),
           DOMAIN cache' \subseteq DOMAIN cache, \A a \in DOMAIN cache' : cache'[a] = cache[a]
    PROVE  BusInv'
<1>1. BusTypes' BY DEF BusInv, BusTypes
<1>2. News' BY DEF BusInv, News, Tells
<1>3. CacheFollows' BY DEF BusInv, CacheFollows
<1>4. QED BY <1>1, <1>2, <1>3 DEF BusInv

(* The first reply leaves the queue; what it told is told by another one, or
   nobody else tells of these addresses.                                    *)
LEMMA HeadLeaves ==
    ASSUME BusInv, toBackend # <<>>, toBackend' = Tail(toBackend), UNCHANGED <<eeprom, toModule>>
    PROVE  LET m == Head(toBackend)
               S == Covers(m.addr, Len(m.data))
           IN  /\ m \in Rep /\ toBackend' \in Seq(Rep) /\ News'
               /\ \A a \in Addr : (\E i \in DOMAIN toBackend : Tells(i, a))
                       => a \in S \/ \E i \in DOMAIN toBackend' : Tells(i, a)'
               /\ \A a \in S : \/ \E i \in DOMAIN toBackend' : Tells(i, a)'
                               \/ m.data[a - m.addr + 1] = eeprom[a]
<1> DEFINE m == Head(toBackend)
           S == Covers(m.addr, Len(m.data))
<1>1. /\ toBackend \in Seq(Rep) /\ m = toBackend[1] /\ m \in Rep /\ toBackend' \in Seq(Rep)
      /\ DOMAIN toBackend = 1 .. Len(toBackend) /\ Len(toBackend) \in Nat \ {0}
      /\ DOMAIN toBackend' = 1 .. Len(toBackend) - 1
      /\ \A i \in DOMAIN toBackend' : i + 1 \in DOMAIN toBackend /\ toBackend'[i] = toBackend[i + 1]
      /\ \A i \in DOMAIN toBackend : i = 1 \/ (i - 1 \in DOMAIN toBackend' /\ toBackend'[i - 1] = toBackend[i])
  BY DEF BusInv, BusTypes
<1>2. \A a \in Addr : /\ \A i \in DOMAIN toBackend' : Tells(i, a)' <=> Tells(i + 1, a)
                      /\ Tells(1, a) <=> a \in S
  BY <1>1 DEF Tells
<1>3. News'
  <2> SUFFICES ASSUME NEW a \in Addr, NEW i \in DOMAIN toBackend', Tells(i, a)',
                      \A j \in DOMAIN toBackend' : j > i => ~Tells(j, a)'
               PROVE  toBackend'[i].data[a - toBackend'[i].addr + 1] = eeprom[a]
    BY DEF News
  <2>1. i \in Nat /\ i + 1 \in DOMAIN toBackend /\ Tells(i + 1, a) BY <1>1, <1>2
  <2>2. ASSUME NEW j \in DOMAIN toBackend, j > i + 1 PROVE ~Tells(j, a)
    <3>1. j - 1 \in DOMAIN toBackend' /\ j - 1 > i /\ (j - 1) + 1 = j BY <2>1, <2>2, <1>1
    <3>2. QED BY <3>1, <1>2
  <2>3. QED BY <2>1, <2>2, <1>1 DEF BusInv, News
<1>4. ASSUME NEW a \in Addr, NEW i \in DOMAIN toBackend, Tells(i, a)
      PROVE  a \in S \/ \E k \in DOMAIN toBackend' : Tells(k, a)'
  <2>1. CASE i = 1 BY <2>1, <1>4, <1>2
  <2>2. CASE i # 1
    <3>1. i - 1 \in DOMAIN toBackend' /\ (i - 1) + 1 = i BY <2>2, <1>1
    <3>2. QED BY <3>1, <1>4, <1>2
  <2>3. QED BY <2>1, <2>2
<1>5. ASSUME NEW a \in S, ~\E k \in DOMAIN toBackend' : Tells(k, a)'
      PROVE  m.data[a - m.addr + 1] = eeprom[a]
  <2>1. a \in Addr /\ 1 \in DOMAIN toBackend /\ Tells(1, a) BY <1>1, <1>2 DEF Covers
  <2>2. ASSUME NEW j \in DOMAIN toBackend, j > 1 PROVE ~Tells(j, a)
    <3>1. j - 1 \in DOMAIN toBackend' /\ (j - 1) + 1 = j BY <2>2, <1>1
    <3>2. QED BY <3>1, <1>2, <1>5, <2>1
  <2>3. QED BY <2>1, <2>2, <1>1 DEF BusInv, News
<1>6. QED BY <1>1, <1>3, <1>4, <1>5

(* A reply arrives. *)
LEMMA FeedInv == ASSUME BusInv, Feed PROVE BusInv'
<1> DEFINE m == Head(toBackend)
           S == Covers(m.addr, Len(m.data))
<1>1. /\ toBackend # <<>> /\ toBackend' = Tail(toBackend) /\ UNCHANGED <<eeprom, toModule>>
      /\ stale' = stale \ S
      /\ cache' = [a \in DOMAIN cache \cup S |-> IF a \in S THEN m.data[a - m.addr + 1] ELSE cache[a]]
  BY DEF Feed
<1>2. /\ m \in Rep /\ toBackend' \in Seq(Rep) /\ News'
      /\ \A a \in Addr : (\E i \in DOMAIN toBackend : Tells(i, a))
             => a \in S \/ \E i \in DOMAIN toBackend' : Tells(i, a)'
      /\ \A a \in S : \/ \E i \in DOMAIN toBackend' : Tells(i, a)'
                      \/ m.data[a - m.addr + 1] = eeprom[a]
  BY <1>1, HeadLeaves
<1>3. S \subseteq Addr BY DEF Covers
<1>4. \A a \in S : m.data[a - m.addr + 1] \in Values
  <2>1. m.addr \in Nat /\ m.data \in Seq(Values) BY <1>2 DEF Rep, Addr
  <2>2. ASSUME NEW a \in S PROVE a - m.addr + 1 \in 1 .. Len(m.data)
    BY <2>1, SizeAssumption DEF Covers, Addr
  <2>3. QED BY <2>1, <2>2
<1>5. BusTypes' BY <1>1, <1>2, <1>3, <1>4 DEF BusInv, BusTypes
<1>6. ASSUME NEW a \in DOMAIN cache'
      PROVE  \/ cache'[a] = eeprom'[a] \/ a \in stale'
             \/ \E i \in DOMAIN toBackend' : Tells(i, a)'
  <2>1. CASE a \in S BY <2>1, <1>1, <1>2
  <2>2. CASE a \notin S
    <3>1. a \in DOMAIN cache /\ cache'[a] = cache[a] /\ a \in Addr
      BY <2>2, <1>1 DEF BusInv, BusTypes
    <3>2. cache[a] = eeprom[a] \/ a \in stale \/ \E i \in DOMAIN toBackend : Tells(i, a)
      BY <3>1 DEF BusInv, CacheFollows, Tells
    <3>3. QED BY <3>1, <3>2, <2>2, <1>1, <1>2
  <2>3. QED BY <2>1, <2>2
<1>7. CacheFollows' BY <1>6 DEF CacheFollows, Tells
<1>8. QED BY <1>2, <1>5, <1>7 DEF BusInv

(* A reply is lost. *)
LEMMA LoseReplyInv == ASSUME BusInv, LoseReply PROVE BusInv'
<1> DEFINE m == Head(toBackend)
           S == Covers(m.addr, Len(m.data))
<1>1. /\ toBackend # <<>> /\ toBackend' = Tail(toBackend) /\ UNCHANGED <<eeprom, toModule, cache>>
      /\ stale' = stale \cup S
  BY DEF LoseReply
<1>2. /\ toBackend' \in Seq(Rep) /\ News'
      /\ \A a \in Addr : (\E i \in DOMAIN toBackend : Tells(i, a))
             => a \in S \/ \E i \in DOMAIN toBackend' : Tells(i, a)'
  BY <1>1, HeadLeaves
<1>3. BusTypes' BY <1>1, <1>2 DEF BusInv, BusTypes
<1>4. ASSUME NEW a \in DOMAIN cache'
      PROVE  \/ cache'[a] = eeprom'[a] \/ a \in stale'
             \/ \E i \in DOMAIN toBackend' : Tells(i, a)'
  <2>1. a \in DOMAIN cache /\ a \in Addr BY <1>1 DEF BusInv, BusTypes
  <2>2. cache[a] = eeprom[a] \/ a \in stale \/ \E i \in DOMAIN toBackend : Tells(i, a)
    BY <2>1 DEF BusInv, CacheFollows, Tells
  <2>3. QED BY <2>1, <2>2, <1>1, <1>2
<1>5. CacheFollows' BY <1>4 DEF CacheFollows, Tells
<1>6. QED BY <1>2, <1>3, <1>5 DEF BusInv

(* The module carries out a request: its reply is the last one under way and
   tells of every address that changes.                                     *)
LEMMA AnswerInv == ASSUME BusInv, ModuleAnswers PROVE BusInv'
<1> DEFINE r == Head(toModule)
           S == Covers(r.addr, r.size)
           d == Slice(eeprom', r.addr, r.size)
           m == [addr |-> r.addr, data |-> d]
<1>1. /\ toModule # <<>> /\ toModule' = Tail(toModule) /\ UNCHANGED <<cache, stale>>
      /\ eeprom' = [a \in Addr |-> IF r.op = "write" /\ a \in S THEN r.data[a - r.addr + 1]
                                   ELSE eeprom[a]]
      /\ toBackend' = Append(toBackend, m)
  BY DEF ModuleAnswers, callVars
<1>2. /\ r \in Req /\ toModule' \in Seq(Req) /\ r.addr \in Nat /\ r.size \in Nat /\ MaxAddr \in Nat
      /\ r.data \in Seq(Values) /\ r.addr + r.size <= MaxAddr + 1
      /\ r.op = "write" => Len(r.data) = r.size
  BY <1>1, SizeAssumption DEF BusInv, BusTypes, Req, Addr
<1>3. eeprom' \in [Addr -> Values]
  <2>1. ASSUME NEW a \in S, r.op = "write" PROVE r.data[a - r.addr + 1] \in Values
    <3>1. a - r.addr + 1 \in 1 .. Len(r.data) BY <2>1, <1>2 DEF Covers, Addr
    <3>2. QED BY <3>1, <1>2
  <2>2. QED BY <2>1, <1>1 DEF BusInv, BusTypes
<1>4. /\ d \in Seq(Values) /\ Len(d) = r.size
      /\ \A a \in S : d[a - r.addr + 1] = eeprom'[a]
  <2>1. \A i \in 1 .. r.size : r.addr + i - 1 \in Addr BY <1>2 DEF Addr
  <2>2. d \in [1 .. r.size -> Values] BY <2>1, <1>3 DEF Slice
  <2>3. d \in Seq(Values) /\ Len(d) = r.size BY SMTT(30), <2>2, <1>2
  <2>4. ASSUME NEW a \in S PROVE d[a - r.addr + 1] = eeprom'[a]
    <3>1. a - r.addr + 1 \in 1 .. r.size /\ r.addr + (a - r.addr + 1) - 1 = a
      BY <1>2 DEF Covers, Addr
    <3>2. QED BY <3>1 DEF Slice
  <2>5. QED BY <2>3, <2>4
<1>5. m \in Rep BY <1>2, <1>4 DEF Rep, Req
<1>6. BusTypes' BY <1>1, <1>2, <1>3, <1>5 DEF BusInv, BusTypes
<1>7. /\ DOMAIN toBackend = 1 .. Len(toBackend) /\ Len(toBackend) \in Nat
      /\ DOMAIN toBackend' = 1 .. Len(toBackend) + 1 /\ toBackend'[Len(toBackend) + 1] = m
      /\ \A i \in DOMAIN toBackend : i \in DOMAIN toBackend' /\ toBackend'[i] = toBackend[i]
  BY <1>1, <1>5 DEF BusInv, BusTypes
<1>8. /\ \A k \in Nat, a \in Addr : k = Len(toBackend) + 1 => (Tells(k, a)' <=> a \in S)
      /\ \A a \in Addr, i \in DOMAIN toBackend : Tells(i, a)' <=> Tells(i, a)
  <2>1. m.addr = r.addr /\ Len(m.data) = r.size BY <1>4
  <2>2. ASSUME NEW k \in Nat, NEW a \in Addr, k = Len(toBackend) + 1
        PROVE  Tells(k, a)' <=> a \in S
    <3>1. toBackend'[k] = m BY <2>2, <1>7
    <3>2. Covers(toBackend'[k].addr, Len(toBackend'[k].data)) = S BY <3>1, <2>1
    <3>3. QED BY <3>2 DEF Tells
  <2>3. ASSUME NEW i \in DOMAIN toBackend, NEW a \in Addr PROVE Tells(i, a)' <=> Tells(i, a)
    BY <1>7 DEF Tells
  <2>4. QED BY <2>2, <2>3
<1>9. \A a \in Addr \ S : eeprom'[a] = eeprom[a] BY <1>1
<1>10. News'
  <2> SUFFICES ASSUME NEW a \in Addr, NEW i \in DOMAIN toBackend', Tells(i, a)',
                      \A j \in DOMAIN toBackend' : j > i => ~Tells(j, a)'
               PROVE  toBackend'[i].data[a - toBackend'[i].addr + 1] = eeprom'[a]
    BY DEF News
  <2>0. i \in Nat BY <1>7
  <2>1. CASE i = Len(toBackend) + 1
    <3>1. toBackend'[i] = m /\ a \in S BY <2>0, <2>1, <1>7, <1>8
    <3>2. QED BY <3>1, <1>4
  <2>2. CASE i # Len(toBackend) + 1
    <3>1. i \in DOMAIN toBackend /\ Len(toBackend) + 1 \in DOMAIN toBackend'
          /\ Len(toBackend) + 1 > i
      BY <2>2, <1>7
    <3>2. a \notin S
      <4>1. PICK k \in Nat : k = Len(toBackend) + 1 BY <1>7
      <4>2. ~Tells(k, a)' BY <4>1, <3>1
      <4>3. QED BY <4>1, <4>2, <1>8
    <3>3. \A j \in DOMAIN toBackend : j > i => ~Tells(j, a) BY <1>7, <1>8
    <3>4. QED BY <3>1, <3>2, <3>3, <1>7, <1>8, <1>9 DEF BusInv, News
  <2>3. QED BY <2>1, <2>2
<1>11. ASSUME NEW a \in DOMAIN cache'
       PROVE  \/ cache'[a] = eeprom'[a] \/ a \in stale'
              \/ \E i \in DOMAIN toBackend' : Tells(i, a)'
  <2>1. a \in DOMAIN cache /\ a \in Addr BY <1>1 DEF BusInv, BusTypes
  <2>2. CASE a \in S
    <3>1. PICK k \in Nat : k = Len(toBackend) + 1 BY <1>7
    <3>2. k \in DOMAIN toBackend' /\ Tells(k, a)' BY <3>1, <2>1, <2>2, <1>7, <1>8
    <3>3. QED BY <3>2
  <2>3. CASE a \notin S
    <3>1. cache[a] = eeprom[a] \/ a \in stale \/ \E i \in DOMAIN toBackend : Tells(i, a)
      BY <2>1 DEF BusInv, CacheFollows, Tells
    <3>2. QED BY <3>1, <2>1, <2>3, <1>1, <1>7, <1>8, <1>9
  <2>4. QED BY <2>2, <2>3
<1>12. CacheFollows' BY <1>11 DEF CacheFollows, Tells
<1>13. QED BY <1>6, <1>10, <1>12 DEF BusInv
-----------------------------------------------------------------------------
(* Whatever leaves lock, waiters and calls alone keeps what is said of them. *)
LEMMA CallStutters == ASSUME CallInv, UNCHANGED callState PROVE CallInv'
<1>1. UNCHANGED <<pc, job, pos, lockQueue, waiters>> BY DEF callState
<1>2. Progress' /\ Queued' /\ WaiterTypes' BY <1>1 DEF CallInv, Progress, Queued, WaiterTypes
<1>3. OneAtATime' BY <1>1 DEF CallInv, OneAtATime
<1>4. QED BY <1>2, <1>3 DEF CallInv

(* Every step keeps the invariant of the backend. *)
LEMMA NextInv == MInv /\ [MNext]_mvars => MInv'
<1> SUFFICES ASSUME MInv, [MNext]_mvars PROVE MInv' OBVIOUS
<1>1. CallInv /\ BusInv /\ toModule \in Seq(Req) BY DEF MInv, BusInv, BusTypes
<1>2. ASSUME NEW p \in Callers, NEW j \in Jobs, Call(p, j) PROVE MInv'
  <2>1. CallInv' BY <1>1, <1>2, CallJoins
  <2>2. UNCHANGED <<eeprom, toBackend, stale, toModule, cache>> BY <1>2 DEF Call
  <2>3. BusInv' BY <1>1, <2>2, BusStutters
  <2>4. QED BY <2>1, <2>3 DEF MInv
<1>3. ASSUME NEW p \in Callers, CallerStep(p) PROVE MInv'
  <2>1. /\ CallInv' /\ UNCHANGED busState
        /\ toModule' = toModule \/ \E r \in Req : toModule' = Append(toModule, r)
    BY <1>1, <1>3, CallerStepInv
  <2>2. UNCHANGED <<eeprom, toBackend, stale, cache>> /\ toModule' \in Seq(Req)
    BY <1>1, <2>1 DEF busState
  <2>3. BusInv' BY <1>1, <2>2, BusStutters
  <2>4. QED BY <2>1, <2>3 DEF MInv
<1>4. ASSUME NEW j \in Jobs, Invalidate(Covers(j.start, j.len)) PROVE MInv'
  <2>1. /\ UNCHANGED <<eeprom, toBackend, stale, toModule>> /\ UNCHANGED callState
        /\ DOMAIN cache' \subseteq DOMAIN cache /\ \A a \in DOMAIN cache' : cache'[a] = cache[a]
    BY <1>4 DEF Invalidate, Without, busVars, callVars, callState
  <2>2. CallInv' BY <1>1, <2>1, CallStutters
  <2>3. BusInv' BY <1>1, <2>1, BusStutters
  <2>4. QED BY <2>2, <2>3 DEF MInv
<1>5. CASE Feed
  <2>1. UNCHANGED callState BY <1>5 DEF Feed, callState
  <2>2. QED BY <1>1, <1>5, <2>1, CallStutters, FeedInv DEF MInv
<1>6. CASE ModuleAnswers
  <2>1. UNCHANGED callState BY <1>6 DEF ModuleAnswers, callVars, callState
  <2>2. QED BY <1>1, <1>6, <2>1, CallStutters, AnswerInv DEF MInv
<1>7. CASE LoseRequest
  <2>1. UNCHANGED callState /\ UNCHANGED <<eeprom, toBackend, stale, cache>> /\ toModule' \in Seq(Req)
    BY <1>1, <1>7 DEF LoseRequest, callVars, callState
  <2>2. QED BY <1>1, <2>1, CallStutters, BusStutters DEF MInv
<1>8. CASE LoseReply
  <2>1. UNCHANGED callState BY <1>8 DEF LoseReply, callVars, callState
  <2>2. QED BY <1>1, <1>8, <2>1, CallStutters, LoseReplyInv DEF MInv
<1>9. ASSUME NEW an \in Loadable, LoadMemory(an[1], an[2]) PROVE MInv'
  <2>1. UNCHANGED callState /\ UNCHANGED <<eeprom, toBackend, stale, cache>>
    BY <1>9 DEF LoadMemory, callState
  <2>2. [op |-> "read", addr |-> an[1], size |-> an[2], data |-> <<>>] \in Req
    BY SizeAssumption DEF Loadable, Req
  <2>3. toModule' \in Seq(Req) BY <1>1, <1>9, <2>2 DEF LoadMemory
  <2>4. QED BY <1>1, <2>1, <2>3, CallStutters, BusStutters DEF MInv
<1>10. CASE UNCHANGED mvars
  <2>1. UNCHANGED callState /\ UNCHANGED <<eeprom, toBackend, stale, cache, toModule>>
    BY <1>10 DEF mvars, callState
  <2>2. QED BY <1>1, <2>1, CallStutters, BusStutters DEF MInv
<1>11. QED BY <1>2, <1>3, <1>4, <1>5, <1>6, <1>7, <1>8, <1>9, <1>10 DEF MNext, CallerStep

(* The inductive invariant the theorems below follow from. *)
THEOREM MemoryInductive == MSpec => []MInv
BY InitInv, NextInv, PTL DEF MSpec

(* The invariant has the types of all variables in it. *)
LEMMA InvTypes == MInv => MTypeOK
<1> SUFFICES ASSUME MInv PROVE MTypeOK OBVIOUS
<1> USE SizeAssumption DEF MInv, CallInv, BusInv
<1>1. eeprom \in [Addr -> Values] /\ pc \in [Callers -> PCs] /\ job \in [Callers -> Jobs]
  BY DEF BusTypes, Progress
<1>2. \A i \in DOMAIN toModule : toModule[i].addr \in Addr
                                 /\ toModule[i].addr + toModule[i].size <= MaxAddr + 1
  BY DEF BusTypes, Req
<1>3. ASSUME NEW i \in DOMAIN toBackend PROVE toBackend[i].addr \in Addr /\ toBackend[i].data \in Bytes
  <2>1. toBackend[i] \in Rep BY DEF BusTypes
  <2>2. /\ toBackend[i].addr \in Nat /\ toBackend[i].data \in Seq(Values)
        /\ toBackend[i].addr + Len(toBackend[i].data) <= MaxAddr + 1
    BY <2>1 DEF Rep, Addr
  <2>3. Len(toBackend[i].data) \in 0 .. MaxAddr + 1 BY <2>2
  <2>4. toBackend[i].data \in [1 .. Len(toBackend[i].data) -> Values] BY <2>2
  <2>5. QED BY <2>1, <2>3, <2>4 DEF Bytes, Rep
<1>4. \A p \in Callers : pos[p] \in 0 .. job[p].len
  <2>1. \A j \in Jobs : j.len \in Nat BY JobsAssumption DEF Job
  <2>2. ASSUME NEW p \in Callers PROVE pos[p] \in 0 .. job[p].len
    <3>1. job[p] \in Jobs /\ pos[p] \in Nat /\ pos[p] <= job[p].len BY DEF Progress
    <3>2. job[p].len \in Nat BY <3>1, <2>1
    <3>3. QED BY <3>1, <3>2
  <2>3. QED BY <2>2
<1>5. QED BY <1>1, <1>2, <1>3, <1>4 DEF MTypeOK, BusTypes, WaiterTypes, Queued

(* Every variable of the memory backend has its type, whatever the memory, the
   jobs and the number of tasks.                                            *)
THEOREM MemoryTypes == MSpec => []MTypeOK
BY MemoryInductive, InvTypes, PTL

(* One request is out at a time: _request() never cancels a future somebody
   still waits for.                                                         *)
THEOREM LockHolds == MSpec => []OneAtATime
<1>1. MInv => OneAtATime BY DEF MInv, CallInv
<1>2. QED BY <1>1, MemoryInductive, PTL

(* The cache differs from the EEPROM only where a reply is still on its way or
   was lost, through any number of timeouts, late replies and losses.       *)
THEOREM CacheIsSound == MSpec => []CacheFollows
<1>1. MInv => CacheFollows BY DEF MInv, BusInv
<1>2. QED BY <1>1, MemoryInductive, PTL
-----------------------------------------------------------------------------
(* n bytes of job j are done: they are in the EEPROM e, or got has them from there. *)
Stands(j, e, got, n) ==
    IF j.op = "write" THEN \A i \in 1 .. n : e[j.start + i - 1] = j.data[i]
    ELSE got \in Seq(Values) /\ Len(got) = n /\ \A i \in 1 .. n : got[i] = e[j.start + i - 1]

(* The answer to the request of j after n bytes. *)
Answer(j, e, n) == Slice(e, j.start + n, Chunk(j, n))

(* Nothing is under way but p's request, or its answer, or the answer has arrived. *)
OnlyIts(p) ==
    LET told == job[p].op = "write" =>
                    Stands(job[p], eeprom, out[p], pos[p] + Chunk(job[p], pos[p]))
    IN  \/ /\ toModule = <<Request(job[p], pos[p])>> /\ toBackend = <<>> /\ reply[p] = <<>>
        \/ toModule = <<>> /\ toBackend = <<>> /\ reply[p] = <<>>
        \/ /\ toModule = <<>> /\ reply[p] = <<>> /\ told
           /\ toBackend = <<[addr |-> job[p].start + pos[p], data |-> Answer(job[p], eeprom, pos[p])]>>
        \/ /\ toModule = <<>> /\ toBackend = <<>> /\ told
           /\ reply[p] = <<Answer(job[p], eeprom, pos[p])>>

Undisturbed(p) ==
    /\ pc[p] \in {"waiting", "gap"}
    /\ Stands(job[p], eeprom, out[p], pos[p])
    /\ pc[p] = "waiting" => OnlyIts(p)
    /\ pc[p] = "gap" => toModule = <<>> /\ toBackend = <<>>

QuietInv ==
    /\ DOMAIN out = Callers /\ DOMAIN reply = Callers /\ DOMAIN quiet = Callers /\ DOMAIN outcome = Callers
    /\ \A p \in Callers : pc[p] = "lock" => out[p] = <<>>
    /\ \A p \in Callers : quiet[p] => Undisturbed(p)

(* A job stays inside the memory, and one that writes has a byte for each
   address.                                                                  *)
LEMMA JobFact ==
    ASSUME NEW j \in Jobs
    PROVE  /\ j.op \in {"read", "write"} /\ j.start \in Nat /\ j.len \in Nat \ {0} /\ j.data \in Seq(Values)
           /\ j.start + j.len <= MaxAddr + 1 /\ MaxAddr \in Nat
           /\ j.op = "write" => Len(j.data) = j.len
<1>1. j \in Job /\ j.start + j.len <= MaxAddr + 1 /\ (j.op = "write" => Len(j.data) = j.len)
  BY JobsAssumption
<1>2. j.data \in Bytes  BY <1>1 DEF Job
<1>3. QED  BY <1>1, <1>2, SizeAssumption DEF Job, Addr, Bytes

(* What the module answers is as long as was asked for. *)
LEMMA AnswerFact ==
    ASSUME NEW j \in Jobs, NEW n \in Nat, n < j.len, NEW e \in [Addr -> Values]
    PROVE  /\ Answer(j, e, n) \in Seq(Values) /\ Len(Answer(j, e, n)) = Chunk(j, n)
           /\ \A i \in 1 .. Chunk(j, n) : Answer(j, e, n)[i] = e[j.start + n + i - 1]
<1>1. PICK k \in Nat \ {0} : k = Chunk(j, n) /\ n + k <= j.len  BY RequestFact
<1>2. PICK b \in Nat : b = j.start + n  BY JobFact
<1>3. b + k <= MaxAddr + 1 /\ MaxAddr \in Nat
  <2>1. j.start \in Nat /\ j.len \in Nat /\ j.start + j.len <= MaxAddr + 1 /\ MaxAddr \in Nat  BY JobFact
  <2>2. QED  BY <1>1, <1>2, <2>1
<1>4. \A i \in 1 .. k : b + i - 1 \in Addr  BY <1>3 DEF Addr
<1>5. PICK d : d = Slice(e, b, k)  OBVIOUS
<1>6. d = [i \in 1 .. k |-> e[b + i - 1]]  BY <1>5 DEF Slice
<1>7. d \in [1 .. k -> Values]  BY <1>4, <1>6
<1>8. d \in Seq(Values) /\ Len(d) = k  BY <1>7
<1>9. \A i \in 1 .. k : d[i] = e[b + i - 1]  BY <1>6
<1>10. QED  BY <1>1, <1>2, <1>5, <1>8, <1>9 DEF Answer

(* A read that takes the answer, a write the module has carried out. *)
LEMMA ReadStands ==
    ASSUME NEW j \in Jobs, NEW n \in Nat, n < j.len, NEW e \in [Addr -> Values], NEW got, Stands(j, e, got, n),
           j.op = "read"
    PROVE  Stands(j, e, got \o Answer(j, e, n), n + Chunk(j, n))
<1>1. PICK k \in Nat \ {0} : k = Chunk(j, n) /\ n + k <= j.len  BY RequestFact
<1>2. PICK d : d = Answer(j, e, n)  OBVIOUS
<1>3. d \in Seq(Values) /\ Len(d) = k /\ \A i \in 1 .. k : d[i] = e[j.start + n + i - 1]
  BY <1>1, <1>2, AnswerFact
<1>4. got \in Seq(Values) /\ Len(got) = n /\ \A i \in 1 .. n : got[i] = e[j.start + i - 1]  BY DEF Stands
<1>5. PICK s : s = got \o d  OBVIOUS
<1>6. /\ s \in Seq(Values) /\ Len(s) = n + k
      /\ \A i \in 1 .. n + k : s[i] = IF i <= n THEN got[i] ELSE d[i - n]
  <2>1. got \in Seq(Values) /\ d \in Seq(Values)  BY <1>3, <1>4
  <2>2. /\ s \in Seq(Values) /\ Len(s) = Len(got) + Len(d)
        /\ \A i \in 1 .. Len(got) + Len(d) : s[i] = IF i <= Len(got) THEN got[i] ELSE d[i - Len(got)]
    BY <1>5, <2>1
  <2>3. Len(got) = n /\ Len(d) = k  BY <1>3, <1>4
  <2>4. QED  BY <2>2, <2>3
<1>7. ASSUME NEW i \in 1 .. n + k PROVE s[i] = e[j.start + i - 1]
  <2>1. CASE i <= n
    <3>1. i \in 1 .. n  BY <2>1
    <3>2. QED  BY <1>4, <1>6, <2>1, <3>1
  <2>2. CASE ~(i <= n)
    <3>1. i - n \in 1 .. k /\ j.start + n + (i - n) - 1 = j.start + i - 1  BY <2>2, JobFact
    <3>2. QED  BY <1>3, <1>6, <2>2, <3>1
  <2>3. QED  BY <2>1, <2>2
<1>8. QED  BY <1>1, <1>2, <1>5, <1>6, <1>7 DEF Stands

(* The module carries out the request of a call: what stood of the call
   stands, and a chunk that was written stands, too.                         *)
LEMMA WriteStands ==
    ASSUME NEW j \in Jobs, NEW n \in Nat, n < j.len, NEW e \in [Addr -> Values], NEW got, Stands(j, e, got, n),
           NEW r, r = Request(j, n),
           NEW f, f = [a \in Addr |-> IF r.op = "write" /\ a \in Covers(r.addr, r.size)
                                      THEN r.data[a - r.addr + 1] ELSE e[a]]
    PROVE  /\ Stands(j, f, got, n)
           /\ j.op = "write" => Stands(j, f, got, n + Chunk(j, n))
<1>1. PICK k \in Nat \ {0} : k = Chunk(j, n) /\ n + k <= j.len  BY RequestFact
<1>2. r = [op |-> j.op, addr |-> j.start + n, size |-> k,
           data |-> IF j.op = "read" THEN <<>> ELSE SubSeq(j.data, n + 1, n + k)]
  BY <1>1 DEF Request
<1>3. CASE j.op = "write"
  <2>1. PICK b \in Nat : b = j.start  BY JobFact
  <2>2. b + j.len <= MaxAddr + 1 /\ MaxAddr \in Nat /\ j.data \in Seq(Values) /\ Len(j.data) = j.len
        /\ j.len \in Nat
    BY <1>3, <2>1, JobFact
  <2>3. PICK d : d = SubSeq(j.data, n + 1, n + k)  OBVIOUS
  <2>4. \A i \in 1 .. k : d[i] = j.data[n + i]  BY <1>1, <2>2, <2>3
  <2>5. r.op = "write" /\ r.addr = b + n /\ r.size = k /\ r.data = d  BY <1>2, <1>3, <2>1, <2>3
  <2>6. \A i \in 1 .. n : e[b + i - 1] = j.data[i]  BY <1>3, <2>1 DEF Stands
  <2>7. ASSUME NEW i \in 1 .. n + k PROVE f[b + i - 1] = j.data[i]
    <3>1. b + i - 1 \in Addr  BY <1>1, <2>2 DEF Addr
    <3>2. CASE i <= n
      <4>1. b + i - 1 \notin Covers(b + n, k)  BY <3>2 DEF Covers
      <4>2. i \in 1 .. n  BY <3>2
      <4>3. QED  BY <2>5, <2>6, <3>1, <4>1, <4>2
    <3>3. CASE ~(i <= n)
      <4>1. b + i - 1 \in Covers(b + n, k)  BY <3>1, <3>3 DEF Covers
      <4>2. (b + i - 1) - (b + n) + 1 = i - n /\ i - n \in 1 .. k /\ n + (i - n) = i  BY <3>3
      <4>3. f[b + i - 1] = d[i - n]  BY <2>5, <3>1, <4>1, <4>2
      <4>4. QED  BY <2>4, <4>2, <4>3
    <3>4. QED  BY <3>2, <3>3
  <2>8. 1 .. n \subseteq 1 .. n + k  OBVIOUS
  <2>9. QED  BY <1>1, <1>3, <2>1, <2>7, <2>8 DEF Stands
<1>4. CASE j.op = "read"
  <2>1. \A a \in Addr : f[a] = e[a]  BY <1>2, <1>4
  <2>2. \A i \in 1 .. n : j.start + i - 1 \in Addr  BY JobFact DEF Addr
  <2>3. QED  BY <1>4, <2>1, <2>2 DEF Stands
<1>5. QED  BY <1>3, <1>4, JobFact

(* All of the job is done. *)
LEMMA WholeAgrees ==
    ASSUME NEW j \in Jobs, NEW e, NEW got, Stands(j, e, got, j.len)
    PROVE  Slice(e, j.start, j.len) = IF j.op = "write" THEN j.data ELSE got
<1>1. PICK l \in Nat : l = j.len  BY JobFact
<1>2. PICK s : s = IF j.op = "write" THEN j.data ELSE got  OBVIOUS
<1>3. s \in Seq(Values) /\ Len(s) = l /\ \A i \in 1 .. l : s[i] = e[j.start + i - 1]
  BY <1>1, <1>2, JobFact DEF Stands
<1>4. Slice(e, j.start, l) = [i \in 1 .. l |-> e[j.start + i - 1]]  BY DEF Slice
<1>5. s = [i \in 1 .. l |-> s[i]]  BY <1>3
<1>6. [i \in 1 .. l |-> s[i]] = [i \in 1 .. l |-> e[j.start + i - 1]]  BY <1>3
<1>7. QED  BY <1>1, <1>2, <1>4, <1>5, <1>6
-----------------------------------------------------------------------------
(* p goes on after n bytes with nothing under way: it asks for the next ones,
   alone, or it has done all of its job.                                    *)
LEMMA ProceedQuiet ==
    ASSUME MInv, QuietInv, NEW p \in Callers, pc[p] \in {"waiting", "gap"}, NEW n \in Nat, n <= job[p].len,
           Proceed(p, n), toModule = <<>>, toBackend = <<>>, Stands(job[p], eeprom, out'[p], n),
           UNCHANGED <<eeprom, toBackend, job>>
    PROVE  /\ quiet'[p] => Undisturbed(p)'
           /\ pc'[p] = "idle" => Stands(job[p], eeprom, out'[p], job[p].len)
<1>1. job[p] \in Jobs /\ pc \in [Callers -> PCs] /\ pos \in [Callers -> Nat]
  BY DEF MInv, CallInv, Progress
<1>2. DOMAIN reply = Callers /\ DOMAIN quiet = Callers  BY DEF QuietInv
<1>3. CASE n < job[p].len
  <2>1. Ask(p, n)  BY <1>3 DEF Proceed
  <2>2. pc'[p] = "waiting" /\ pos'[p] = n /\ reply'[p] = <<>>  BY <1>1, <1>2, <2>1 DEF Ask
  <2>3. toModule' = <<Request(job[p], n)>>  BY <2>1 DEF Ask
  <2>4. OnlyIts(p)'  BY <2>2, <2>3 DEF OnlyIts
  <2>5. Stands(job[p], eeprom, out[p], pos[p])'  BY <2>2
  <2>6. QED  BY <2>2, <2>4, <2>5 DEF Undisturbed
<1>4. CASE ~(n < job[p].len)
  <2>1. n = job[p].len  BY <1>1, <1>4, JobFact
  <2>2. Return(p, "ok")  BY <1>4 DEF Proceed
  <2>3. quiet'[p] = FALSE  BY <1>2, <2>2 DEF Return
  <2>4. QED  BY <2>1, <2>3
<1>5. QED  BY <1>3, <1>4

(* The reply that has arrived is what p takes. *)
LEMMA WakeQuiet ==
    ASSUME MInv, QuietInv, NEW p \in Callers, quiet[p], Wake(p)
    PROVE  /\ toModule = <<>> /\ toBackend = <<>>
           /\ Stands(job[p], eeprom, out'[p], pos[p] + Chunk(job[p], pos[p]))
<1>1. job[p] \in Jobs /\ pos[p] \in Nat /\ pos[p] < job[p].len /\ eeprom \in [Addr -> Values]
  BY DEF MInv, CallInv, Progress, Wake, BusInv, BusTypes
<1>2. DOMAIN out = Callers /\ Undisturbed(p)  BY DEF QuietInv
<1>3. pc[p] = "waiting" /\ reply[p] # <<>>  BY DEF Wake
<1>4. /\ Stands(job[p], eeprom, out[p], pos[p]) /\ OnlyIts(p)  BY <1>2, <1>3 DEF Undisturbed
<1>5. PICK j \in Jobs, n \in Nat, k \in Nat \ {0} :
          j = job[p] /\ n = pos[p] /\ k = Chunk(j, n) /\ n < j.len
  BY <1>1, RequestFact
<1>6. PICK d : d = Answer(j, eeprom, n)  OBVIOUS
<1>7. d \in Seq(Values) /\ Len(d) = k  BY <1>1, <1>5, <1>6, AnswerFact
<1>8. /\ toModule = <<>> /\ toBackend = <<>> /\ reply[p] = <<d>>
      /\ j.op = "write" => Stands(j, eeprom, out[p], n + k)
  BY <1>3, <1>4, <1>5, <1>6 DEF OnlyIts
<1>9. CASE j.op = "read"
  <2>1. Padded(j.start + n, d, k) = d  BY <1>7 DEF Padded
  <2>2. SubSeq(d, 1, k) = d  BY <1>7
  <2>3. Taken(p) = SubSeq(d, 1, IF k < k THEN k ELSE k)
    BY <1>5, <1>7, <1>8, <2>1 DEF Taken
  <2>4. out'[p] = out[p] \o d  BY <1>2, <1>5, <1>9, <2>2, <2>3 DEF Wake
  <2>5. Stands(j, eeprom, out[p] \o d, n + k)  BY <1>1, <1>4, <1>5, <1>6, <1>9, ReadStands
  <2>6. QED  BY <1>5, <1>8, <2>4, <2>5
<1>10. CASE j.op = "write"
  <2>1. out' = out  BY <1>5, <1>10 DEF Wake
  <2>2. QED  BY <1>5, <1>8, <1>10, <2>1
<1>11. QED  BY <1>9, <1>10, JobFact

(* The step in which a quiet call ends. *)
LEMMA FinishAgrees ==
    ASSUME MInv, QuietInv, [MNext]_mvars, NEW p \in Callers, quiet[p], Finishes(p)
    PROVE  Agrees(p)
<1>1. Wake(p) \/ GapOver(p)
  <2>1. pc[p] \in {"waiting", "gap"} /\ pc'[p] = "idle" /\ outcome'[p] = "ok"  BY DEF Finishes
  <2>2. pc \in [Callers -> PCs] /\ DOMAIN outcome = Callers  BY DEF MInv, CallInv, Progress, QuietInv
  <2>3. \A q \in Callers, j \in Jobs : ~Call(q, j)  BY <2>1, <2>2 DEF Call
  <2>4. \A q \in Callers : ~Enter(q)
    <3>1. ASSUME NEW q \in Callers, Enter(q) PROVE FALSE
      <4>1. q # p  BY <2>1, <3>1 DEF Enter
      <4>2. pc'[p] = pc[p]  BY <2>2, <3>1, <4>1 DEF Enter, Return, Ask
      <4>3. QED  BY <2>1, <4>2
    <3>2. QED  BY <3>1
  <2>5. ASSUME NEW q \in Callers, Wake(q) \/ GapOver(q) PROVE q = p
    <3>1. q # p => pc'[p] = pc[p]  BY <2>2, <2>5 DEF Wake, GapOver, Proceed, Return, Ask
    <3>2. QED  BY <2>1, <3>1
  <2>6. \A q \in Callers : ~Timeout(q)  BY <2>1, <2>2 DEF Timeout, Return
  <2>7. ~Feed /\ ~ModuleAnswers /\ ~LoseRequest /\ ~LoseReply
    BY <2>1 DEF Feed, ModuleAnswers, LoseRequest, LoseReply, callVars
  <2>8. /\ \A j \in Jobs : ~Invalidate(Covers(j.start, j.len))
        /\ \A an \in Loadable : ~LoadMemory(an[1], an[2])
    BY <2>1 DEF Invalidate, LoadMemory, callVars
  <2>9. mvars' # mvars  BY <2>1 DEF mvars
  <2>10. QED  BY <2>3, <2>4, <2>5, <2>6, <2>7, <2>8, <2>9 DEF MNext
<1>2. pc[p] \in {"waiting", "gap"} /\ pc'[p] = "idle"  BY DEF Finishes
<1>3. job[p] \in Jobs /\ pos[p] \in Nat /\ pos[p] <= job[p].len /\ (pc[p] = "waiting" => pos[p] < job[p].len)
      /\ pc \in [Callers -> PCs]
  BY DEF MInv, CallInv, Progress
<1>4. Stands(job[p], eeprom, out'[p], job[p].len)
  <2>1. CASE Wake(p)
    <3>1. PICK n \in Nat : n = pos[p] + Chunk(job[p], pos[p]) /\ n <= job[p].len
      <4>1. pos[p] < job[p].len  BY <1>3, <2>1 DEF Wake
      <4>2. QED  BY <1>3, <4>1, RequestFact
    <3>2. toModule = <<>> /\ toBackend = <<>> /\ Stands(job[p], eeprom, out'[p], n)  BY <2>1, <3>1, WakeQuiet
    <3>3. ~(job[p].op = "write" /\ Chunk(job[p], pos[p]) = 1)  BY <1>2, <1>3, <2>1 DEF Wake
    <3>4. Proceed(p, n) /\ UNCHANGED <<eeprom, toBackend, job>>  BY <2>1, <3>1, <3>3 DEF Wake
    <3>5. QED  BY <1>2, <3>1, <3>2, <3>4, ProceedQuiet
  <2>2. CASE GapOver(p)
    <3>1. Proceed(p, pos[p]) /\ out' = out /\ UNCHANGED <<eeprom, toBackend, job>> /\ pc[p] = "gap"
      BY <2>2 DEF GapOver
    <3>2. toModule = <<>> /\ toBackend = <<>> /\ Stands(job[p], eeprom, out'[p], pos[p])
      BY <3>1 DEF QuietInv, Undisturbed
    <3>3. QED  BY <1>2, <1>3, <3>1, <3>2, ProceedQuiet
  <2>3. QED  BY <1>1, <2>1, <2>2
<1>5. QED  BY <1>3, <1>4, WholeAgrees DEF Agrees

(* While p runs no other call is under way, let alone quietly. *)
LEMMA OneQuiet ==
    ASSUME MInv, QuietInv, NEW p \in Callers, CallerStep(p), NEW q \in Callers, quiet'[q], q # p
    PROVE  FALSE
<1>1. pc \in [Callers -> PCs] /\ DOMAIN quiet = Callers  BY DEF MInv, CallInv, Progress, QuietInv
<1>2. pc[p] # "idle" /\ (pc[p] = "lock" => Head(lockQueue) = p)
  BY DEF CallerStep, Enter, Wake, GapOver, Timeout
<1>3. lockQueue # <<>> /\ Head(lockQueue) = p  BY <1>2, HeadRuns DEF MInv
<1>4. pc[q] \notin {"waiting", "gap"}  BY <1>3, OthersQuiet DEF MInv
<1>5. quiet'[q] = quiet[q]
  BY <1>1 DEF CallerStep, Enter, Wake, GapOver, Timeout, Proceed, Return
<1>6. QED  BY <1>4, <1>5 DEF QuietInv, Undisturbed

(* A step of p keeps its call quiet, or is not quiet. *)
LEMMA CallerQuiet ==
    ASSUME MInv, QuietInv, NEW p \in Callers, CallerStep(p), quiet'[p]
    PROVE  Undisturbed(p)'
<1>1. job[p] \in Jobs /\ pc \in [Callers -> PCs] /\ pos \in [Callers -> Nat] /\ pos[p] <= job[p].len
  BY DEF MInv, CallInv, Progress
<1>2. DOMAIN reply = Callers /\ DOMAIN quiet = Callers /\ DOMAIN out = Callers  BY DEF QuietInv
<1>3. CASE Enter(p)
  <2>1. ~FromCache(job[p])  BY <1>2, <1>3 DEF Enter, Return
  <2>2. /\ Ask(p, 0) /\ toModule = <<>> /\ toBackend = <<>> /\ pc[p] = "lock"
        /\ UNCHANGED <<out, eeprom, toBackend, job>>
    BY <1>2, <1>3, <2>1 DEF Enter
  <2>3. pc'[p] = "waiting" /\ pos'[p] = 0 /\ reply'[p] = <<>> /\ toModule' = <<Request(job[p], 0)>>
    BY <1>1, <1>2, <2>2 DEF Ask
  <2>4. OnlyIts(p)'  BY <2>2, <2>3 DEF OnlyIts
  <2>5. Stands(job[p], eeprom, <<>>, 0)  BY DEF Stands
  <2>6. out'[p] = <<>>  BY <2>2 DEF QuietInv
  <2>7. QED  BY <2>2, <2>3, <2>4, <2>5, <2>6 DEF Undisturbed
<1>4. CASE Wake(p)
  <2>1. quiet[p]  BY <1>2, <1>4 DEF Wake, Proceed, Return
  <2>2. PICK n \in Nat : n = pos[p] + Chunk(job[p], pos[p]) /\ n <= job[p].len
    <3>1. pos[p] \in Nat /\ pos[p] < job[p].len  BY <1>1, <1>4 DEF Wake, MInv, CallInv, Progress
    <3>2. QED  BY <1>1, <3>1, RequestFact
  <2>3. toModule = <<>> /\ toBackend = <<>> /\ Stands(job[p], eeprom, out'[p], n)
    BY <1>4, <2>1, <2>2, WakeQuiet
  <2>4. pc[p] = "waiting" /\ UNCHANGED <<eeprom, toBackend, job>>  BY <1>4 DEF Wake
  <2>5. CASE job[p].op = "write" /\ Chunk(job[p], pos[p]) = 1
    <3>1. pc'[p] = "gap" /\ pos'[p] = n /\ toModule' = toModule  BY <1>1, <1>4, <2>2, <2>5 DEF Wake
    <3>2. QED  BY <2>3, <2>4, <3>1 DEF Undisturbed
  <2>6. CASE ~(job[p].op = "write" /\ Chunk(job[p], pos[p]) = 1)
    <3>1. Proceed(p, n)  BY <1>4, <2>2, <2>6 DEF Wake
    <3>2. QED  BY <2>2, <2>3, <2>4, <3>1, ProceedQuiet
  <2>7. QED  BY <2>5, <2>6
<1>5. CASE GapOver(p)
  <2>1. quiet[p]  BY <1>2, <1>5 DEF GapOver, Proceed, Return
  <2>2. Proceed(p, pos[p]) /\ out' = out /\ UNCHANGED <<eeprom, toBackend, job>> /\ pc[p] = "gap"
    BY <1>5 DEF GapOver
  <2>3. toModule = <<>> /\ toBackend = <<>> /\ Stands(job[p], eeprom, out'[p], pos[p])
    BY <2>1, <2>2 DEF QuietInv, Undisturbed
  <2>4. pos[p] \in Nat  BY <1>1
  <2>5. QED  BY <1>1, <2>2, <2>3, <2>4, ProceedQuiet
<1>6. CASE Timeout(p)  BY <1>2, <1>6 DEF Timeout, Return
<1>7. QED  BY <1>3, <1>4, <1>5, <1>6 DEF CallerStep

(* The bus carries the request of a quiet call, and its answer, and nothing else. *)
LEMMA BusQuiet ==
    ASSUME MInv, QuietInv, NEW p \in Callers, quiet[p],
           ModuleAnswers \/ LoseRequest \/ LoseReply \/ Feed
    PROVE  Undisturbed(p)'
<1>1. /\ job[p] \in Jobs /\ pos[p] \in Nat /\ (pc[p] = "waiting" => pos[p] < job[p].len)
      /\ eeprom \in [Addr -> Values]
  BY DEF MInv, CallInv, Progress, BusInv, BusTypes
<1>2. Undisturbed(p) /\ UNCHANGED <<pc, job, pos, out>>
  BY DEF QuietInv, ModuleAnswers, LoseRequest, LoseReply, Feed, callVars
<1>3. pc[p] = "waiting"
  <2>1. ~(toModule = <<>> /\ toBackend = <<>>)  BY DEF ModuleAnswers, LoseRequest, LoseReply, Feed
  <2>2. QED  BY <1>2, <2>1 DEF Undisturbed
<1>4. PICK j \in Jobs, n \in Nat : j = job[p] /\ n = pos[p] /\ n < j.len  BY <1>1, <1>3
<1>5. Stands(j, eeprom, out[p], n) /\ OnlyIts(p)  BY <1>2, <1>3, <1>4 DEF Undisturbed
<1>6. CASE ModuleAnswers
  <2>1. PICK r : r = Request(j, n)  OBVIOUS
  <2>2. toModule = <<r>> /\ toBackend = <<>> /\ reply[p] = <<>>
    BY <1>4, <1>5, <1>6, <2>1 DEF OnlyIts, ModuleAnswers
  <2>3. r.addr = j.start + n /\ r.size = Chunk(j, n)  BY <2>1 DEF Request
  <2>4. Head(toModule) = r /\ Tail(toModule) = <<>>  BY <2>2
  <2>5. PICK e : e = [a \in Addr |-> IF r.op = "write" /\ a \in Covers(r.addr, r.size)
                                     THEN r.data[a - r.addr + 1] ELSE eeprom[a]]
    OBVIOUS
  <2>6. /\ eeprom' = e /\ toModule' = <<>> /\ reply' = reply
        /\ toBackend' = <<[addr |-> j.start + n, data |-> Answer(j, e, n)]>>
    BY <1>6, <2>2, <2>3, <2>4, <2>5 DEF ModuleAnswers, Answer, callVars
  <2>7. Stands(j, e, out[p], n) /\ (j.op = "write" => Stands(j, e, out[p], n + Chunk(j, n)))
    BY <1>1, <1>4, <1>5, <2>1, <2>5, WriteStands
  <2>8. OnlyIts(p)'
    <3>1. reply'[p] = <<>>  BY <2>2, <2>6
    <3>2. job'[p] = j /\ pos'[p] = n /\ out'[p] = out[p]  BY <1>2, <1>4
    <3>3. job'[p].op = "write" => Stands(job'[p], eeprom', out'[p], pos'[p] + Chunk(job'[p], pos'[p]))
      BY <2>6, <2>7, <3>2
    <3>4. QED  BY <2>6, <3>1, <3>2, <3>3 DEF OnlyIts
  <2>9. Stands(job[p], eeprom, out[p], pos[p])'  BY <1>2, <1>4, <2>6, <2>7
  <2>10. pc'[p] = "waiting"  BY <1>2, <1>3
  <2>11. QED  BY <2>8, <2>9, <2>10, Zenon DEF Undisturbed
<1>7. CASE LoseRequest
  <2>1. toModule' = <<>> /\ toBackend' = <<>> /\ reply'[p] = <<>> /\ eeprom' = eeprom
    BY <1>5, <1>7, SMTT(30) DEF OnlyIts, LoseRequest, callVars
  <2>2. OnlyIts(p)'  BY <2>1, Zenon DEF OnlyIts
  <2>3. Stands(job[p], eeprom, out[p], pos[p])'  BY <1>2, <1>4, <1>5, <2>1
  <2>4. pc'[p] = "waiting"  BY <1>2, <1>3
  <2>5. QED  BY <2>2, <2>3, <2>4, Zenon DEF Undisturbed
<1>8. CASE LoseReply
  <2>1. toModule' = <<>> /\ toBackend' = <<>> /\ reply'[p] = <<>> /\ eeprom' = eeprom
    BY <1>5, <1>8, SMTT(30) DEF OnlyIts, LoseReply, callVars
  <2>2. OnlyIts(p)'  BY <2>1, Zenon DEF OnlyIts
  <2>3. Stands(job[p], eeprom, out[p], pos[p])'  BY <1>2, <1>4, <1>5, <2>1
  <2>4. pc'[p] = "waiting"  BY <1>2, <1>3
  <2>5. QED  BY <2>2, <2>3, <2>4, Zenon DEF Undisturbed
<1>9. CASE Feed
  <2>1. PICK m : m = [addr |-> j.start + n, data |-> Answer(j, eeprom, n)]  OBVIOUS
  <2>2. /\ toModule = <<>> /\ reply[p] = <<>> /\ toBackend = <<m>>
        /\ j.op = "write" => Stands(j, eeprom, out[p], n + Chunk(j, n))
    BY <1>4, <1>5, <1>9, <2>1 DEF OnlyIts, Feed
  <2>3. Head(toBackend) = m /\ Tail(toBackend) = <<>> /\ m.data = Answer(j, eeprom, n)  BY <2>1, <2>2
  <2>4. toModule' = <<>> /\ toBackend' = <<>> /\ eeprom' = eeprom  BY <1>9, <2>2, <2>3 DEF Feed
  <2>5. reply'[p] \in {<<>>, <<Answer(j, eeprom, n)>>}  BY <1>9, <2>2, <2>3 DEF Feed
  <2>6. OnlyIts(p)'  BY <1>2, <1>4, <2>2, <2>4, <2>5 DEF OnlyIts
  <2>7. QED  BY <1>2, <1>3, <2>4, <2>6 DEF Undisturbed
<1>10. QED  BY <1>6, <1>7, <1>8, <1>9

(* Every step keeps what is said of a call beside which nothing else was
   under way.                                                                *)
LEMMA QuietStep == MInv /\ QuietInv /\ [MNext]_mvars => QuietInv'
<1> SUFFICES ASSUME MInv, QuietInv, [MNext]_mvars PROVE QuietInv'  OBVIOUS
<1>1. pc \in [Callers -> PCs]  BY DEF MInv, CallInv, Progress
<1>2. ASSUME NEW p \in Callers, NEW j \in Jobs, Call(p, j) PROVE QuietInv'
  <2>1. /\ pc[p] = "idle" /\ \A q \in Callers : q # p => /\ pc'[q] = pc[q] /\ job'[q] = job[q]
                                                         /\ out'[q] = out[q]
        /\ UNCHANGED <<eeprom, toModule, toBackend, reply, pos, quiet>>
        /\ DOMAIN out' = Callers /\ DOMAIN outcome' = Callers
        /\ pc'[p] = "lock" => out'[p] = <<>>
    BY <1>1, <1>2 DEF Call, QuietInv
  <2>2. ASSUME NEW q \in Callers, quiet'[q] PROVE Undisturbed(q)'
    <3>1. q # p /\ Undisturbed(q)  BY <2>1, <2>2 DEF QuietInv, Undisturbed
    <3>2. QED  BY <2>1, <3>1 DEF Undisturbed, OnlyIts
  <2>3. QED  BY <2>1, <2>2 DEF QuietInv
<1>3. ASSUME NEW p \in Callers, CallerStep(p) PROVE QuietInv'
  <2>1. /\ DOMAIN out' = Callers /\ DOMAIN outcome' = Callers /\ DOMAIN reply' = Callers
        /\ DOMAIN quiet' = Callers
    BY <1>3 DEF CallerStep, Enter, Wake, GapOver, Timeout, Proceed, Ask, Return, QuietInv
  <2>2. ASSUME NEW q \in Callers, pc'[q] = "lock" PROVE out'[q] = <<>>
    <3>1. q # p /\ pc[q] = "lock"
      BY <1>1, <1>3, <2>2 DEF CallerStep, Enter, Wake, GapOver, Timeout, Proceed, Ask, Return
    <3>2. out'[q] = out[q]
      BY <1>3, <3>1 DEF CallerStep, Enter, Wake, GapOver, Timeout, QuietInv
    <3>3. QED  BY <3>1, <3>2 DEF QuietInv
  <2>3. \A q \in Callers : quiet'[q] => Undisturbed(q)'  BY <1>3, OneQuiet, CallerQuiet
  <2>4. QED  BY <2>1, <2>2, <2>3 DEF QuietInv
<1>4. ASSUME NEW j \in Jobs, Invalidate(Covers(j.start, j.len)) PROVE QuietInv'
  BY <1>4 DEF Invalidate, busVars, callVars, QuietInv, Undisturbed, OnlyIts
<1>5. CASE ModuleAnswers \/ LoseRequest \/ LoseReply \/ Feed
  <2>1. /\ UNCHANGED <<out, quiet, outcome, pc>> /\ DOMAIN reply' = Callers
    BY <1>5 DEF ModuleAnswers, LoseRequest, LoseReply, Feed, callVars, QuietInv
  <2>2. \A q \in Callers : quiet'[q] => Undisturbed(q)'  BY <1>5, <2>1, BusQuiet
  <2>3. QED  BY <2>1, <2>2 DEF QuietInv
<1>6. ASSUME NEW an \in Loadable, LoadMemory(an[1], an[2]) PROVE QuietInv'
  <2>1. /\ UNCHANGED <<out, outcome, pc, reply>> /\ DOMAIN quiet' = Callers /\ \A q \in Callers : ~quiet'[q]
    BY <1>6 DEF LoadMemory
  <2>2. QED  BY <2>1 DEF QuietInv
<1>7. CASE UNCHANGED mvars  BY <1>7 DEF mvars, QuietInv, Undisturbed, OnlyIts
<1>8. QED  BY <1>2, <1>3, <1>4, <1>5, <1>6, <1>7 DEF MNext, CallerStep

(* In the beginning nobody calls. *)
LEMMA QuietInit == MInit => QuietInv
<1> SUFFICES ASSUME MInit PROVE QuietInv  OBVIOUS
<1>1. QED  BY DEF MInit, QuietInv

(* read_bytes() and write_bytes() do what they say while nothing but their own
   requests is under way, whatever of these is lost: bytes written are in the
   EEPROM all together, bytes read are all there and of one moment.          *)
THEOREM QuietIsConfirmed == MSpec => ConfirmedWhenQuiet
<1>1. MInv /\ QuietInv /\ [MNext]_mvars => (\A p \in Callers : Finishes(p) /\ quiet[p] => Agrees(p))
  BY FinishAgrees
<1>2. QED  BY <1>1, QuietInit, QuietStep, MemoryInductive, PTL DEF MSpec, ConfirmedWhenQuiet

-----------------------------------------------------------------------------
(* The tables. *)

(* The table's own variables. *)
Entry == [source : Values, action : Values, subject : Values]
Replies == {<<>>} \cup {<<d>> : d \in Seq(Values)}
ListOK == slots # <<>> => slots = <<slots[1]>> /\ slots[1] \in [Slots -> Entry]

TableTypes ==
    /\ at \in [Callers -> {"none", "begin", "read", "write"}]
    /\ DOMAIN todo = Callers /\ \A p \in Callers : at[p] # "none" => todo[p] \in TableOps
    /\ entry \in [Callers -> [slot : Slots \cup {NoSlot}, is : Entries]]
    /\ next \in [Callers -> SUBSET Slots] /\ doubtful \subseteq Slots
    /\ programmed \in [Slots -> Entry] /\ ListOK
    /\ out \in [Callers -> Seq(Values)] /\ DOMAIN outcome = Callers
    /\ reply \in [Callers -> Replies]

(* What a task awaits is the call it makes. *)
Awaits ==
    \A p \in Callers :
        /\ at[p] \in {"none", "begin"} => pc[p] = "idle"
        /\ next[p] # {} => at[p] = "write" /\ todo[p].op = "clearSource"
        /\ at[p] = "read" => \E cached \in BOOLEAN : job[p] = ReadJob(cached)
        /\ at[p] = "write" => /\ entry[p].slot \in Slots
                              /\ job[p] = WriteJob(entry[p].slot, entry[p].is)

(* Who reads the table has the lock before who writes it, and nobody writes
   before there is a list.                                                  *)
Reading == {p \in Callers : at[p] = "read"}

Order ==
    /\ \A i, j \in DOMAIN lockQueue :
           i < j /\ at[lockQueue[j]] = "read" => at[lockQueue[i]] = "read"
    /\ Reading # {} => \A p \in Callers : at[p] = "write" => pc[p] = "lock"
    /\ slots = <<>> => \A p \in Callers : at[p] # "write"

(* Writes of a byte that are on their way; what the byte will be after them. *)
Pending(a) == {i \in DOMAIN toModule : /\ toModule[i].op = "write"
                                       /\ a \in Covers(toModule[i].addr, toModule[i].size)}

Will(a, v) ==
    /\ Pending(a) = {} => eeprom[a] = v
    /\ \A i \in Pending(a) : (\A j \in Pending(a) : j <= i)
           => toModule[i].data[a - toModule[i].addr + 1] = v

Holds(s, e) == /\ Will(s * SlotSize, e.source)
               /\ Will(s * SlotSize + 1, e.action)
               /\ Will(s * SlotSize + 2, e.subject)

(* How many bytes of its job p has asked for. *)
Asked(p) == CASE pc[p] = "waiting" -> pos[p] + Chunk(job[p], pos[p])
              [] pc[p] = "gap" -> pos[p]
              [] pc[p] = "idle" /\ outcome[p] = "ok" -> job[p].len
              [] OTHER -> 0

(* What a task has asked to be written will be there. *)
Writes == \A p \in Callers, s \in Slots, e \in Entries :
    at[p] = "write" /\ entry[p].slot = s /\ entry[p].is = e =>
        \A k \in 0 .. 2 : k < Asked(p) => Will(s * SlotSize + k, ToBytes(e)[k + 1])

(* The slots that some task has begun to write. *)
Begun == {entry[p].slot : p \in {q \in Callers : at[q] = "write" /\ pc[q] # "lock"}}

Stored == \A s \in Slots \ (Begun \cup doubtful), e \in Entry : programmed[s] = e => Holds(s, e)
Listed == slots # <<>> => \A s \in Slots \ doubtful : slots[1][s] = programmed[s]

(* Everything known of a byte, here and under way, is what the module has. *)
SettledAt(a) ==
    /\ Pending(a) = {}
    /\ a \in DOMAIN cache => cache[a] = eeprom[a]
    /\ \A i \in DOMAIN toBackend : Tells(i, a) => toBackend[i].data[a - toBackend[i].addr + 1] = eeprom[a]

Sure == {a \in Addr : \E s \in Slots \ doubtful : a \in Covers(s * SlotSize, SlotSize)}

Fresh == slots = <<>> \/ Reading # {} => \A a \in Sure : SettledAt(a)

(* What a reader has collected, or is about to, is what the module has. *)
True(a, v) == a \in Sure => v = eeprom[a]
Got(p) == IF pc[p] = "idle" THEN TableLen ELSE pos[p]

Reads == \A p \in Reading :
    /\ pc[p] = "waiting" /\ reply[p] # <<>> =>
           \A i \in DOMAIN reply[p][1] : True(pos[p] + i - 1, reply[p][1][i])
    /\ pc[p] # "idle" \/ outcome[p] # "timeout" =>
           /\ Len(out[p]) <= Got(p)
           /\ Len(out[p]) = Got(p) => \A i \in DOMAIN out[p] : True(i - 1, out[p][i])

(* A task that has been alone since it was called is alone. *)
Alone == \A p, q \in Callers : alone[p] /\ at[p] # "none" /\ q # p => at[q] = "none"

Picks == \A p \in Callers :
    at[p] = "write" /\ todo[p].op = "set" /\ todo[p].slot = NoSlot /\ alone[p] => PickWasFree(p)

(* The whole of it: the invariant beside the one of the memory backend. *)
TInv == /\ TableTypes /\ Awaits /\ Order /\ lost = 0 /\ Writes /\ Stored /\ Listed
        /\ Fresh /\ Reads /\ Alone /\ Picks
-----------------------------------------------------------------------------
(* A set of naturals that is not empty has a least element. *)
LEMMA Least ==
    ASSUME NEW T \in SUBSET Nat, T # {}
    PROVE  \E n \in T : \A m \in T : n <= m
<1> DEFINE D == {1 .. n : n \in T}
           R == StrictSubsetOrdering(Nat)
           F == FiniteSubsetsOf(Nat)
<1>1. IsWellFoundedOn(R, F)  BY FS_StrictSubsetOrderingWellFounded
<1>2. D \subseteq F
    <2>1. ASSUME NEW n \in T PROVE IsFiniteSet(1 .. n) /\ 1 .. n \subseteq Nat
        <3>1. 1 \in Int /\ n \in Int  OBVIOUS
        <3>2. IsFiniteSet(1 .. n)  BY <3>1, FS_Interval, Zenon
        <3>3. QED  BY <3>2
    <2>2. QED  BY <2>1 DEF FiniteSubsetsOf
<1>3. D # {}  OBVIOUS
<1>4. PICK X \in D : \A Y \in D : <<Y, X>> \notin R
    <2> HIDE DEF D, R, F
    <2>1. QED  BY <1>1, <1>2, <1>3, WFMin
<1>5. PICK n \in T : X = 1 .. n  OBVIOUS
<1>6. ASSUME NEW m \in T, ~(n <= m) PROVE FALSE
    <2>1. 1 .. m \in D  OBVIOUS
    <2>2. 1 .. m \subseteq 1 .. n /\ n \in 1 .. n /\ n \notin 1 .. m  BY <1>6
    <2>3. <<1 .. m, X>> \in R  BY <1>5, <2>2 DEF StrictSubsetOrdering
    <2>4. QED  BY <1>4, <2>1, <2>3
<1>7. QED  BY <1>6

(* The first slot of a set of slots is one of them. *)
LEMMA FirstIn == ASSUME NEW S \in SUBSET Slots, S # {} PROVE First(S) \in S
<1>1. S \in SUBSET Nat  BY TableAssumption DEF Slots
<1>2. \E s \in S : \A t \in S : s <= t  BY <1>1, Least
<1>3. QED  BY <1>2 DEF First

(* What an entry is in bytes, and its job. *)
LEMMA EntryFacts ==
    ASSUME NEW e \in Entries
    PROVE  /\ e \in Entry /\ ToBytes(e) = <<e.source, e.action, e.subject>>
           /\ ToBytes(e) \in Seq(Values)
<1>1. EMPTY \in Values /\ Sources \subseteq Values \ {0, EMPTY} /\ Channels \subseteq Values \ {0, EMPTY}
    BY TableAssumption
<1>2. CASE e = Blank
    BY <1>1, <1>2 DEF Blank, Entry, ToBytes, EmptySlot
<1>3. CASE \E x \in Sources, c \in Channels : e = [source |-> x, action |-> x, subject |-> c]
    BY <1>1, <1>3 DEF Entry, ToBytes, EmptySlot
<1>4. QED  BY <1>2, <1>3 DEF Entries

(* Slots lie in the table one after the other, and the table in the memory. *)
LEMMA Sizes ==
    /\ NSlots \in Nat \ {0} /\ MaxAddr \in Nat /\ SlotSize = 3 /\ TableLen = NSlots * 3
    /\ TableLen <= MaxAddr + 1 /\ NoSlot \notin Slots /\ Slots \subseteq Nat /\ TableLen \in Nat \ {0}
    /\ \A s \in Slots : s * SlotSize + 3 <= TableLen /\ s * SlotSize \in Nat
    /\ \A s \in Slots : s * SlotSize = 3 * s
<1>1. NSlots \in Nat \ {0} /\ MaxAddr \in Nat /\ TableLen <= MaxAddr + 1
    BY TableAssumption, SizeAssumption
<1>2. QED  BY <1>1 DEF SlotSize, TableLen, NoSlot, Slots

(* What a table asks of the backend are jobs the backend takes. *)
LEMMA JobFacts ==
    /\ \A cached \in BOOLEAN : ReadJob(cached) \in Jobs
    /\ \A s \in Slots, e \in Entries : WriteJob(s, e) \in Jobs
BY TableAssumption DEF TableJobs

(* load() reads the whole table. *)
LEMMA ReadJobIs ==
    ASSUME NEW cached
    PROVE  /\ ReadJob(cached).op = "read" /\ ReadJob(cached).start = 0
           /\ ReadJob(cached).len = TableLen /\ ReadJob(cached).useCache = cached
BY DEF ReadJob

(* _write_slot() writes the three bytes of one entry. *)
LEMMA WriteJobIs ==
    ASSUME NEW s \in Slots, NEW e \in Entries
    PROVE  /\ WriteJob(s, e).op = "write" /\ WriteJob(s, e).start = s * SlotSize
           /\ WriteJob(s, e).len = 3 /\ WriteJob(s, e).data = <<e.source, e.action, e.subject>>
BY EntryFacts DEF WriteJob, SlotSize

(* The slots of a table from its bytes. *)
LEMMA DecodedIs ==
    ASSUME NEW raw \in Seq(Values), Len(raw) >= TableLen
    PROVE  /\ Decoded(raw) \in [Slots -> Entry]
           /\ \A s \in Slots : /\ s * SlotSize + 1 \in DOMAIN raw /\ s * SlotSize + 2 \in DOMAIN raw
                               /\ s * SlotSize + 3 \in DOMAIN raw
                               /\ Decoded(raw)[s] = [source |-> raw[s * SlotSize + 1],
                                                     action |-> raw[s * SlotSize + 2],
                                                     subject |-> raw[s * SlotSize + 3]]
<1>1. ASSUME NEW s \in Slots
      PROVE  /\ s * SlotSize + 1 \in DOMAIN raw /\ s * SlotSize + 2 \in DOMAIN raw
             /\ s * SlotSize + 3 \in DOMAIN raw
             /\ Decoded(raw)[s] = [source |-> raw[s * SlotSize + 1], action |-> raw[s * SlotSize + 2],
                                   subject |-> raw[s * SlotSize + 3]]
    <2>1. PICK b : b = s * SlotSize  OBVIOUS
    <2>2. b \in Nat /\ b + 3 <= Len(raw) /\ SlotSize = 3 /\ Len(raw) \in Nat  BY <2>1, Sizes
    <2>3. b + 1 \in DOMAIN raw /\ b + 2 \in DOMAIN raw /\ b + 3 \in DOMAIN raw  BY <2>2
    <2>4. PICK t : t = SubSeq(raw, b + 1, b + SlotSize)  OBVIOUS
    <2>5. t[1] = raw[b + 1] /\ t[2] = raw[b + 2] /\ t[3] = raw[b + 3]  BY <2>2, <2>4
    <2>6. Decoded(raw)[s] = FromBytes(t)  BY <2>1, <2>4 DEF Decoded
    <2>7. QED  BY <2>1, <2>3, <2>5, <2>6 DEF FromBytes
<1>2. ASSUME NEW s \in Slots PROVE Decoded(raw)[s] \in Entry
    <2>1. PICK b : b = s * SlotSize  OBVIOUS
    <2>2. /\ b + 1 \in DOMAIN raw /\ b + 2 \in DOMAIN raw /\ b + 3 \in DOMAIN raw
          /\ Decoded(raw)[s] = [source |-> raw[b + 1], action |-> raw[b + 2], subject |-> raw[b + 3]]
        BY <1>1, <2>1
    <2>3. raw[b + 1] \in Values /\ raw[b + 2] \in Values /\ raw[b + 3] \in Values  BY <2>2
    <2>4. QED  BY <2>2, <2>3 DEF Entry
<1>3. Decoded(raw) = [s \in Slots |-> Decoded(raw)[s]]  BY DEF Decoded
<1>4. QED  BY <1>1, <1>2, <1>3
-----------------------------------------------------------------------------
(* set_action() picks a slot of the table; one that the list shows empty, or as
   the source's own, when the caller names none.                            *)
LEMMA ChoicesFit ==
    ASSUME NEW o \in TableOps, NEW f, NEW s \in Choices(o, f)
    PROVE  /\ s \in Slots
           /\ o.slot = NoSlot => \/ EmptySlot(f[s])
                                 \/ /\ f[s].source = o.source
                                    /\ Shared => f[s].subject = o.channel
<1> DEFINE same == {t \in Programmed(f, o.channel) : f[t].source = o.source}
           free == {t \in Slots : EmptySlot(f[t])}
<1>1. o.slot \in Slots \cup {NoSlot}  BY TableAssumption DEF TableOp
<1>2. same \in SUBSET Slots /\ free \in SUBSET Slots  BY DEF Programmed
<1>3. /\ o.slot # NoSlot => s = o.slot
      /\ o.slot = NoSlot /\ same # {} => s = First(same)
      /\ o.slot = NoSlot /\ same = {} => free # {} /\ s = First(free)
    BY DEF Choices
<1>4. same # {} => First(same) \in same  BY <1>2, FirstIn
<1>5. free # {} => First(free) \in free  BY <1>2, FirstIn
<1>6. \A t \in same : t \in Slots /\ f[t].source = o.source /\ (Shared => f[t].subject = o.channel)
    BY DEF Programmed
<1>7. \A t \in free : t \in Slots /\ EmptySlot(f[t])  OBVIOUS
<1> HIDE DEF same, free
<1>8. CASE o.slot # NoSlot  BY <1>1, <1>3, <1>8
<1>9. CASE o.slot = NoSlot /\ same # {}  BY <1>3, <1>4, <1>6, <1>9
<1>10. CASE o.slot = NoSlot /\ same = {}  BY <1>3, <1>5, <1>7, <1>10
<1>11. QED  BY <1>8, <1>9, <1>10

(* A list in which no source has two actions on a channel keeps to that when a
   slot is emptied, and when set_action() puts its entry where it has picked.  *)
Once(f) == \A s, t \in Slots : s # t /\ ~EmptySlot(f[s]) /\ f[s].source = f[t].source
                                 => Shared /\ f[s].subject # f[t].subject

(* A list without double sources stays one when a slot is cleared. *)
LEMMA ClearedOnce ==
    ASSUME NEW f \in [Slots -> Entry], Once(f), NEW s \in Slots
    PROVE  Once([f EXCEPT ![s] = Blank])
<1>1. EmptySlot(Blank) /\ \A x : EmptySlot(x) <=> x.source \in {0, EMPTY}  BY DEF EmptySlot, Blank
<1>2. PICK g : g = [f EXCEPT ![s] = Blank]  OBVIOUS
<1>3. g[s] = Blank /\ \A t \in Slots \ {s} : g[t] = f[t]  BY <1>2
<1>4. SUFFICES ASSUME NEW t \in Slots, NEW u \in Slots, t # u, ~EmptySlot(g[t]), g[t].source = g[u].source
               PROVE  Shared /\ g[t].subject # g[u].subject
    BY <1>2 DEF Once
<1>5. t # s  BY <1>1, <1>3, <1>4
<1>6. u # s  BY <1>1, <1>3, <1>4
<1>7. g[t] = f[t] /\ g[u] = f[u]  BY <1>3, <1>5, <1>6
<1>8. QED  BY <1>4, <1>7 DEF Once

(* A list without double sources stays one when a slot that set_action() may
   pick gets its entry.                                                      *)
LEMMA PickedOnce ==
    ASSUME NEW o \in TableOps, o.slot = NoSlot, NEW f \in [Slots -> Entry], Once(f),
           NEW s \in Choices(o, f), NEW e, e.source = o.source, e.subject = o.channel
    PROVE  Once([f EXCEPT ![s] = e])
<1> DEFINE same == {t \in Programmed(f, o.channel) : f[t].source = o.source}
           free == {t \in Slots : EmptySlot(f[t])}
<1>1. o.source \in Sources /\ o.source \notin {0, EMPTY}  BY TableAssumption DEF TableOp
<1>2. s \in Slots  BY ChoicesFit
<1>3. same \in SUBSET Slots  BY DEF Programmed
<1>4. same # {} => s = First(same) /\ First(same) \in same  BY <1>3, FirstIn DEF Choices
<1>5. \A t \in Slots : t \in same <=> /\ ~EmptySlot(f[t]) /\ f[t].source = o.source
                                      /\ Shared => f[t].subject = o.channel
    BY DEF Programmed
<1> HIDE DEF same
<1>6. ASSUME NEW t \in Slots, t # s, f[t].source = o.source PROVE Shared /\ f[t].subject # o.channel
    <2>1. ~EmptySlot(f[t])  BY <1>1, <1>6 DEF EmptySlot
    <2>2. CASE same = {}  BY <1>5, <1>6, <2>1, <2>2
    <2>3. CASE same # {}
        <3>1. ~EmptySlot(f[s]) /\ f[s].source = o.source /\ (Shared => f[s].subject = o.channel)
            BY <1>2, <1>4, <1>5, <2>3
        <3>2. Shared /\ f[s].subject # f[t].subject  BY <1>2, <1>6, <3>1 DEF Once
        <3>3. QED  BY <3>1, <3>2
    <2>4. QED  BY <2>2, <2>3
<1>7. PICK g : g = [f EXCEPT ![s] = e]  OBVIOUS
<1>8. g[s] = e /\ \A t \in Slots \ {s} : g[t] = f[t]  BY <1>2, <1>7
<1>9. SUFFICES ASSUME NEW t \in Slots, NEW u \in Slots, t # u, ~EmptySlot(g[t]), g[t].source = g[u].source
               PROVE  Shared /\ g[t].subject # g[u].subject
    BY <1>7 DEF Once
<1>10. CASE t = s
    <2>1. g[t] = e /\ g[u] = f[u] /\ u # s  BY <1>8, <1>9, <1>10
    <2>2. f[u].source = o.source  BY <1>9, <2>1
    <2>3. Shared /\ f[u].subject # o.channel  BY <1>6, <2>1, <2>2
    <2>4. QED  BY <2>1, <2>3
<1>11. CASE u = s
    <2>1. g[u] = e /\ g[t] = f[t] /\ t # s  BY <1>8, <1>9, <1>11
    <2>2. f[t].source = o.source  BY <1>9, <2>1
    <2>3. Shared /\ f[t].subject # o.channel  BY <1>6, <2>1, <2>2
    <2>4. QED  BY <2>1, <2>3
<1>12. CASE t # s /\ u # s
    <2>1. g[t] = f[t] /\ g[u] = f[u]  BY <1>8, <1>12
    <2>2. QED  BY <1>9, <2>1 DEF Once
<1>13. QED  BY <1>10, <1>11, <1>12

(* A task that goes on with a list at hand returns, or begins to write a slot:
   for a set_action() without a slot an empty one, or the source's own.        *)
Keeps(o, f, s, e) == f \in [Slots -> Entry] /\ Once(f) /\ (o.op = "set" => o.slot = NoSlot)
                        => Once([f EXCEPT ![s] = e])

Fits(o, f, s, e) ==
    /\ o.op = "set" /\ o.slot = NoSlot =>
           \/ EmptySlot(f[s])
           \/ f[s].source = e.source /\ (Shared => f[s].subject = e.subject)
    /\ Keeps(o, f, s, e)

(* What an operation does once it has the list: it returns, or writes one
   slot with an entry that suits the operation.                              *)
LEMMA LoadedDoes ==
    ASSUME NEW p \in Callers, NEW o \in TableOps, NEW f, Loaded(p, o, f),
           next \in [Callers -> SUBSET Slots]
    PROVE  /\ next' \in [Callers -> SUBSET Slots] /\ \A q \in Callers : q # p => next'[q] = next[q]
           /\ \/ Leave(p) /\ next' = next
              \/ \E s \in Slots, e \in Entries : /\ Write(p, s, e) /\ Fits(o, f, s, e)
                                                 /\ next' = next \/ o.op = "clearSource"
<1>1. o.op \in {"set", "clear", "clearSource", "load", "reload"} /\ o.source \in Sources /\ o.channel \in Channels
      /\ (o.op = "clear" => o.slot \in Slots)
    BY TableAssumption DEF TableOp
<1>2. Blank \in Entries /\ [source |-> o.source, action |-> o.source, subject |-> o.channel] \in Entries
    BY <1>1 DEF Entries
<1>3. CASE o.op \in {"load", "reload"}  BY <1>3 DEF Loaded
<1>4. CASE o.op = "set"
    <2>1. \/ Leave(p) /\ UNCHANGED next
          \/ /\ UNCHANGED next
             /\ \E s \in Choices(o, f) :
                    Write(p, s, [source |-> o.source, action |-> o.source, subject |-> o.channel])
        BY <1>4 DEF Loaded
    <2>2. CASE UNCHANGED next /\ Leave(p)  BY <2>2
    <2>3. CASE UNCHANGED next /\ \E s \in Choices(o, f) :
                  Write(p, s, [source |-> o.source, action |-> o.source, subject |-> o.channel])
        <3>1. PICK s \in Choices(o, f) :
                  Write(p, s, [source |-> o.source, action |-> o.source, subject |-> o.channel])
            BY <2>3
        <3>2. PICK e \in Entries : e = [source |-> o.source, action |-> o.source, subject |-> o.channel]
            BY <1>2
        <3>3. e.source = o.source /\ e.subject = o.channel  BY <3>2
        <3>4. s \in Slots /\ (o.slot = NoSlot => \/ EmptySlot(f[s])
                                                 \/ /\ f[s].source = o.source
                                                    /\ Shared => f[s].subject = o.channel)
            BY ChoicesFit
        <3>5. Keeps(o, f, s, e)  BY <1>4, <3>3, PickedOnce DEF Keeps
        <3>6. Write(p, s, e) /\ Fits(o, f, s, e)  BY <3>1, <3>2, <3>3, <3>4, <3>5 DEF Fits
        <3>7. QED  BY <2>3, <3>4, <3>6
    <2>4. QED  BY <2>1, <2>2, <2>3
<1>5. CASE o.op = "clear"
    <2>1. Write(p, o.slot, Blank) /\ UNCHANGED next  BY <1>5 DEF Loaded
    <2>2. Fits(o, f, o.slot, Blank)  BY <1>1, <1>5, ClearedOnce DEF Fits, Keeps
    <2>3. QED  BY <1>1, <1>2, <1>5, <2>1, <2>2
<1>6. CASE o.op = "clearSource"
    <2> DEFINE all == {s \in Programmed(f, o.channel) : f[s].source = o.source}
    <2>1. all \in SUBSET Slots  BY DEF Programmed
    <2>2. \/ Leave(p) /\ UNCHANGED next
          \/ /\ all # {} /\ Write(p, First(all), Blank)
             /\ next' = [next EXCEPT ![p] = all \ {First(all)}]
        BY <1>6 DEF Loaded
    <2>3. all # {} => First(all) \in Slots  BY <2>1, FirstIn
    <2> HIDE DEF all
    <2>4. CASE Leave(p) /\ UNCHANGED next  BY <2>4
    <2>5. CASE /\ all # {} /\ Write(p, First(all), Blank)
               /\ next' = [next EXCEPT ![p] = all \ {First(all)}]
        <3>1. next' \in [Callers -> SUBSET Slots] /\ \A q \in Callers : q # p => next'[q] = next[q]
            BY <2>1, <2>5
        <3>2. Fits(o, f, First(all), Blank)  BY <1>6, <2>3, <2>5, ClearedOnce DEF Fits, Keeps
        <3>3. QED  BY <1>2, <1>6, <2>3, <2>5, <3>1, <3>2
    <2>6. QED  BY <2>2, <2>4, <2>5
<1>7. QED  BY <1>1, <1>3, <1>4, <1>5, <1>6
-----------------------------------------------------------------------------
(* What a read collects: bytes of the reply, then bytes of the cache. *)
LEMMA SliceIs ==
    ASSUME NEW f, NEW addr \in Nat, NEW n \in Nat,
           \A a \in addr .. addr + n - 1 : f[a] \in Values
    PROVE  /\ Slice(f, addr, n) \in Seq(Values) /\ Len(Slice(f, addr, n)) = n
           /\ \A i \in 1 .. n : Slice(f, addr, n)[i] = f[addr + i - 1]
<1>1. \A i \in 1 .. n : addr + i - 1 \in addr .. addr + n - 1  OBVIOUS
<1>2. [i \in 1 .. n |-> f[addr + i - 1]] \in [1 .. n -> Values]  BY <1>1
<1>3. QED  BY <1>2 DEF Slice

(* A byte of a reply that was filled up is one of the reply or the cached
   one.                                                                      *)
LEMMA PaddedIs ==
    ASSUME NEW addr \in Nat, NEW data \in Seq(Values), NEW n \in Nat,
           \A a \in DOMAIN cache : cache[a] \in Values
    PROVE  LET d == Padded(addr, data, n)
           IN  /\ d \in Seq(Values)
               /\ \A i \in DOMAIN d : \/ i \in DOMAIN data /\ d[i] = data[i]
                                      \/ addr + i - 1 \in DOMAIN cache /\ d[i] = cache[addr + i - 1]
<1> DEFINE gaps == {i \in Len(data) + 1 .. n : addr + i - 1 \notin DOMAIN cache}
           Ends(k) == /\ \A i \in Len(data) + 1 .. k : i \notin gaps
                      /\ k = n \/ k + 1 \in gaps
           last == CHOOSE k \in Len(data) .. n : Ends(k)
           d == [i \in 1 .. last |-> IF i <= Len(data) THEN data[i] ELSE cache[addr + i - 1]]
<1>1. Len(data) \in Nat /\ DOMAIN data = 1 .. Len(data) /\ \A i \in DOMAIN data : data[i] \in Values  OBVIOUS
<1>2. CASE Len(data) >= n
    <2>1. Padded(addr, data, n) = data  BY <1>2 DEF Padded
    <2>2. QED  BY <1>1, <2>1
<1>3. CASE ~(Len(data) >= n)
    <2>1. Padded(addr, data, n) = d  BY <1>3 DEF Padded
    <2>2. \E k \in Len(data) .. n : Ends(k)
        <3>1. CASE gaps = {}
            <4>1. n \in Len(data) .. n /\ Ends(n)  BY <1>1, <1>3, <3>1
            <4>2. QED  BY <4>1
        <3>2. CASE gaps # {}
            <4>1. gaps \in SUBSET Nat  BY <1>1
            <4>2. PICK g \in gaps : \A h \in gaps : g <= h  BY <3>2, <4>1, Least
            <4>3. g \in Nat /\ g - 1 \in Len(data) .. n  BY <1>1, <4>2
            <4>4. ASSUME NEW i \in Len(data) + 1 .. g - 1 PROVE i \notin gaps
                <5>1. i \in Int /\ ~(g <= i)  BY <1>1, <4>3
                <5>2. QED  BY <4>2, <5>1
            <4>5. g - 1 + 1 \in gaps  BY <4>2, <4>3
            <4>6. Ends(g - 1)  BY <4>4, <4>5
            <4> HIDE DEF Ends, gaps
            <4>7. QED  BY <4>3, <4>6
        <3>3. QED  BY <3>1, <3>2
    <2>3. last \in Len(data) .. n /\ Ends(last)
        <3> HIDE DEF Ends
        <3>1. QED  BY <2>2
    <2>4. PICK k : k = last  OBVIOUS
    <2>5. k \in Nat /\ k <= n /\ \A i \in Len(data) + 1 .. k : i \notin gaps
        <3>1. k \in Len(data) .. n /\ Ends(k)  BY <2>3, <2>4
        <3>2. QED  BY <1>1, <3>1
    <2>6. ASSUME NEW i \in 1 .. k
          PROVE  \/ i \in DOMAIN data /\ i <= Len(data)
                 \/ ~(i <= Len(data)) /\ addr + i - 1 \in DOMAIN cache
        <3>1. CASE i <= Len(data)  BY <1>1, <3>1
        <3>2. CASE ~(i <= Len(data))
            <4>1. i \in Len(data) + 1 .. k /\ i \in Len(data) + 1 .. n  BY <1>1, <2>5, <3>2
            <4>2. QED  BY <2>5, <3>2, <4>1
        <3>3. QED  BY <3>1, <3>2
    <2>7. d = [i \in 1 .. k |-> IF i <= Len(data) THEN data[i] ELSE cache[addr + i - 1]]  BY <2>4
    <2> HIDE DEF gaps, Ends, last, d
    <2>8. \A i \in 1 .. k : d[i] \in Values  BY <1>1, <2>6, <2>7
    <2>9. d \in [1 .. k -> Values]  BY <2>7, <2>8
    <2>10. d \in Seq(Values) /\ DOMAIN d = 1 .. k  BY <2>5, <2>9
    <2>11. \A i \in DOMAIN d : \/ i \in DOMAIN data /\ d[i] = data[i]
                               \/ addr + i - 1 \in DOMAIN cache /\ d[i] = cache[addr + i - 1]
        BY <2>6, <2>7, <2>10
    <2>12. QED  BY <2>1, <2>10, <2>11
<1>4. QED  BY <1>2, <1>3

(* What a reader takes from its reply are bytes of the reply or of the cache,
   at their addresses.                                                       *)
LEMMA TakenIs ==
    ASSUME MInv, NEW p \in Callers, pc[p] = "waiting", NEW d \in Seq(Values), reply[p] = <<d>>
    PROVE  /\ Taken(p) \in Seq(Values) /\ Len(Taken(p)) <= Chunk(job[p], pos[p])
           /\ \A i \in DOMAIN Taken(p) :
                  LET a == job[p].start + pos[p] + i - 1
                  IN  \/ i \in DOMAIN d /\ Taken(p)[i] = d[i]
                      \/ a \in DOMAIN cache /\ Taken(p)[i] = cache[a]
<1>1. /\ pos[p] \in Nat /\ job[p] \in Jobs /\ pos[p] < job[p].len /\ job[p].start \in Nat
      /\ \A a \in DOMAIN cache : cache[a] \in Values
    BY JobsAssumption, SizeAssumption DEF MInv, CallInv, Progress, BusInv, BusTypes, Job, Addr
<1>2. PICK n : n = Chunk(job[p], pos[p])  OBVIOUS
<1>3. n \in Nat  BY <1>1, <1>2, RequestFact
<1>4. PICK a0 : a0 = job[p].start + pos[p]  OBVIOUS
<1>5. a0 \in Nat
    <2>1. PICK x, y : x = job[p].start /\ y = pos[p]  OBVIOUS
    <2>2. x \in Nat /\ y \in Nat /\ a0 = x + y  BY <1>1, <1>4, <2>1
    <2>3. QED  BY <2>2
<1>6. PICK t : t = Padded(a0, d, n)  OBVIOUS
<1>7. /\ t \in Seq(Values)
      /\ \A i \in DOMAIN t : \/ i \in DOMAIN d /\ t[i] = d[i]
                             \/ a0 + i - 1 \in DOMAIN cache /\ t[i] = cache[a0 + i - 1]
    <2>1. \A a \in DOMAIN cache : cache[a] \in Values  BY <1>1
    <2>2. QED  BY <1>3, <1>5, <1>6, <2>1, PaddedIs
<1>8. Taken(p) = SubSeq(t, 1, IF Len(t) < n THEN Len(t) ELSE n)
    <2>1. reply[p][1] = d  OBVIOUS
    <2>2. QED  BY <1>2, <1>4, <1>6, <2>1 DEF Taken
<1>9. PICK m : m = IF Len(t) < n THEN Len(t) ELSE n  OBVIOUS
<1>10. m \in Nat /\ m <= n /\ m <= Len(t)  BY <1>3, <1>7, <1>9
<1>11. Taken(p) \in Seq(Values) /\ Len(Taken(p)) = m /\ DOMAIN Taken(p) = 1 .. m
       /\ \A i \in 1 .. m : Taken(p)[i] = t[i] /\ i \in DOMAIN t
    BY <1>7, <1>8, <1>9, <1>10
<1>12. QED  BY <1>2, <1>4, <1>7, <1>10, <1>11
-----------------------------------------------------------------------------
(* What a call, and a step of the task that has the lock, do to the backend. *)
LEMMA CallDoes ==
    ASSUME MInv, TableTypes, NEW p \in Callers, NEW j \in Jobs, Call(p, j)
    PROVE  /\ UNCHANGED <<eeprom, toModule, toBackend, cache, waiters, reply, pos, lost>>
           /\ pc[p] = "idle" /\ job'[p] = j
           /\ out' \in [Callers -> Seq(Values)] /\ DOMAIN outcome' = Callers
           /\ \A q \in Callers \ {p} : /\ pc'[q] = pc[q] /\ job'[q] = job[q]
                                       /\ out'[q] = out[q] /\ outcome'[q] = outcome[q]
           /\ \/ /\ j.op = "read" /\ pc'[p] = "idle" /\ lockQueue' = lockQueue /\ outcome'[p] = "ok"
                 /\ Known(cache, j.start, j.len) /\ out'[p] = Slice(cache, j.start, j.len)
              \/ /\ pc'[p] = "lock" /\ lockQueue' = Append(lockQueue, p)
                 /\ out'[p] = <<>> /\ outcome'[p] = "none"
<1>1. /\ pc \in [Callers -> PCs] /\ job \in [Callers -> Jobs] /\ j.start \in Nat /\ j.len \in Nat
      /\ \A a \in DOMAIN cache : cache[a] \in Values
    BY JobsAssumption, SizeAssumption DEF MInv, CallInv, Progress, BusInv, BusTypes, Job, Addr
<1>2. out \in [Callers -> Seq(Values)] /\ DOMAIN outcome = Callers  BY DEF TableTypes
<1>3. /\ pc[p] = "idle" /\ job' = [job EXCEPT ![p] = j]
      /\ UNCHANGED <<eeprom, toModule, toBackend, cache, waiters, reply, pos, lost>>
    BY DEF Call
<1>4. CASE FromCache(j)
    <2>1. /\ out' = [out EXCEPT ![p] = Slice(cache, j.start, j.len)]
          /\ outcome' = [outcome EXCEPT ![p] = "ok"] /\ UNCHANGED <<lockQueue, pc>>
        BY <1>4 DEF Call
    <2>2. j.op = "read" /\ Known(cache, j.start, j.len)  BY <1>4 DEF FromCache
    <2>3. Slice(cache, j.start, j.len) \in Seq(Values)
        <3>1. \A a \in j.start .. j.start + j.len - 1 : cache[a] \in Values  BY <1>1, <2>2 DEF Known
        <3>2. QED  BY <1>1, <3>1, SliceIs
    <2>4. QED  BY <1>1, <1>2, <1>3, <2>1, <2>2, <2>3
<1>5. CASE ~FromCache(j)
    <2>1. /\ out' = [out EXCEPT ![p] = <<>>]
          /\ outcome' = [outcome EXCEPT ![p] = "none"] /\ lockQueue' = Append(lockQueue, p)
          /\ pc' = [pc EXCEPT ![p] = "lock"]
        BY <1>5 DEF Call
    <2>2. <<>> \in Seq(Values)  OBVIOUS
    <2>3. QED  BY <1>1, <1>2, <1>3, <2>1, <2>2
<1>6. QED  BY <1>4, <1>5

(* The next request, or the end, of the call of p, of which n bytes are done. *)
LEMMA ProceedDoes ==
    ASSUME MInv, TableTypes, NEW p \in Callers, NEW n \in Nat, Proceed(p, n)
    PROVE  /\ pc'[p] \in {"waiting", "idle"} /\ reply'[p] = <<>> /\ reply' \in [Callers -> Replies]
           /\ DOMAIN outcome' = Callers
           /\ \A q \in Callers \ {p} : /\ pc'[q] = pc[q] /\ pos'[q] = pos[q]
                                       /\ outcome'[q] = outcome[q] /\ reply'[q] = reply[q]
           /\ lockQueue' = lockQueue \/ lockQueue' = Tail(lockQueue)
           /\ \/ /\ n < job[p].len /\ pc'[p] = "waiting" /\ pos'[p] = n /\ outcome'[p] = outcome[p]
                 /\ toModule' = Append(toModule, Request(job[p], n))
              \/ /\ n >= job[p].len /\ pc'[p] = "idle" /\ pos'[p] = 0 /\ outcome'[p] = "ok"
                 /\ toModule' = toModule
<1>1. /\ pc \in [Callers -> PCs] /\ pos \in [Callers -> Nat] /\ DOMAIN outcome = Callers
      /\ reply \in [Callers -> Replies] /\ job[p].len \in Nat
    BY JobsAssumption DEF MInv, CallInv, Progress, TableTypes, Replies, Job
<1>2. <<>> \in Replies  BY DEF Replies
<1>3. CASE n < job[p].len
    <2>1. Ask(p, n) /\ UNCHANGED <<lockQueue, outcome>>  BY <1>3 DEF Proceed
    <2>2. /\ reply' = [reply EXCEPT ![p] = <<>>] /\ toModule' = Append(toModule, Request(job[p], n))
          /\ pos' = [pos EXCEPT ![p] = n] /\ pc' = [pc EXCEPT ![p] = "waiting"]
        BY <2>1 DEF Ask
    <2>3. QED  BY <1>1, <1>2, <1>3, <2>1, <2>2
<1>4. CASE ~(n < job[p].len)
    <2>1. Return(p, "ok") /\ UNCHANGED toModule  BY <1>4 DEF Proceed
    <2>2. /\ reply' = [reply EXCEPT ![p] = <<>>] /\ pos' = [pos EXCEPT ![p] = 0]
          /\ pc' = [pc EXCEPT ![p] = "idle"] /\ outcome' = [outcome EXCEPT ![p] = "ok"]
          /\ lockQueue' = Tail(lockQueue)
        BY <2>1 DEF Return
    <2>3. n >= job[p].len  BY <1>1, <1>4
    <2>4. QED  BY <1>1, <1>2, <2>1, <2>2, <2>3
<1>5. QED  BY <1>3, <1>4
(* A step of the task p that has the lock. *)
LEMMA CallerDoes ==
    ASSUME MInv, TableTypes, NEW p \in Callers, CallerStep(p)
    PROVE  /\ UNCHANGED <<eeprom, toBackend, cache, job, lost>>
           /\ lockQueue # <<>> /\ Head(lockQueue) = p
           /\ lockQueue' = lockQueue \/ lockQueue' = Tail(lockQueue)
           /\ pc[p] # "idle" /\ pc'[p] # "lock"
           /\ out' \in [Callers -> Seq(Values)] /\ reply' \in [Callers -> Replies]
           /\ DOMAIN outcome' = Callers /\ reply'[p] = <<>>
           /\ \A q \in Callers \ {p} : /\ pc'[q] = pc[q] /\ pos'[q] = pos[q] /\ out'[q] = out[q]
                                       /\ outcome'[q] = outcome[q] /\ reply'[q] = reply[q]
           /\ \/ toModule' = toModule /\ (job[p].op = "write" => Asked(p)' \in {0, Asked(p)})
              \/ /\ Asked(p) \in Nat /\ Asked(p) < job[p].len
                 /\ toModule' = Append(toModule, Request(job[p], Asked(p)))
                 /\ Asked(p)' = Asked(p) + Chunk(job[p], Asked(p))
<1>1. /\ pc \in [Callers -> PCs] /\ pos \in [Callers -> Nat] /\ DOMAIN outcome = Callers
      /\ reply \in [Callers -> Replies] /\ out \in [Callers -> Seq(Values)]
      /\ job[p] \in Jobs /\ job[p].len \in Nat \ {0} /\ job[p].start \in Nat
      /\ \A a \in DOMAIN cache : cache[a] \in Values
      /\ pos[p] <= job[p].len /\ (pc[p] = "waiting" => pos[p] < job[p].len)
    BY JobsAssumption, SizeAssumption DEF MInv, CallInv, Progress, BusInv, BusTypes, TableTypes, Job, Addr
<1>2. pc[p] # "idle" /\ (pc[p] = "lock" => Head(lockQueue) = p)
    BY DEF CallerStep, Enter, Wake, GapOver, Timeout
<1>3. lockQueue # <<>> /\ Head(lockQueue) = p  BY <1>2, HeadRuns DEF MInv
<1>4. UNCHANGED <<eeprom, toBackend, cache, job, lost>>
    BY DEF CallerStep, Enter, Wake, GapOver, Timeout
<1>5. CASE Enter(p)
    <2>1. Asked(p) = 0  BY <1>5 DEF Enter, Asked
    <2>2. CASE FromCache(job[p])
        <3>1. /\ out' = [out EXCEPT ![p] = Slice(cache, job[p].start, job[p].len)]
              /\ Return(p, "ok") /\ UNCHANGED toModule
            BY <1>5, <2>2 DEF Enter
        <3>2. /\ reply' = [reply EXCEPT ![p] = <<>>] /\ pos' = [pos EXCEPT ![p] = 0]
              /\ pc' = [pc EXCEPT ![p] = "idle"] /\ outcome' = [outcome EXCEPT ![p] = "ok"]
              /\ lockQueue' = Tail(lockQueue)
            BY <3>1 DEF Return
        <3>3. job[p].op = "read" /\ Known(cache, job[p].start, job[p].len)  BY <2>2 DEF FromCache
        <3>4. \A a \in job[p].start .. job[p].start + job[p].len - 1 : cache[a] \in Values
            BY <1>1, <3>3 DEF Known
        <3>5. Slice(cache, job[p].start, job[p].len) \in Seq(Values)  BY <1>1, <3>4, SliceIs
        <3>6. out' \in [Callers -> Seq(Values)]  BY <1>1, <3>1, <3>5
        <3>7. reply' \in [Callers -> Replies]  BY <1>1, <3>2 DEF Replies
        <3>8. job[p].op # "write"  BY <3>3
        <3>9. QED  BY <1>1, <1>2, <1>3, <1>4, <3>1, <3>2, <3>6, <3>7, <3>8
    <2>3. CASE ~FromCache(job[p])
        <3>1. Ask(p, 0) /\ UNCHANGED <<out, outcome, lockQueue>>  BY <1>5, <2>3 DEF Enter
        <3>2. /\ reply' = [reply EXCEPT ![p] = <<>>] /\ toModule' = Append(toModule, Request(job[p], 0))
              /\ pos' = [pos EXCEPT ![p] = 0] /\ pc' = [pc EXCEPT ![p] = "waiting"]
            BY <3>1 DEF Ask
        <3>3. pc'[p] = "waiting" /\ pos'[p] = 0 /\ job'[p] = job[p]  BY <1>1, <1>4, <3>2
        <3>4. Asked(p)' = 0 + Chunk(job[p], 0)  BY <3>3 DEF Asked
        <3>5. reply' \in [Callers -> Replies]  BY <1>1, <3>2 DEF Replies
        <3>6. QED  BY <1>1, <1>2, <1>3, <1>4, <2>1, <3>1, <3>2, <3>3, <3>4, <3>5
    <2>4. QED  BY <2>2, <2>3
<1>6. CASE Wake(p)
    <2>1. pc[p] = "waiting" /\ reply[p] # <<>> /\ pos[p] < job[p].len  BY <1>1, <1>6 DEF Wake
    <2>2. PICK d \in Seq(Values) : reply[p] = <<d>>  BY <1>1, <2>1 DEF Replies
    <2>3. PICK n : n = pos[p] + Chunk(job[p], pos[p])  OBVIOUS
    <2>4. n \in Nat /\ n <= job[p].len /\ Asked(p) = n
        <3>1. Chunk(job[p], pos[p]) \in Nat /\ pos[p] + Chunk(job[p], pos[p]) <= job[p].len
            BY <1>1, <2>1, RequestFact
        <3>2. Asked(p) = n  BY <2>1, <2>3 DEF Asked
        <3>3. QED  BY <1>1, <2>3, <3>1, <3>2
    <2>5. out' \in [Callers -> Seq(Values)] /\ \A q \in Callers \ {p} : out'[q] = out[q]
        <3>1. Taken(p) \in Seq(Values)  BY <2>1, <2>2, TakenIs
        <3>2. out' = [out EXCEPT ![p] = @ \o Taken(p)] \/ out' = out  BY <1>6 DEF Wake
        <3>3. out[p] \o Taken(p) \in Seq(Values)  BY <1>1, <3>1
        <3>4. QED  BY <1>1, <3>2, <3>3
    <2>6. CASE job[p].op = "write" /\ Chunk(job[p], pos[p]) = 1
        <3>1. /\ pc' = [pc EXCEPT ![p] = "gap"] /\ pos' = [pos EXCEPT ![p] = n]
              /\ reply' = [reply EXCEPT ![p] = <<>>] /\ UNCHANGED <<toModule, lockQueue, outcome>>
            BY <1>6, <2>3, <2>6 DEF Wake
        <3>2. pc'[p] = "gap" /\ pos'[p] = n  BY <1>1, <3>1
        <3>3. Asked(p)' = n  BY <3>2 DEF Asked
        <3>4. reply' \in [Callers -> Replies]  BY <1>1, <3>1 DEF Replies
        <3>5. QED  BY <1>1, <1>2, <1>3, <1>4, <2>4, <2>5, <3>1, <3>2, <3>3, <3>4
    <2>7. CASE ~(job[p].op = "write" /\ Chunk(job[p], pos[p]) = 1)
        <3>1. Proceed(p, n)  BY <1>6, <2>3, <2>7 DEF Wake
        <3>2. /\ pc'[p] \in {"waiting", "idle"} /\ reply'[p] = <<>> /\ reply' \in [Callers -> Replies]
              /\ DOMAIN outcome' = Callers
              /\ \A q \in Callers \ {p} : /\ pc'[q] = pc[q] /\ pos'[q] = pos[q]
                                          /\ outcome'[q] = outcome[q] /\ reply'[q] = reply[q]
              /\ lockQueue' = lockQueue \/ lockQueue' = Tail(lockQueue)
              /\ \/ /\ n < job[p].len /\ pc'[p] = "waiting" /\ pos'[p] = n /\ outcome'[p] = outcome[p]
                    /\ toModule' = Append(toModule, Request(job[p], n))
                 \/ /\ n >= job[p].len /\ pc'[p] = "idle" /\ pos'[p] = 0 /\ outcome'[p] = "ok"
                    /\ toModule' = toModule
            BY <2>4, <3>1, ProceedDoes
        <3>3. CASE toModule' = toModule /\ n >= job[p].len /\ pc'[p] = "idle" /\ outcome'[p] = "ok"
            <4>1. Asked(p)' = job[p].len  BY <1>4, <3>3 DEF Asked
            <4>2. Asked(p)' = Asked(p)  BY <1>1, <2>4, <3>3, <4>1
            <4>3. QED  BY <1>2, <1>3, <1>4, <2>5, <3>2, <3>3, <4>2
        <3>4. CASE n < job[p].len /\ pc'[p] = "waiting" /\ pos'[p] = n
                   /\ toModule' = Append(toModule, Request(job[p], n))
            <4>1. Asked(p)' = n + Chunk(job[p], n)  BY <1>4, <3>4 DEF Asked
            <4>2. QED  BY <1>2, <1>3, <1>4, <2>4, <2>5, <3>2, <3>4, <4>1
        <3>5. QED  BY <3>2, <3>3, <3>4
    <2>8. QED  BY <2>6, <2>7
<1>7. CASE GapOver(p)
    <2>1. pc[p] = "gap" /\ Proceed(p, pos[p]) /\ out' = out  BY <1>7 DEF GapOver
    <2>2. PICK n \in Nat : n = pos[p]  BY <1>1
    <2>3. Asked(p) = n /\ n <= job[p].len  BY <1>1, <2>1, <2>2 DEF Asked
    <2>4. Proceed(p, n)  BY <2>1, <2>2
    <2>5. /\ pc'[p] \in {"waiting", "idle"} /\ reply'[p] = <<>> /\ reply' \in [Callers -> Replies]
          /\ DOMAIN outcome' = Callers
          /\ \A q \in Callers \ {p} : /\ pc'[q] = pc[q] /\ pos'[q] = pos[q]
                                      /\ outcome'[q] = outcome[q] /\ reply'[q] = reply[q]
          /\ lockQueue' = lockQueue \/ lockQueue' = Tail(lockQueue)
          /\ \/ /\ n < job[p].len /\ pc'[p] = "waiting" /\ pos'[p] = n /\ outcome'[p] = outcome[p]
                /\ toModule' = Append(toModule, Request(job[p], n))
             \/ /\ n >= job[p].len /\ pc'[p] = "idle" /\ pos'[p] = 0 /\ outcome'[p] = "ok"
                /\ toModule' = toModule
        BY <2>4, ProceedDoes
    <2>6. CASE toModule' = toModule /\ n >= job[p].len /\ pc'[p] = "idle" /\ outcome'[p] = "ok"
        <3>1. Asked(p)' = job[p].len  BY <1>4, <2>6 DEF Asked
        <3>2. Asked(p)' = Asked(p)  BY <1>1, <2>3, <2>6, <3>1
        <3>3. QED  BY <1>1, <1>2, <1>3, <1>4, <2>1, <2>5, <2>6, <3>2
    <2>7. CASE n < job[p].len /\ pc'[p] = "waiting" /\ pos'[p] = n
               /\ toModule' = Append(toModule, Request(job[p], n))
        <3>1. Asked(p)' = n + Chunk(job[p], n)  BY <1>4, <2>7 DEF Asked
        <3>2. QED  BY <1>1, <1>2, <1>3, <1>4, <2>1, <2>3, <2>5, <2>7, <3>1
    <2>8. QED  BY <2>5, <2>6, <2>7
<1>8. CASE Timeout(p)
    <2>1. Return(p, "timeout") /\ toModule' = toModule /\ out' = out  BY <1>8 DEF Timeout
    <2>2. /\ reply' = [reply EXCEPT ![p] = <<>>] /\ pos' = [pos EXCEPT ![p] = 0]
          /\ pc' = [pc EXCEPT ![p] = "idle"] /\ outcome' = [outcome EXCEPT ![p] = "timeout"]
          /\ lockQueue' = Tail(lockQueue)
        BY <2>1 DEF Return
    <2>3. pc'[p] = "idle" /\ outcome'[p] = "timeout"  BY <1>1, <2>2
    <2>4. Asked(p)' = 0  BY <2>3 DEF Asked
    <2>5. reply' \in [Callers -> Replies]  BY <1>1, <2>2 DEF Replies
    <2>6. QED  BY <1>1, <1>2, <1>3, <1>4, <2>1, <2>2, <2>3, <2>4, <2>5
<1>9. QED  BY <1>5, <1>6, <1>7, <1>8 DEF CallerStep
-----------------------------------------------------------------------------
(* A task that runs returns, or calls the backend. *)
Turns(p) ==
    \/ Leave(p)
    \/ \E s \in Slots, e \in Entries : Write(p, s, e) /\ slots' # <<>> /\ Fits(todo[p], slots'[1], s, e)
    \/ \E cached \in BOOLEAN : /\ Call(p, ReadJob(cached)) /\ at[p] = "begin" /\ slots = <<>>
                               /\ at' = [at EXCEPT ![p] = "read"] /\ entry' = entry

Own == /\ at \in [Callers -> {"none", "begin", "read", "write"}]
       /\ DOMAIN todo = Callers /\ \A p \in Callers : at[p] # "none" => todo[p] \in TableOps
       /\ entry \in [Callers -> [slot : Slots \cup {NoSlot}, is : Entries]]
       /\ out \in [Callers -> Seq(Values)] /\ DOMAIN outcome = Callers
       /\ reply \in [Callers -> Replies]

(* A task that goes on to another call keeps to the backend's own rules. *)
LEMMA TurnsKeep ==
    ASSUME MInv, TableTypes, Awaits, NEW p \in Callers, Turns(p), pc[p] = "idle", at[p] # "none",
           todo' = todo, \A q \in Callers : q # p => next'[q] = next[q],
           next'[p] # {} => at'[p] = "write" /\ todo[p].op = "clearSource"
    PROVE  Own' /\ Awaits' /\ [MNext]_mvars
<1>1. Own  BY DEF TableTypes, Own
<1>2. /\ pc \in [Callers -> PCs] /\ job \in [Callers -> Jobs]  BY DEF MInv, CallInv, Progress
<1>3. CASE Leave(p)
    <2>1. at' = [at EXCEPT ![p] = "none"] /\ entry' = entry /\ UNCHANGED mvars  BY <1>3 DEF Leave
    <2>2. pc' = pc /\ job' = job /\ out' = out /\ outcome' = outcome /\ reply' = reply  BY <2>1 DEF mvars
    <2>3. Own'  BY <1>1, <2>1, <2>2 DEF Own
    <2>4. at'[p] = "none" /\ \A q \in Callers : q # p => at'[q] = at[q]  BY <1>1, <2>1 DEF Own
    <2>5. Awaits'
        <3> SUFFICES ASSUME NEW q \in Callers
                     PROVE  /\ at'[q] \in {"none", "begin"} => pc'[q] = "idle"
                            /\ next'[q] # {} => at'[q] = "write" /\ todo'[q].op = "clearSource"
                            /\ at'[q] = "read" => \E cached \in BOOLEAN : job'[q] = ReadJob(cached)
                            /\ at'[q] = "write" => /\ entry'[q].slot \in Slots
                                                   /\ job'[q] = WriteJob(entry'[q].slot, entry'[q].is)
            BY DEF Awaits
        <3>1. CASE q = p  BY <2>2, <2>4, <3>1
        <3>2. CASE q # p  BY <2>1, <2>2, <2>4, <3>2 DEF Awaits
        <3>3. QED  BY <3>1, <3>2
    <2>6. QED  BY <2>1, <2>3, <2>5
<1>4. ASSUME NEW s \in Slots, NEW e \in Entries, Write(p, s, e) PROVE Own' /\ Awaits' /\ [MNext]_mvars
    <2>1. WriteJob(s, e) \in Jobs /\ WriteJob(s, e).op = "write"  BY JobFacts, WriteJobIs
    <2>2. /\ Call(p, WriteJob(s, e)) /\ at' = [at EXCEPT ![p] = "write"]
          /\ entry' = [entry EXCEPT ![p] = [slot |-> s, is |-> e]]
        BY <1>4 DEF Write
    <2>3. /\ out' \in [Callers -> Seq(Values)] /\ DOMAIN outcome' = Callers /\ reply' = reply
          /\ job'[p] = WriteJob(s, e)
          /\ \A q \in Callers \ {p} : pc'[q] = pc[q] /\ job'[q] = job[q]
        BY <2>1, <2>2, CallDoes
    <2>4. at'[p] = "write" /\ \A q \in Callers : q # p => at'[q] = at[q] /\ entry'[q] = entry[q]
        BY <1>1, <2>2 DEF Own
    <2>5. entry'[p] = [slot |-> s, is |-> e] /\ entry'[p].slot = s /\ entry'[p].is = e
        BY <1>1, <2>2 DEF Own
    <2>6. Own'  BY <1>1, <2>2, <2>3 DEF Own
    <2>7. Awaits'
        <3> SUFFICES ASSUME NEW q \in Callers
                     PROVE  /\ at'[q] \in {"none", "begin"} => pc'[q] = "idle"
                            /\ next'[q] # {} => at'[q] = "write" /\ todo'[q].op = "clearSource"
                            /\ at'[q] = "read" => \E cached \in BOOLEAN : job'[q] = ReadJob(cached)
                            /\ at'[q] = "write" => /\ entry'[q].slot \in Slots
                                                   /\ job'[q] = WriteJob(entry'[q].slot, entry'[q].is)
            BY DEF Awaits
        <3>1. CASE q = p  BY <2>3, <2>4, <2>5, <3>1
        <3>2. CASE q # p  BY <2>3, <2>4, <3>2 DEF Awaits
        <3>3. QED  BY <3>1, <3>2
    <2>8. MNext  BY <2>1, <2>2 DEF MNext
    <2>9. QED  BY <2>6, <2>7, <2>8
<1>5. ASSUME NEW cached \in BOOLEAN, Call(p, ReadJob(cached)), at' = [at EXCEPT ![p] = "read"], entry' = entry
      PROVE  Own' /\ Awaits' /\ [MNext]_mvars
    <2>1. ReadJob(cached) \in Jobs  BY JobFacts
    <2>2. /\ out' \in [Callers -> Seq(Values)] /\ DOMAIN outcome' = Callers /\ reply' = reply
          /\ job'[p] = ReadJob(cached)
          /\ \A q \in Callers \ {p} : pc'[q] = pc[q] /\ job'[q] = job[q]
        BY <1>5, <2>1, CallDoes
    <2>3. at'[p] = "read" /\ \A q \in Callers : q # p => at'[q] = at[q]  BY <1>1, <1>5 DEF Own
    <2>4. Own'  BY <1>1, <1>5, <2>2 DEF Own
    <2>5. Awaits'
        <3> SUFFICES ASSUME NEW q \in Callers
                     PROVE  /\ at'[q] \in {"none", "begin"} => pc'[q] = "idle"
                            /\ next'[q] # {} => at'[q] = "write" /\ todo'[q].op = "clearSource"
                            /\ at'[q] = "read" => \E c \in BOOLEAN : job'[q] = ReadJob(c)
                            /\ at'[q] = "write" => /\ entry'[q].slot \in Slots
                                                   /\ job'[q] = WriteJob(entry'[q].slot, entry'[q].is)
            BY DEF Awaits
        <3>1. CASE q = p  BY <2>2, <2>3, <3>1
        <3>2. CASE q # p  BY <1>5, <2>2, <2>3, <3>2, SMTT(30) DEF Awaits
        <3>3. QED  BY <3>1, <3>2
    <2>6. MNext  BY <1>5, <2>1 DEF MNext
    <2>7. QED  BY <2>4, <2>5, <2>6
<1>6. QED  BY <1>3, <1>4, <1>5 DEF Turns
(* What the list, and what is known of the slots, become when a task runs on. *)
ListRead(p) ==
    /\ at[p] = "read" /\ outcome[p] = "ok" /\ Len(out[p]) >= TableLen
    /\ slots' = <<Decoded(out[p])>> /\ UNCHANGED <<programmed, doubtful>>

Entered(p) ==
    /\ at[p] = "write" /\ outcome[p] = "ok"
    /\ slots' = <<[(IF slots = <<>> THEN [s \in Slots |-> Blank] ELSE slots[1])
                       EXCEPT ![entry[p].slot] = entry[p].is]>>
    /\ programmed' = [programmed EXCEPT ![entry[p].slot] = entry[p].is]
    /\ doubtful' = doubtful \ {entry[p].slot}

GivenUp(p) ==
    /\ at[p] = "write" /\ outcome[p] = "timeout" /\ doubtful' = doubtful \cup {entry[p].slot}
    /\ UNCHANGED <<slots, programmed>> /\ Leave(p)

NothingNew(p) ==
    /\ at[p] \in {"begin", "read"} /\ UNCHANGED <<slots, programmed, doubtful>>
    /\ \/ Leave(p)
       \/ at[p] = "begin"

(* The four ways in which a task goes on after a call of the backend: with
   the list it has read, with an entry written, giving up, or with nothing
   new.                                                                      *)
LEMMA ContinueDoes ==
    ASSUME MInv, TableTypes, Awaits, NEW p \in Callers, Continue(p)
    PROVE  /\ Turns(p) /\ pc[p] = "idle" /\ at[p] # "none" /\ UNCHANGED <<todo, alone, apart>>
           /\ next' \in [Callers -> SUBSET Slots] /\ \A q \in Callers : q # p => next'[q] = next[q]
           /\ next'[p] # {} => at'[p] = "write" /\ todo[p].op = "clearSource"
           /\ ListRead(p) \/ Entered(p) \/ GivenUp(p) \/ NothingNew(p)
<1>1. /\ next \in [Callers -> SUBSET Slots] /\ at \in [Callers -> {"none", "begin", "read", "write"}]
      /\ (at[p] # "none" => todo[p] \in TableOps)
      /\ (next[p] # {} => at[p] = "write" /\ todo[p].op = "clearSource")
    BY DEF TableTypes, Awaits
<1>2. ASSUME NEW f, Loaded(p, todo[p], f), slots' # <<>>, slots'[1] = f, at[p] \in {"begin", "read"}
      PROVE  /\ Turns(p) /\ next' \in [Callers -> SUBSET Slots] /\ \A q \in Callers : q # p => next'[q] = next[q]
             /\ next'[p] # {} => at'[p] = "write" /\ todo[p].op = "clearSource"
    <2>1. todo[p] \in TableOps /\ next[p] = {}  BY <1>1, <1>2
    <2>2. /\ next' \in [Callers -> SUBSET Slots] /\ \A q \in Callers : q # p => next'[q] = next[q]
          /\ \/ Leave(p) /\ next' = next
             \/ \E s \in Slots, e \in Entries : /\ Write(p, s, e) /\ Fits(todo[p], f, s, e)
                                                /\ next' = next \/ todo[p].op = "clearSource"
        BY <1>1, <1>2, <2>1, LoadedDoes
    <2>3. CASE Leave(p) /\ next' = next  BY <2>1, <2>2, <2>3 DEF Turns
    <2>4. ASSUME NEW s \in Slots, NEW e \in Entries, Write(p, s, e), Fits(todo[p], f, s, e),
                 next' = next \/ todo[p].op = "clearSource"
          PROVE  Turns(p) /\ (next'[p] # {} => at'[p] = "write" /\ todo[p].op = "clearSource")
        <3>1. Turns(p)  BY <1>2, <2>4 DEF Turns
        <3>2. at'[p] = "write"  BY <1>1, <2>4 DEF Write
        <3>3. QED  BY <2>1, <2>4, <3>1, <3>2
    <2>5. QED  BY <2>2, <2>3, <2>4
<1>3. CASE Load(p)
    <2>1. at[p] = "begin" /\ UNCHANGED <<slots, todo, programmed, doubtful, alone, apart>>  BY <1>3 DEF Load
    <2>2. pc[p] = "idle"  BY <2>1 DEF Awaits
    <2>3. NothingNew(p)  BY <2>1 DEF NothingNew
    <2>4. CASE slots # <<>>
        <3>1. Loaded(p, todo[p], slots[1])  BY <1>3, <2>4 DEF Load
        <3>2. QED  BY <1>2, <2>1, <2>2, <2>3, <2>4, <3>1
    <2>5. CASE slots = <<>>
        <3>1. /\ Call(p, ReadJob(todo[p].op # "reload")) /\ at' = [at EXCEPT ![p] = "read"]
              /\ UNCHANGED <<entry, next>>
            BY <1>3, <2>5 DEF Load
        <3>2. (todo[p].op # "reload") \in BOOLEAN  OBVIOUS
        <3>3. Turns(p)  BY <2>1, <2>5, <3>1, <3>2 DEF Turns
        <3>4. next[p] = {}  BY <1>1, <2>1
        <3>5. QED  BY <1>1, <2>1, <2>2, <2>3, <3>1, <3>3, <3>4
    <2>6. QED  BY <2>4, <2>5
<1>4. CASE ReadDone(p)
    <2>1. at[p] = "read" /\ pc[p] = "idle" /\ outcome[p] = "ok"
          /\ UNCHANGED <<todo, programmed, doubtful, alone, apart>>
        BY <1>4 DEF ReadDone
    <2>2. CASE Len(out[p]) < TableLen
        <3>1. Leave(p) /\ UNCHANGED <<slots, next>>  BY <1>4, <2>2 DEF ReadDone
        <3>2. NothingNew(p) /\ Turns(p)  BY <2>1, <3>1 DEF NothingNew, Turns
        <3>3. QED  BY <1>1, <2>1, <3>1, <3>2
    <2>3. CASE ~(Len(out[p]) < TableLen)
        <3>1. slots' = <<Decoded(out[p])>> /\ Loaded(p, todo[p], Decoded(out[p]))  BY <1>4, <2>3 DEF ReadDone
        <3>2. slots' # <<>> /\ slots'[1] = Decoded(out[p])  BY <3>1
        <3>3. Len(out[p]) >= TableLen
            <4>1. out[p] \in Seq(Values)  BY DEF TableTypes
            <4>2. QED  BY <2>3, <4>1, Sizes
        <3>4. ListRead(p)  BY <2>1, <3>1, <3>3 DEF ListRead
        <3>5. QED  BY <1>2, <2>1, <3>1, <3>2, <3>4
    <2>4. QED  BY <2>2, <2>3
<1>5. CASE WriteDone(p)
    <2>1. at[p] = "write" /\ pc[p] = "idle" /\ UNCHANGED <<todo, alone, apart>> /\ Entered(p)
        BY <1>5 DEF WriteDone, Entered
    <2>2. slots' # <<>>  BY <2>1 DEF Entered
    <2>3. CASE next[p] = {}
        <3>1. Leave(p) /\ UNCHANGED next  BY <1>5, <2>3 DEF WriteDone
        <3>2. QED  BY <1>1, <2>1, <2>3, <3>1 DEF Turns
    <2>4. CASE next[p] # {}
        <3>1. Write(p, First(next[p]), Blank) /\ next' = [next EXCEPT ![p] = @ \ {First(@)}]
            BY <1>5, <2>4 DEF WriteDone
        <3>2. next[p] \in SUBSET Slots  BY <1>1
        <3>3. First(next[p]) \in Slots  BY <2>4, <3>2, FirstIn
        <3>4. Blank \in Entries  BY DEF Entries
        <3>5. todo[p].op = "clearSource"  BY <1>1, <2>4
        <3>6. Fits(todo[p], slots'[1], First(next[p]), Blank)  BY <3>3, <3>5, ClearedOnce DEF Fits, Keeps
        <3>7. Turns(p)  BY <2>2, <3>1, <3>3, <3>4, <3>6 DEF Turns
        <3>8. at'[p] = "write"  BY <1>1, <3>1 DEF Write
        <3>9. next' \in [Callers -> SUBSET Slots] /\ \A q \in Callers : q # p => next'[q] = next[q]
            BY <1>1, <3>1, <3>2
        <3>10. QED  BY <2>1, <3>5, <3>7, <3>8, <3>9
    <2>5. QED  BY <2>3, <2>4
<1>6. CASE Failed(p)
    <2>1. /\ at[p] \in {"read", "write"} /\ pc[p] = "idle" /\ outcome[p] = "timeout" /\ Leave(p)
          /\ next' = [next EXCEPT ![p] = {}] /\ UNCHANGED <<slots, todo, programmed, alone, apart>>
          /\ doubtful' = doubtful \cup (IF at[p] = "write" THEN {entry[p].slot} ELSE {})
        BY <1>6 DEF Failed
    <2>2. next' \in [Callers -> SUBSET Slots] /\ next'[p] = {} /\ \A q \in Callers : q # p => next'[q] = next[q]
        BY <1>1, <2>1
    <2>3. Turns(p)  BY <2>1 DEF Turns
    <2>4. CASE at[p] = "read"
        <3>1. NothingNew(p)  BY <2>1, <2>4 DEF NothingNew
        <3>2. QED  BY <2>1, <2>2, <2>3, <3>1
    <2>5. CASE at[p] = "write"
        <3>1. GivenUp(p)  BY <2>1, <2>5 DEF GivenUp
        <3>2. QED  BY <2>1, <2>2, <2>3, <3>1
    <2>6. QED  BY <2>1, <2>4, <2>5
<1>7. QED  BY <1>3, <1>4, <1>5, <1>6 DEF Continue
-----------------------------------------------------------------------------
(* The table's variables keep their types, a task awaits the call it made, and
   what a table does to the memory backend are calls of it.                  *)
LEMMA ContinueTypes ==
    ASSUME MInv, TableTypes, Awaits, NEW p \in Callers, Continue(p)
    PROVE  TableTypes' /\ Awaits' /\ [MNext]_mvars
<1>1. /\ Turns(p) /\ pc[p] = "idle" /\ at[p] # "none" /\ UNCHANGED <<todo, alone, apart>>
      /\ next' \in [Callers -> SUBSET Slots] /\ \A q \in Callers : q # p => next'[q] = next[q]
      /\ next'[p] # {} => at'[p] = "write" /\ todo[p].op = "clearSource"
      /\ ListRead(p) \/ Entered(p) \/ GivenUp(p) \/ NothingNew(p)
    BY ContinueDoes
<1>2. Own' /\ Awaits' /\ [MNext]_mvars  BY <1>1, TurnsKeep
<1>3. /\ doubtful \subseteq Slots /\ programmed \in [Slots -> Entry] /\ ListOK
      /\ entry \in [Callers -> [slot : Slots \cup {NoSlot}, is : Entries]]
      /\ out[p] \in Seq(Values)
    BY DEF TableTypes
<1>4. doubtful' \subseteq Slots /\ programmed' \in [Slots -> Entry] /\ ListOK'
    <2>1. CASE ListRead(p)
        <3>1. Decoded(out[p]) \in [Slots -> Entry]  BY <1>3, <2>1, DecodedIs DEF ListRead
        <3>2. QED  BY <1>3, <2>1, <3>1 DEF ListRead, ListOK
    <2>2. CASE Entered(p)
        <3>1. entry[p].slot \in Slots  BY <2>2 DEF Entered, Awaits
        <3>2. entry[p].is \in Entry  BY <1>3, EntryFacts
        <3>3. [s \in Slots |-> Blank] \in [Slots -> Entry]
            <4>1. Blank \in Entries  BY DEF Entries
            <4>2. Blank \in Entry  BY <4>1, EntryFacts
            <4>3. QED  BY <4>2
        <3>4. PICK f : f = IF slots = <<>> THEN [s \in Slots |-> Blank] ELSE slots[1]  OBVIOUS
        <3>5. f \in [Slots -> Entry]  BY <1>3, <3>3, <3>4 DEF ListOK
        <3>6. slots' = <<[f EXCEPT ![entry[p].slot] = entry[p].is]>>  BY <2>2, <3>4 DEF Entered
        <3>7. [f EXCEPT ![entry[p].slot] = entry[p].is] \in [Slots -> Entry]  BY <3>1, <3>2, <3>5
        <3>8. ListOK'  BY <3>6, <3>7 DEF ListOK
        <3>9. programmed' \in [Slots -> Entry]  BY <1>3, <2>2, <3>1, <3>2 DEF Entered
        <3>10. QED  BY <1>3, <2>2, <3>8, <3>9 DEF Entered
    <2>3. CASE GivenUp(p)
        <3>1. entry[p].slot \in Slots  BY <2>3 DEF GivenUp, Awaits
        <3>2. QED  BY <1>3, <2>3, <3>1 DEF GivenUp, ListOK
    <2>4. CASE NothingNew(p)  BY <1>3, <2>4 DEF NothingNew, ListOK
    <2>5. QED  BY <1>1, <2>1, <2>2, <2>3, <2>4
<1>5. QED  BY <1>1, <1>2, <1>4 DEF Own, TableTypes

(* A new operation keeps the types, and is a step of the backend. *)
LEMMA BeginTypes ==
    ASSUME MInv, TableTypes, Awaits, NEW p \in Callers, NEW o \in TableOps, Begin(p, o)
    PROVE  TableTypes' /\ Awaits' /\ [MNext]_mvars
<1>1. /\ at[p] = "none" /\ at' = [at EXCEPT ![p] = "begin"] /\ todo' = [todo EXCEPT ![p] = o]
      /\ UNCHANGED <<entry, next, programmed>>
    BY DEF Begin
<1>2. \/ slots' = <<>> /\ Invalidate(Covers(0, TableLen)) /\ doubtful' \subseteq doubtful \cup Slots
      \/ UNCHANGED <<slots, doubtful, mvars>>
    BY DEF Begin
<1>3. pc' = pc /\ job' = job /\ out' = out /\ outcome' = outcome /\ reply' = reply
    BY <1>2 DEF mvars, Invalidate, callVars
<1>4. [MNext]_mvars
    <2>1. CASE Invalidate(Covers(0, TableLen))
        <3>1. ReadJob(TRUE) \in Jobs /\ ReadJob(TRUE).start = 0 /\ ReadJob(TRUE).len = TableLen
            BY JobFacts, ReadJobIs
        <3>2. Invalidate(Covers(ReadJob(TRUE).start, ReadJob(TRUE).len))  BY <2>1, <3>1
        <3>3. QED  BY <3>1, <3>2 DEF MNext
    <2>2. QED  BY <1>2, <2>1
<1>5. at \in [Callers -> {"none", "begin", "read", "write"}] /\ DOMAIN todo = Callers  BY DEF TableTypes
<1>6. /\ at'[p] = "begin" /\ todo'[p] = o
      /\ \A q \in Callers : q # p => at'[q] = at[q] /\ todo'[q] = todo[q]
    BY <1>1, <1>5
<1>7. ListOK' /\ doubtful' \subseteq Slots  BY <1>2 DEF TableTypes, ListOK
<1>8. TableTypes'
    <2>1. \A q \in Callers : at'[q] # "none" => todo'[q] \in TableOps  BY <1>6 DEF TableTypes
    <2>2. at' \in [Callers -> {"none", "begin", "read", "write"}] /\ DOMAIN todo' = Callers  BY <1>1, <1>5
    <2>3. QED  BY <1>1, <1>3, <1>7, <2>1, <2>2 DEF TableTypes
<1>9. Awaits'
    <2> SUFFICES ASSUME NEW q \in Callers
                 PROVE  /\ at'[q] \in {"none", "begin"} => pc'[q] = "idle"
                        /\ next'[q] # {} => at'[q] = "write" /\ todo'[q].op = "clearSource"
                        /\ at'[q] = "read" => \E cached \in BOOLEAN : job'[q] = ReadJob(cached)
                        /\ at'[q] = "write" => /\ entry'[q].slot \in Slots
                                               /\ job'[q] = WriteJob(entry'[q].slot, entry'[q].is)
        BY DEF Awaits
    <2>1. CASE q = p  BY <1>1, <1>3, <1>6, <2>1 DEF Awaits
    <2>2. CASE q # p  BY <1>1, <1>3, <1>6, <2>2 DEF Awaits
    <2>3. QED  BY <2>1, <2>2
<1>10. QED  BY <1>4, <1>8, <1>9

(* The steps of the backend and the bus. *)
Carries == Feed \/ ModuleAnswers \/ LoseRequest \/ LoseReply

(* Steps below the table: of a call, or of the messages; none touches the
   table.                                                                    *)
LEMMA MemoryIs ==
    ASSUME Memory
    PROVE  /\ (\E p \in Callers : CallerStep(p)) \/ Carries
           /\ UNCHANGED <<slots, at, todo, entry, next, programmed, doubtful, alone, apart, ops>>
           /\ [MNext]_mvars
<1>1. CASE (\E p \in Callers : Enter(p) \/ Wake(p) \/ GapOver(p)) /\ UNCHANGED tableVars
    BY <1>1 DEF CallerStep, tableVars, MNext
<1>2. CASE (\E p \in Callers : Timeout(p))
           /\ UNCHANGED <<slots, at, todo, entry, next, programmed, doubtful, alone, apart, ops>>
    BY <1>2 DEF CallerStep, MNext
<1>3. CASE Carries /\ UNCHANGED tableVars
    BY <1>3 DEF Carries, tableVars, MNext
<1>4. QED  BY <1>1, <1>2, <1>3 DEF Memory, Carries

(* Messages that travel touch no call but the one that gets its reply. *)
LEMMA CarriesDoes ==
    ASSUME MInv, TableTypes, Carries
    PROVE  /\ UNCHANGED <<lockQueue, pc, job, pos, out, outcome, waiters>>
           /\ reply' \in [Callers -> Replies]
<1>1. CASE Feed
    <2>1. toBackend # <<>> /\ toBackend \in Seq(Rep)  BY <1>1 DEF Feed, MInv, BusInv, BusTypes
    <2>2. PICK m : m = Head(toBackend)  OBVIOUS
    <2>3. m \in Rep  BY <2>1, <2>2
    <2>4. m.data \in Seq(Values)  BY <2>3 DEF Rep
    <2>5. reply' = [p \in Callers |->
                       IF m.addr \in DOMAIN waiters /\ waiters[m.addr] = p /\ reply[p] = <<>>
                       THEN <<m.data>> ELSE reply[p]]
        BY <1>1, <2>2 DEF Feed
    <2>6. reply \in [Callers -> Replies]  BY DEF TableTypes
    <2>7. <<m.data>> \in Replies  BY <2>4 DEF Replies
    <2>8. reply' \in [Callers -> Replies]  BY <2>5, <2>6, <2>7
    <2>9. QED  BY <1>1, <2>8 DEF Feed
<1>2. CASE ModuleAnswers \/ LoseRequest \/ LoseReply
    BY <1>2 DEF ModuleAnswers, LoseRequest, LoseReply, callVars, TableTypes
<1>3. QED  BY <1>1, <1>2 DEF Carries

(* Steps below the table keep its types. *)
LEMMA MemoryTypesKept ==
    ASSUME MInv, TableTypes, Awaits, Memory
    PROVE  TableTypes' /\ Awaits' /\ [MNext]_mvars
<1>1. /\ UNCHANGED <<slots, at, todo, entry, next, programmed, doubtful>> /\ [MNext]_mvars
    BY MemoryIs
<1>2. ASSUME NEW p \in Callers, CallerStep(p) PROVE TableTypes' /\ Awaits'
    <2>1. /\ job' = job /\ pc[p] # "idle"
          /\ out' \in [Callers -> Seq(Values)] /\ reply' \in [Callers -> Replies] /\ DOMAIN outcome' = Callers
          /\ \A q \in Callers \ {p} : pc'[q] = pc[q]
        BY <1>2, CallerDoes
    <2>2. TableTypes'  BY <1>1, <2>1 DEF TableTypes, ListOK
    <2>3. Awaits'
        <3> SUFFICES ASSUME NEW q \in Callers
                     PROVE  /\ at'[q] \in {"none", "begin"} => pc'[q] = "idle"
                            /\ next'[q] # {} => at'[q] = "write" /\ todo'[q].op = "clearSource"
                            /\ at'[q] = "read" => \E cached \in BOOLEAN : job'[q] = ReadJob(cached)
                            /\ at'[q] = "write" => /\ entry'[q].slot \in Slots
                                                   /\ job'[q] = WriteJob(entry'[q].slot, entry'[q].is)
            BY DEF Awaits
        <3>1. QED  BY <1>1, <2>1 DEF Awaits
    <2>4. QED  BY <2>2, <2>3
<1>3. CASE Carries
    <2>1. UNCHANGED <<pc, job, out, outcome>> /\ reply' \in [Callers -> Replies]  BY <1>3, CarriesDoes
    <2>2. TableTypes' /\ Awaits'  BY <1>1, <2>1 DEF TableTypes, ListOK, Awaits
    <2>3. QED  BY <1>1, <2>2
<1>4. QED  BY <1>1, <1>2, <1>3, MemoryIs

(* Every step of a table keeps the types, and is one of the backend's or
   leaves it alone.                                                          *)
LEMMA BaseStep ==
    ASSUME MInv, TableTypes, Awaits, [ANext]_avars
    PROVE  TableTypes' /\ Awaits' /\ [MNext]_mvars
<1>1. CASE \E p \in Callers : Continue(p)  BY <1>1, ContinueTypes
<1>2. CASE Memory  BY <1>2, MemoryTypesKept
<1>3. CASE \E p \in Callers, o \in TableOps : Begin(p, o)  BY <1>3, BeginTypes
<1>4. CASE UNCHANGED avars
    <2>1. UNCHANGED mvars /\ UNCHANGED <<slots, at, todo, entry, next, programmed, doubtful>>
        BY <1>4 DEF avars, tableVars
    <2>2. UNCHANGED <<pc, job, out, outcome, reply>>  BY <2>1 DEF mvars
    <2>3. TableTypes' /\ Awaits'  BY <2>1, <2>2 DEF TableTypes, ListOK, Awaits
    <2>4. QED  BY <2>1, <2>3
<1>5. QED  BY <1>1, <1>2, <1>3, <1>4 DEF ANext, Running

(* A new table is over a new backend. *)
LEMMA BaseInit == AInit => MInit /\ TableTypes /\ Awaits
<1> SUFFICES ASSUME AInit PROVE MInit /\ TableTypes /\ Awaits  OBVIOUS
<1>1. /\ MInit /\ slots = <<>> /\ at = [p \in Callers |-> "none"] /\ next = [p \in Callers |-> {}]
      /\ DOMAIN todo = Callers /\ entry = [p \in Callers |-> [slot |-> NoSlot, is |-> Blank]]
      /\ programmed = Decoded(Slice(eeprom, 0, TableLen)) /\ doubtful = {}
    BY DEF AInit
<1>2. /\ out = [p \in Callers |-> <<>>] /\ reply = [p \in Callers |-> <<>>]
      /\ pc = [p \in Callers |-> "idle"] /\ DOMAIN outcome = Callers /\ eeprom \in [Addr -> Values]
    BY <1>1, ContentsAssumption DEF MInit
<1>3. programmed \in [Slots -> Entry]
    <2>1. \A a \in 0 .. 0 + TableLen - 1 : eeprom[a] \in Values  BY <1>2, Sizes DEF Addr
    <2>2. 0 \in Nat /\ TableLen \in Nat  BY Sizes
    <2>3. Slice(eeprom, 0, TableLen) \in Seq(Values) /\ Len(Slice(eeprom, 0, TableLen)) = TableLen
        BY <2>1, <2>2, SliceIs
    <2>4. QED  BY <1>1, <2>2, <2>3, DecodedIs
<1>4. Blank \in Entries  BY DEF Entries
<1>5. TableTypes
    <2>1. entry \in [Callers -> [slot : Slots \cup {NoSlot}, is : Entries]]  BY <1>1, <1>4
    <2>2. out \in [Callers -> Seq(Values)] /\ reply \in [Callers -> Replies]  BY <1>2 DEF Replies
    <2>3. QED  BY <1>1, <1>2, <1>3, <2>1, <2>2 DEF TableTypes, ListOK
<1>6. Awaits
    <2> SUFFICES ASSUME NEW p \in Callers
                 PROVE  at[p] = "none" /\ next[p] = {} /\ pc[p] = "idle"
        BY DEF Awaits
    <2>1. QED  BY <1>1, <1>2
<1>7. QED  BY <1>1, <1>5, <1>6

(* The types of a table, and the invariant of the backend under it. *)
Base == TableTypes /\ Awaits /\ MInv

(* At all times variables have their types, awaited tasks are those the table
   waits for, and the backend below is as its own invariant says.            *)
THEOREM TableInductive == ASpec => []Base
<1>1. AInit => Base  BY BaseInit, InitInv DEF Base
<1>2. Base /\ [ANext]_avars => Base'  BY BaseStep, NextInv DEF Base
<1>3. QED  BY <1>1, <1>2, PTL DEF ASpec

(* _SharedSlotStore and ActionTable use the memory as MemoryBackend says: their
   calls, whatever operations overlap, are calls of the backend.             *)
THEOREM TableUsesMemory == ASpec => MSpec
<1>1. AInit => MInit  BY BaseInit
<1>2. Base /\ [ANext]_avars => [MNext]_mvars  BY BaseStep DEF Base
<1>3. QED  BY <1>1, <1>2, TableInductive, PTL DEF ASpec, MSpec

(* So under the tables, too, whatever is lost or timed out: one request of the
   backend is out at a time, the cache follows the EEPROM, and a call that is
   alone on the bus does what it says.                                       *)
THEOREM MemoryUnderTable == ASpec => [](OneAtATime /\ CacheFollows) /\ ConfirmedWhenQuiet
BY TableUsesMemory, LockHolds, CacheIsSound, QuietIsConfirmed, PTL
-----------------------------------------------------------------------------
(* The three bytes of a slot. *)
LEMMA SlotBytes ==
    ASSUME NEW s \in Slots
    PROVE  /\ s * SlotSize \in Addr /\ s * SlotSize + 1 \in Addr /\ s * SlotSize + 2 \in Addr
           /\ Covers(s * SlotSize, SlotSize) = {s * SlotSize, s * SlotSize + 1, s * SlotSize + 2}
           /\ \A k \in 0 .. 2 : s * SlotSize + k \in Covers(s * SlotSize, SlotSize)
<1>1. PICK b : b = s * SlotSize  OBVIOUS
<1>2. b \in Nat /\ b + 3 <= MaxAddr + 1 /\ MaxAddr \in Nat /\ SlotSize = 3  BY <1>1, Sizes
<1>3. b \in Addr /\ b + 1 \in Addr /\ b + 2 \in Addr  BY <1>2 DEF Addr
<1>4. Covers(b, 3) = {b, b + 1, b + 2}  BY <1>2 DEF Covers, Addr
<1>5. \A k \in 0 .. 2 : b + k \in {b, b + 1, b + 2}  BY <1>2
<1>6. QED  BY <1>1, <1>2, <1>3, <1>4, <1>5

(* Two slots have no byte in common. *)
LEMMA SlotsApart ==
    ASSUME NEW s \in Slots, NEW t \in Slots, s # t, NEW a \in Covers(s * SlotSize, SlotSize)
    PROVE  a \notin Covers(t * SlotSize, SlotSize)
<1>1. s \in Nat /\ t \in Nat /\ s * SlotSize = 3 * s /\ t * SlotSize = 3 * t /\ SlotSize = 3  BY Sizes
<1>2. a \in Int /\ 3 * s <= a /\ a < 3 * s + 3  BY <1>1, SizeAssumption DEF Covers, Addr
<1>3. ~(3 * t <= a /\ a < 3 * t + 3)  BY <1>1, <1>2
<1>4. QED  BY <1>1, <1>3 DEF Covers

(* A request that is appended settles the bytes it writes, and no others. *)
LEMMA WillSame ==
    ASSUME eeprom' = eeprom, toModule' = toModule, NEW a, NEW v
    PROVE  Pending(a)' = Pending(a) /\ (Will(a, v)' <=> Will(a, v))
<1>1. Pending(a)' = Pending(a)  BY DEF Pending
<1>2. QED  BY <1>1 DEF Will

(* A request does not change what will be of the bytes it does not write. *)
LEMMA WillUncovered ==
    ASSUME eeprom' = eeprom, toModule \in Seq(Req), NEW r \in Req, toModule' = Append(toModule, r),
           NEW a, NEW v, r.op = "write" => a \notin Covers(r.addr, r.size)
    PROVE  Pending(a)' = Pending(a) /\ (Will(a, v)' <=> Will(a, v))
<1>1. DOMAIN toModule' = DOMAIN toModule \cup {Len(toModule) + 1} /\ Len(toModule) + 1 \notin DOMAIN toModule
    OBVIOUS
<1>2. toModule'[Len(toModule) + 1] = r /\ \A i \in DOMAIN toModule : toModule'[i] = toModule[i]
    OBVIOUS
<1>3. Pending(a)' = Pending(a)
    <2>1. ASSUME NEW i \in Pending(a) PROVE i \in Pending(a)'  BY <1>1, <1>2 DEF Pending
    <2>2. ASSUME NEW i \in Pending(a)' PROVE i \in Pending(a)  BY <1>1, <1>2 DEF Pending
    <2>3. QED  BY <2>1, <2>2
<1>4. \A i \in Pending(a) : toModule'[i] = toModule[i]  BY <1>2 DEF Pending
<1>5. QED  BY <1>3, <1>4 DEF Will

(* A write that is sent says what its bytes will be. *)
LEMMA WillCovered ==
    ASSUME toModule \in Seq(Req), NEW r \in Req, toModule' = Append(toModule, r), r.op = "write",
           NEW a \in Covers(r.addr, r.size)
    PROVE  Will(a, r.data[a - r.addr + 1])'
<1>1. PICK l \in Nat : l = Len(toModule)  OBVIOUS
<1>2. DOMAIN toModule' = 1 .. l + 1 /\ toModule'[l + 1] = r  BY <1>1
<1>3. l + 1 \in Pending(a)'  BY <1>2 DEF Pending
<1>4. ASSUME NEW i \in Pending(a)', \A j \in Pending(a)' : j <= i PROVE i = l + 1
    <2>1. i \in 1 .. l + 1  BY <1>2 DEF Pending
    <2>2. QED  BY <1>3, <1>4, <2>1
<1>5. QED  BY <1>2, <1>3, <1>4 DEF Will

(* The module's work does not change what a byte will be. *)
LEMMA WillAnswers ==
    ASSUME MInv, ModuleAnswers, NEW a \in Addr, NEW v, Will(a, v)
    PROVE  Will(a, v)' /\ (Pending(a) = {} => Pending(a)' = {} /\ eeprom'[a] = eeprom[a])
<1>1. toModule \in Seq(Req) /\ toModule # <<>> /\ toModule' = Tail(toModule)
    BY DEF MInv, BusInv, BusTypes, ModuleAnswers
<1>2. PICK l \in Nat : l = Len(toModule)  BY <1>1
<1>3. /\ l >= 1 /\ DOMAIN toModule = 1 .. l /\ DOMAIN toModule' = 1 .. l - 1
      /\ \A i \in 1 .. l - 1 : toModule'[i] = toModule[i + 1]
    BY <1>1, <1>2
<1>4. ASSUME NEW i \in Pending(a)' PROVE i \in 1 .. l - 1 /\ i + 1 \in Pending(a)
    BY <1>3, <1>4 DEF Pending
<1>5. ASSUME NEW i \in Pending(a), i # 1 PROVE i - 1 \in Pending(a)' /\ i \in 2 .. l
    BY <1>3, <1>5 DEF Pending
<1>6. PICK r : r = Head(toModule)  OBVIOUS
<1>7. r = toModule[1]  BY <1>1, <1>6
<1>8. eeprom'[a] = IF r.op = "write" /\ a \in Covers(r.addr, r.size) THEN r.data[a - r.addr + 1] ELSE eeprom[a]
    <2>1. eeprom' = [b \in Addr |-> IF r.op = "write" /\ b \in Covers(r.addr, r.size)
                                    THEN r.data[b - r.addr + 1] ELSE eeprom[b]]
        BY <1>6 DEF ModuleAnswers
    <2>2. QED  BY <2>1
<1>9. 1 \in Pending(a) <=> r.op = "write" /\ a \in Covers(r.addr, r.size)  BY <1>3, <1>7 DEF Pending
<1>10. Pending(a) = {} => Pending(a)' = {} /\ eeprom'[a] = eeprom[a]  BY <1>4, <1>8, <1>9
<1>11. Pending(a)' = {} => eeprom'[a] = v
    <2> SUFFICES ASSUME Pending(a)' = {} PROVE eeprom'[a] = v  OBVIOUS
    <2>1. \A i \in Pending(a) : i = 1  BY <1>5
    <2>2. CASE 1 \in Pending(a)
        <3>1. \A j \in Pending(a) : j <= 1  BY <2>1
        <3>2. toModule[1].data[a - toModule[1].addr + 1] = v  BY <2>2, <3>1 DEF Will
        <3>3. QED  BY <1>7, <1>8, <1>9, <2>2, <3>2
    <2>3. CASE 1 \notin Pending(a)
        <3>1. Pending(a) = {}  BY <2>1, <2>3
        <3>2. QED  BY <1>10, <3>1 DEF Will
    <2>4. QED  BY <2>2, <2>3
<1>12. ASSUME NEW i \in Pending(a)', \A j \in Pending(a)' : j <= i
       PROVE  toModule'[i].data[a - toModule'[i].addr + 1] = v
    <2>1. i \in 1 .. l - 1 /\ i + 1 \in Pending(a) /\ toModule'[i] = toModule[i + 1]  BY <1>3, <1>4
    <2>2. ASSUME NEW j \in Pending(a) PROVE j <= i + 1
        <3>1. CASE j = 1  BY <2>1, <3>1
        <3>2. CASE j # 1
            <4>1. j - 1 \in Pending(a)' /\ j \in 2 .. l  BY <1>5, <3>2
            <4>2. j - 1 <= i  BY <1>12, <4>1
            <4>3. QED  BY <2>1, <4>1, <4>2
        <3>3. QED  BY <3>1, <3>2
    <2>3. toModule[i + 1].data[a - toModule[i + 1].addr + 1] = v  BY <2>1, <2>2 DEF Will
    <2>4. QED  BY <2>1, <2>3
<1>13. Will(a, v)'  BY <1>11, <1>12 DEF Will
<1>14. QED  BY <1>10, <1>13
-----------------------------------------------------------------------------
(* Who is in the queue of the lock reads or writes; who runs is not in it. *)
LEMMA QueueIs ==
    ASSUME MInv, TableTypes, Awaits
    PROVE  /\ lockQueue \in Seq(Callers)
           /\ \A i \in DOMAIN lockQueue : /\ lockQueue[i] \in Callers /\ pc[lockQueue[i]] # "idle"
                                          /\ at[lockQueue[i]] \in {"read", "write"}
           /\ \A p \in Callers : pc[p] # "idle" => \E i \in DOMAIN lockQueue : lockQueue[i] = p
<1>1. lockQueue \in Seq(Callers)
      /\ {lockQueue[i] : i \in DOMAIN lockQueue} = {p \in Callers : pc[p] # "idle"}
    BY DEF MInv, CallInv, Queued
<1>2. ASSUME NEW i \in DOMAIN lockQueue
      PROVE  /\ lockQueue[i] \in Callers /\ pc[lockQueue[i]] # "idle"
             /\ at[lockQueue[i]] \in {"read", "write"}
    <2>1. PICK q \in Callers : q = lockQueue[i]  BY <1>1
    <2>2. pc[q] # "idle"  BY <1>1, <2>1
    <2>3. at[q] \in {"read", "write"}  BY <2>2 DEF Awaits, TableTypes
    <2>4. QED  BY <2>1, <2>2, <2>3
<1>3. QED  BY <1>1, <1>2

(* The state that a running task leaves. *)
TurnsTo(p) ==
    \/ at'[p] = "none" /\ pc'[p] = "idle" /\ lockQueue' = lockQueue
    \/ /\ at'[p] = "write" /\ pc'[p] = "lock" /\ lockQueue' = Append(lockQueue, p)
       /\ slots' # <<>> /\ entry'[p].slot \in Slots
       /\ Fits(todo[p], slots'[1], entry'[p].slot, entry'[p].is)
    \/ /\ at'[p] = "read" /\ at[p] = "begin" /\ slots = <<>>
       /\ \/ pc'[p] = "lock" /\ lockQueue' = Append(lockQueue, p) /\ out'[p] = <<>>
          \/ /\ pc'[p] = "idle" /\ lockQueue' = lockQueue
             /\ Known(cache, 0, TableLen) /\ out'[p] = Slice(cache, 0, TableLen)

(* A task that goes on to another call sends nothing and leaves the other
   tasks alone.                                                              *)
LEMMA TurnDoes ==
    ASSUME MInv, TableTypes, Awaits, NEW p \in Callers, Turns(p), pc[p] = "idle"
    PROVE  /\ UNCHANGED <<eeprom, toModule, toBackend, cache, reply, pos, lost>> /\ TurnsTo(p)
           /\ \A q \in Callers \ {p} : /\ at'[q] = at[q] /\ entry'[q] = entry[q] /\ pc'[q] = pc[q]
                                       /\ job'[q] = job[q] /\ out'[q] = out[q] /\ outcome'[q] = outcome[q]
<1>1. DOMAIN at = Callers /\ DOMAIN entry = Callers  BY DEF TableTypes
<1>2. CASE Leave(p)
    <2>1. at' = [at EXCEPT ![p] = "none"] /\ entry' = entry /\ UNCHANGED mvars  BY <1>2 DEF Leave
    <2>2. UNCHANGED <<eeprom, toModule, toBackend, cache, reply, pos, lost, pc, lockQueue, job, out, outcome>>
        BY <2>1 DEF mvars
    <2>3. at'[p] = "none" /\ \A q \in Callers \ {p} : at'[q] = at[q]  BY <1>1, <2>1
    <2>4. QED  BY <2>1, <2>2, <2>3 DEF TurnsTo
<1>3. ASSUME NEW s \in Slots, NEW e \in Entries, Write(p, s, e), slots' # <<>>, Fits(todo[p], slots'[1], s, e)
      PROVE  /\ UNCHANGED <<eeprom, toModule, toBackend, cache, reply, pos, lost>> /\ TurnsTo(p)
             /\ \A q \in Callers \ {p} : /\ at'[q] = at[q] /\ entry'[q] = entry[q] /\ pc'[q] = pc[q]
                                         /\ job'[q] = job[q] /\ out'[q] = out[q] /\ outcome'[q] = outcome[q]
    <2>1. /\ Call(p, WriteJob(s, e)) /\ at' = [at EXCEPT ![p] = "write"]
          /\ entry' = [entry EXCEPT ![p] = [slot |-> s, is |-> e]]
        BY <1>3 DEF Write
    <2>2. PICK j \in Jobs : j = WriteJob(s, e)  BY JobFacts
    <2>3. j.op # "read"  BY <2>2, WriteJobIs
    <2>4. /\ UNCHANGED <<eeprom, toModule, toBackend, cache, waiters, reply, pos, lost>>
          /\ \A q \in Callers \ {p} : /\ pc'[q] = pc[q] /\ job'[q] = job[q]
                                      /\ out'[q] = out[q] /\ outcome'[q] = outcome[q]
          /\ pc'[p] = "lock" /\ lockQueue' = Append(lockQueue, p)
        <3>1. Call(p, j)  BY <2>1, <2>2
        <3>2. QED  BY <2>3, <3>1, CallDoes
    <2>5. entry'[p].slot = s /\ entry'[p].is = e /\ at'[p] = "write"
          /\ \A q \in Callers \ {p} : at'[q] = at[q] /\ entry'[q] = entry[q]
        BY <1>1, <2>1
    <2>6. TurnsTo(p)  BY <1>3, <2>4, <2>5 DEF TurnsTo
    <2>7. QED  BY <2>4, <2>5, <2>6
<1>4. ASSUME NEW cached \in BOOLEAN, Call(p, ReadJob(cached)), at[p] = "begin", slots = <<>>,
             at' = [at EXCEPT ![p] = "read"], entry' = entry
      PROVE  /\ UNCHANGED <<eeprom, toModule, toBackend, cache, reply, pos, lost>> /\ TurnsTo(p)
             /\ \A q \in Callers \ {p} : /\ at'[q] = at[q] /\ entry'[q] = entry[q] /\ pc'[q] = pc[q]
                                         /\ job'[q] = job[q] /\ out'[q] = out[q] /\ outcome'[q] = outcome[q]
    <2>1. PICK j \in Jobs : j = ReadJob(cached)  BY JobFacts
    <2>2. j.start = 0 /\ j.len = TableLen  BY <2>1, ReadJobIs
    <2>3. Call(p, j)  BY <1>4, <2>1
    <2>4. /\ UNCHANGED <<eeprom, toModule, toBackend, cache, waiters, reply, pos, lost>>
          /\ \A q \in Callers \ {p} : /\ pc'[q] = pc[q] /\ job'[q] = job[q]
                                      /\ out'[q] = out[q] /\ outcome'[q] = outcome[q]
          /\ \/ /\ pc'[p] = "idle" /\ lockQueue' = lockQueue
                /\ Known(cache, 0, TableLen) /\ out'[p] = Slice(cache, 0, TableLen)
             \/ /\ pc'[p] = "lock" /\ lockQueue' = Append(lockQueue, p) /\ out'[p] = <<>>
        BY <2>2, <2>3, CallDoes
    <2>5. at'[p] = "read" /\ \A q \in Callers \ {p} : at'[q] = at[q] /\ entry'[q] = entry[q]
        BY <1>1, <1>4
    <2>6. TurnsTo(p)  BY <1>4, <2>4, <2>5 DEF TurnsTo
    <2>7. QED  BY <2>4, <2>5, <2>6
<1>5. QED  BY <1>2, <1>3, <1>4 DEF Turns
-----------------------------------------------------------------------------
(* A running task: what it finds and what it leaves. *)
LEMMA RunDoes ==
    ASSUME MInv, TableTypes, Awaits, Order, NEW p \in Callers, Continue(p)
    PROVE  /\ UNCHANGED <<eeprom, toModule, toBackend, cache, reply, pos, lost, todo, alone>>
           /\ TurnsTo(p) /\ pc[p] = "idle" /\ at[p] # "none"
           /\ ListRead(p) \/ Entered(p) \/ GivenUp(p) \/ NothingNew(p)
           /\ \A q \in Callers \ {p} : /\ at'[q] = at[q] /\ entry'[q] = entry[q] /\ pc'[q] = pc[q]
                                       /\ job'[q] = job[q] /\ out'[q] = out[q] /\ outcome'[q] = outcome[q]
           /\ at[p] = "write" => Reading = {} /\ slots # <<>>
           /\ Reading' \subseteq Reading \cup {p} /\ (at'[p] # "read" => p \notin Reading')
<1>1. /\ Turns(p) /\ pc[p] = "idle" /\ at[p] # "none" /\ UNCHANGED <<todo, alone>>
      /\ ListRead(p) \/ Entered(p) \/ GivenUp(p) \/ NothingNew(p)
    BY ContinueDoes
<1>2. /\ UNCHANGED <<eeprom, toModule, toBackend, cache, reply, pos, lost>> /\ TurnsTo(p)
      /\ \A q \in Callers \ {p} : /\ at'[q] = at[q] /\ entry'[q] = entry[q] /\ pc'[q] = pc[q]
                                  /\ job'[q] = job[q] /\ out'[q] = out[q] /\ outcome'[q] = outcome[q]
    BY <1>1, TurnDoes
<1>3. at[p] = "write" => Reading = {} /\ slots # <<>>  BY <1>1 DEF Order
<1>4. Reading' \subseteq Reading \cup {p} /\ (at'[p] # "read" => p \notin Reading')
    BY <1>2 DEF Reading
<1>5. QED  BY <1>1, <1>2, <1>3, <1>4

(* Readers stay before writers when a task goes on. *)
LEMMA OrderRun ==
    ASSUME MInv, TableTypes, Awaits, Order, NEW p \in Callers, Continue(p)
    PROVE  Order'
<1>1. /\ TurnsTo(p) /\ pc[p] = "idle" /\ at[p] # "none"
      /\ ListRead(p) \/ Entered(p) \/ GivenUp(p) \/ NothingNew(p)
      /\ \A q \in Callers \ {p} : at'[q] = at[q] /\ pc'[q] = pc[q]
      /\ at[p] = "write" => Reading = {} /\ slots # <<>>
      /\ Reading' \subseteq Reading \cup {p} /\ (at'[p] # "read" => p \notin Reading')
    BY RunDoes
<1>2. lockQueue \in Seq(Callers)
      /\ \A i \in DOMAIN lockQueue : /\ lockQueue[i] \in Callers /\ pc[lockQueue[i]] # "idle"
                                     /\ at[lockQueue[i]] \in {"read", "write"}
    BY QueueIs
<1>3. \A i \in DOMAIN lockQueue : at'[lockQueue[i]] = at[lockQueue[i]]  BY <1>1, <1>2
<1>4. at'[p] = "read" => slots = <<>> /\ slots' = slots /\ \A q \in Callers : at[q] # "write"
    BY <1>1 DEF TurnsTo, ListRead, Entered, GivenUp, NothingNew, Order
<1>5. ASSUME NEW i \in DOMAIN lockQueue', NEW j \in DOMAIN lockQueue', i < j, at'[lockQueue'[j]] = "read"
      PROVE  at'[lockQueue'[i]] = "read"
    <2>1. CASE lockQueue' = lockQueue  BY <1>3, <1>5, <2>1 DEF Order
    <2>2. CASE lockQueue' = Append(lockQueue, p)
        <3>1. PICK l \in Nat : l = Len(lockQueue)  BY <1>2
        <3>2. /\ DOMAIN lockQueue = 1 .. l /\ DOMAIN lockQueue' = 1 .. l + 1 /\ lockQueue'[l + 1] = p
              /\ \A k \in 1 .. l : lockQueue'[k] = lockQueue[k]
            BY <1>2, <2>2, <3>1
        <3>3. i \in 1 .. l /\ lockQueue'[i] = lockQueue[i]  BY <1>5, <3>2
        <3>4. CASE j = l + 1
            <4>1. at'[p] = "read"  BY <1>5, <3>2, <3>4
            <4>2. at[lockQueue[i]] = "read"  BY <1>2, <1>4, <3>2, <3>3, <4>1
            <4>3. QED  BY <1>3, <3>2, <3>3, <4>2
        <3>5. CASE j # l + 1
            <4>1. j \in 1 .. l /\ lockQueue'[j] = lockQueue[j]  BY <3>2, <3>5
            <4>2. at[lockQueue[j]] = "read"  BY <1>3, <1>5, <3>2, <4>1
            <4>3. at[lockQueue[i]] = "read"  BY <1>5, <3>2, <3>3, <4>1, <4>2 DEF Order
            <4>4. QED  BY <1>3, <3>2, <3>3, <4>3
        <3>6. QED  BY <3>4, <3>5
    <2>3. QED  BY <1>1, <2>1, <2>2 DEF TurnsTo
<1>6. ASSUME Reading' # {}, NEW q \in Callers, at'[q] = "write" PROVE pc'[q] = "lock"
    <2>1. CASE q = p  BY <1>1, <1>6, <2>1 DEF TurnsTo
    <2>2. CASE q # p
        <3>1. at[q] = "write" /\ pc'[q] = pc[q]  BY <1>1, <1>6, <2>2
        <3>2. at'[p] # "read"  BY <1>4, <3>1
        <3>3. Reading # {}  BY <1>1, <1>6, <3>2
        <3>4. QED  BY <3>1, <3>3 DEF Order
    <2>3. QED  BY <2>1, <2>2
<1>7. ASSUME slots' = <<>>, NEW q \in Callers PROVE at'[q] # "write"
    <2>1. slots = <<>> /\ at[p] # "write"
        <3>1. NothingNew(p) \/ GivenUp(p)  BY <1>1, <1>7 DEF ListRead, Entered
        <3>2. slots = <<>>  BY <1>7, <3>1 DEF NothingNew, GivenUp
        <3>3. QED  BY <1>1, <3>2
    <2>2. CASE q = p  BY <1>1, <1>7, <2>2 DEF TurnsTo
    <2>3. CASE q # p  BY <1>1, <2>1, <2>3 DEF Order
    <2>4. QED  BY <2>2, <2>3
<1>8. QED  BY <1>5, <1>6, <1>7, Zenon DEF Order

(* What a running task wrote is recorded: it holds, it is in the list. *)
LEMMA WritesRun ==
    ASSUME MInv, TableTypes, Awaits, Order, Writes, NEW p \in Callers, Continue(p)
    PROVE  Writes'
<1>1. /\ UNCHANGED <<eeprom, toModule, pos>> /\ TurnsTo(p)
      /\ \A q \in Callers \ {p} : /\ at'[q] = at[q] /\ entry'[q] = entry[q] /\ pc'[q] = pc[q]
                                  /\ job'[q] = job[q] /\ outcome'[q] = outcome[q]
    BY RunDoes
<1>2. SUFFICES ASSUME NEW q \in Callers, NEW s \in Slots, NEW e \in Entries,
                      at'[q] = "write", entry'[q].slot = s, entry'[q].is = e,
                      NEW k \in 0 .. 2, k < Asked(q)'
               PROVE  Will(s * SlotSize + k, ToBytes(e)[k + 1])'
    BY Zenon DEF Writes
<1>3. CASE q = p
    <2>1. pc'[p] = "lock"  BY <1>1, <1>2, <1>3 DEF TurnsTo
    <2>2. Asked(p)' = 0  BY <2>1 DEF Asked
    <2>3. QED  BY <1>2, <1>3, <2>2
<1>4. CASE q # p
    <2>1. /\ at[q] = "write" /\ entry'[q] = entry[q] /\ pc'[q] = pc[q] /\ pos'[q] = pos[q]
          /\ job'[q] = job[q] /\ outcome'[q] = outcome[q]
        BY <1>1, <1>2, <1>4
    <2>2. Asked(q)' = Asked(q)  BY <2>1 DEF Asked
    <2>3. Will(s * SlotSize + k, ToBytes(e)[k + 1])  BY <1>2, <2>1, <2>2 DEF Writes
    <2>4. QED  BY <1>1, <2>3, WillSame
<1>5. QED  BY <1>3, <1>4

(* What a slot will hold depends on the EEPROM and on the requests under way. *)
LEMMA HoldsSame ==
    ASSUME eeprom' = eeprom, toModule' = toModule, NEW s, NEW e
    PROVE  Holds(s, e)' <=> Holds(s, e)
BY WillSame DEF Holds

(* What is entered in the list has been written in full. *)
LEMMA EnteredHolds ==
    ASSUME TableTypes, Awaits, Writes, NEW p \in Callers, pc[p] = "idle", at[p] = "write", outcome[p] = "ok"
    PROVE  /\ entry[p].slot \in Slots /\ entry[p].is \in Entries /\ entry[p].is \in Entry
           /\ Holds(entry[p].slot, entry[p].is)
<1>1. PICK s \in Slots : s = entry[p].slot  BY DEF Awaits
<1>2. PICK e \in Entries : e = entry[p].is  BY DEF TableTypes
<1>3. job[p] = WriteJob(s, e)  BY <1>1, <1>2 DEF Awaits
<1>4. job[p].len = 3 /\ ToBytes(e) = <<e.source, e.action, e.subject>> /\ e \in Entry
    BY <1>3, WriteJobIs, EntryFacts
<1>5. Asked(p) = 3  BY <1>4 DEF Asked
<1>6. \A k \in 0 .. 2 : Will(s * SlotSize + k, ToBytes(e)[k + 1])  BY <1>1, <1>2, <1>5 DEF Writes
<1>7. Will(s * SlotSize + 0, e.source) /\ Will(s * SlotSize + 1, e.action) /\ Will(s * SlotSize + 2, e.subject)
    <2>1. ToBytes(e)[1] = e.source /\ ToBytes(e)[2] = e.action /\ ToBytes(e)[3] = e.subject  BY <1>4
    <2>2. 0 + 1 = 1 /\ 1 + 1 = 2 /\ 2 + 1 = 3 /\ 0 \in 0 .. 2 /\ 1 \in 0 .. 2 /\ 2 \in 0 .. 2  OBVIOUS
    <2>3. QED  BY <1>6, <2>1, <2>2
<1>8. s * SlotSize + 0 = s * SlotSize  BY Sizes
<1>9. QED  BY <1>1, <1>2, <1>4, <1>7, <1>8 DEF Holds

(* What operations left in the slots is right when a task goes on. *)
LEMMA StoredRun ==
    ASSUME MInv, TableTypes, Awaits, Order, Writes, Stored, NEW p \in Callers, Continue(p)
    PROVE  Stored'
<1>1. /\ UNCHANGED <<eeprom, toModule>> /\ TurnsTo(p) /\ pc[p] = "idle"
      /\ ListRead(p) \/ Entered(p) \/ GivenUp(p) \/ NothingNew(p)
      /\ \A q \in Callers \ {p} : /\ at'[q] = at[q] /\ entry'[q] = entry[q] /\ pc'[q] = pc[q]
    BY RunDoes
<1>2. \A q \in Callers \ {p} : at[q] = "write" /\ pc[q] # "lock" => entry[q].slot \in Begun'
    BY <1>1 DEF Begun
<1>3. ASSUME NEW s \in Begun, s \notin Begun' PROVE at[p] = "write" /\ s = entry[p].slot
    <2>1. PICK q \in Callers : at[q] = "write" /\ pc[q] # "lock" /\ s = entry[q].slot  BY <1>3 DEF Begun
    <2>2. QED  BY <1>2, <1>3, <2>1
<1>4. SUFFICES ASSUME NEW s \in Slots, s \notin Begun', s \notin doubtful', NEW e \in Entry, programmed'[s] = e
               PROVE  Holds(s, e)
    BY <1>1, HoldsSame, Zenon DEF Stored
<1>5. CASE Entered(p) /\ s = entry[p].slot
    <2>1. Holds(entry[p].slot, entry[p].is)  BY <1>1, <1>5, EnteredHolds DEF Entered
    <2>2. programmed'[s] = entry[p].is
        <3>1. DOMAIN programmed = Slots  BY DEF TableTypes
        <3>2. QED  BY <1>5, <3>1 DEF Entered
    <2>3. QED  BY <1>4, <1>5, <2>1, <2>2
<1>6. CASE ~(at[p] = "write" /\ s = entry[p].slot)
    <2>1. s \notin Begun  BY <1>3, <1>4, <1>6
    <2>2. s \notin doubtful /\ programmed'[s] = programmed[s]
        <3>1. DOMAIN programmed = Slots  BY DEF TableTypes
        <3>2. QED  BY <1>1, <1>4, <1>6, <3>1 DEF ListRead, Entered, GivenUp, NothingNew
    <2>3. QED  BY <1>4, <2>1, <2>2 DEF Stored
<1>7. CASE GivenUp(p) /\ s = entry[p].slot  BY <1>4, <1>7 DEF GivenUp
<1>8. QED  BY <1>1, <1>5, <1>6, <1>7 DEF ListRead, NothingNew
-----------------------------------------------------------------------------
(* The three bytes of a slot that is not in doubt are not in doubt. *)
LEMMA SureBytes ==
    ASSUME NEW s \in Slots, s \notin doubtful
    PROVE  s * SlotSize \in Sure /\ s * SlotSize + 1 \in Sure /\ s * SlotSize + 2 \in Sure
<1>1. /\ s * SlotSize \in Addr /\ s * SlotSize + 1 \in Addr /\ s * SlotSize + 2 \in Addr
      /\ Covers(s * SlotSize, SlotSize) = {s * SlotSize, s * SlotSize + 1, s * SlotSize + 2}
    BY SlotBytes
<1>2. QED  BY <1>1, Zenon DEF Sure

(* While nothing is under way for a slot, the module has what was programmed. *)
LEMMA HoldsNow ==
    ASSUME NEW s \in Slots, NEW e, Holds(s, e), Pending(s * SlotSize) = {},
           Pending(s * SlotSize + 1) = {}, Pending(s * SlotSize + 2) = {}
    PROVE  /\ eeprom[s * SlotSize] = e.source /\ eeprom[s * SlotSize + 1] = e.action
           /\ eeprom[s * SlotSize + 2] = e.subject
BY DEF Holds, Will

(* What a reader has collected is what was programmed. *)
LEMMA ReadIsProgrammed ==
    ASSUME MInv, TableTypes, Order, Stored, Fresh, Reads, NEW p \in Callers, ListRead(p), pc[p] = "idle",
           NEW s \in Slots, s \notin doubtful
    PROVE  Decoded(out[p])[s] = programmed[s]
<1>1. p \in Reading /\ at[p] = "read" /\ outcome[p] = "ok" /\ Len(out[p]) >= TableLen
    BY DEF ListRead, Reading
<1>2. out[p] \in Seq(Values) /\ programmed[s] \in Entry  BY DEF TableTypes
<1>3. TableLen \in Nat /\ Got(p) = TableLen  BY Sizes DEF Got
<1>4. Len(out[p]) = Got(p)
    <2>1. Len(out[p]) <= Got(p)  BY <1>1 DEF Reads
    <2>2. QED  BY <1>1, <1>2, <1>3, <2>1
<1>5. \A i \in DOMAIN out[p] : True(i - 1, out[p][i])  BY <1>1, <1>4 DEF Reads
<1>6. PICK b \in Nat : b = s * SlotSize  BY Sizes
<1>7. b \in Sure /\ b + 1 \in Sure /\ b + 2 \in Sure  BY <1>6, SureBytes
<1>8. b + 1 - 1 = b /\ b + 2 - 1 = b + 1 /\ b + 3 - 1 = b + 2  OBVIOUS
<1>9. /\ b + 1 \in DOMAIN out[p] /\ b + 2 \in DOMAIN out[p] /\ b + 3 \in DOMAIN out[p]
      /\ Decoded(out[p])[s] = [source |-> out[p][b + 1], action |-> out[p][b + 2], subject |-> out[p][b + 3]]
    BY <1>1, <1>2, <1>6, DecodedIs
<1>10. out[p][b + 1] = eeprom[b] /\ out[p][b + 2] = eeprom[b + 1] /\ out[p][b + 3] = eeprom[b + 2]
    <2>1. True(b, out[p][b + 1]) /\ True(b + 1, out[p][b + 2]) /\ True(b + 2, out[p][b + 3])
        BY <1>5, <1>8, <1>9
    <2>2. QED  BY <1>7, <2>1 DEF True
<1>11. Pending(b) = {} /\ Pending(b + 1) = {} /\ Pending(b + 2) = {}
    BY <1>1, <1>7 DEF Fresh, SettledAt
<1>12. s \notin Begun  BY <1>1 DEF Order, Begun
<1>13. PICK e \in Entry : e = programmed[s]  BY <1>2
<1>14. Holds(s, e)  BY <1>12, <1>13 DEF Stored
<1>15. eeprom[b] = e.source /\ eeprom[b + 1] = e.action /\ eeprom[b + 2] = e.subject
    BY <1>6, <1>11, <1>14, HoldsNow
<1>16. e = [source |-> e.source, action |-> e.action, subject |-> e.subject]  BY DEF Entry
<1>17. QED  BY <1>9, <1>10, <1>13, <1>15, <1>16

(* The list says what was left in the slots when a task goes on, also with a
   list just read.                                                           *)
LEMMA ListedRun ==
    ASSUME MInv, TableTypes, Awaits, Order, Stored, Fresh, Reads, Listed, NEW p \in Callers, Continue(p)
    PROVE  Listed'
<1>1. /\ pc[p] = "idle"
      /\ ListRead(p) \/ Entered(p) \/ GivenUp(p) \/ NothingNew(p)
      /\ at[p] = "write" => slots # <<>>
    BY RunDoes
<1>2. SUFFICES ASSUME slots' # <<>>, NEW s \in Slots, s \notin doubtful' PROVE slots'[1][s] = programmed'[s]
    BY DEF Listed
<1>3. CASE ListRead(p)
    <2>1. slots'[1] = Decoded(out[p]) /\ programmed' = programmed /\ s \notin doubtful
        BY <1>2, <1>3 DEF ListRead
    <2>2. QED  BY <1>1, <1>3, <2>1, ReadIsProgrammed
<1>4. CASE Entered(p)
    <2>1. slots # <<>> /\ slots[1] \in [Slots -> Entry] /\ programmed \in [Slots -> Entry]
          /\ entry[p].slot \in Slots
        BY <1>1, <1>4 DEF Entered, TableTypes, ListOK, Awaits
    <2>2. PICK t, e : t \in Slots /\ t = entry[p].slot /\ e = entry[p].is  BY <2>1
    <2>3. slots'[1] = [slots[1] EXCEPT ![t] = e] /\ programmed' = [programmed EXCEPT ![t] = e]
        BY <1>4, <2>1, <2>2 DEF Entered
    <2>4. CASE s = t  BY <2>1, <2>3, <2>4
    <2>5. CASE s # t
        <3>1. s \notin doubtful  BY <1>2, <1>4, <2>2, <2>5 DEF Entered
        <3>2. slots[1][s] = programmed[s]  BY <2>1, <3>1 DEF Listed
        <3>3. QED  BY <2>1, <2>3, <2>5, <3>2
    <2>6. QED  BY <2>4, <2>5
<1>5. CASE GivenUp(p) \/ NothingNew(p)
    <2>1. slots' = slots /\ programmed' = programmed /\ doubtful \subseteq doubtful'
        BY <1>5 DEF GivenUp, NothingNew
    <2>2. QED  BY <1>2, <2>1 DEF Listed
<1>6. QED  BY <1>1, <1>3, <1>4, <1>5

(* While there is no list, or somebody reads one, cache and replies tell what
   the EEPROM holds, also when a task goes on.                               *)
LEMMA FreshRun ==
    ASSUME MInv, TableTypes, Awaits, Order, Fresh, NEW p \in Callers, Continue(p)
    PROVE  Fresh'
<1>1. /\ UNCHANGED <<eeprom, toModule, toBackend, cache>> /\ TurnsTo(p)
      /\ ListRead(p) \/ Entered(p) \/ GivenUp(p) \/ NothingNew(p)
      /\ at[p] = "write" => Reading = {} /\ slots # <<>>
      /\ Reading' \subseteq Reading \cup {p} /\ (at'[p] # "read" => p \notin Reading')
    BY RunDoes
<1>2. SUFFICES ASSUME slots' = <<>> \/ Reading' # {}, NEW a \in Sure' PROVE SettledAt(a)'
    BY Zenon DEF Fresh
<1>3. (slots = <<>> \/ Reading # {}) /\ doubtful' = doubtful
    <2>1. CASE ListRead(p)
        <3>1. p \in Reading /\ doubtful' = doubtful  BY <2>1 DEF ListRead, Reading
        <3>2. QED  BY <3>1
    <2>2. CASE Entered(p) \/ GivenUp(p)
        <3>1. at[p] = "write" /\ slots' # <<>>  BY <1>1, <2>2 DEF Entered, GivenUp
        <3>2. at'[p] # "read"  BY <1>1, <3>1 DEF TurnsTo
        <3>3. QED  BY <1>1, <1>2, <3>1, <3>2
    <2>3. CASE NothingNew(p)
        <3>1. slots' = slots /\ doubtful' = doubtful  BY <2>3 DEF NothingNew
        <3>2. CASE at'[p] = "read"  BY <1>1, <3>1, <3>2 DEF TurnsTo
        <3>3. CASE at'[p] # "read"  BY <1>1, <1>2, <3>1, <3>3
        <3>4. QED  BY <3>2, <3>3
    <2>4. QED  BY <1>1, <2>1, <2>2, <2>3
<1>4. a \in Sure  BY <1>3, <1>2 DEF Sure
<1>5. SettledAt(a)  BY <1>3, <1>4 DEF Fresh
<1>6. QED  BY <1>1, <1>5 DEF SettledAt, Pending, Tells

(* The whole table in the cache is what the module has, before there is a list
   and while it is read.                                                    *)
LEMMA CachedIsTrue ==
    ASSUME MInv, Fresh, slots = <<>> \/ Reading # {}, Known(cache, 0, TableLen)
    PROVE  LET d == Slice(cache, 0, TableLen)
           IN  /\ d \in Seq(Values) /\ Len(d) = TableLen
               /\ \A i \in DOMAIN d : True(i - 1, d[i])
<1>1. \A a \in DOMAIN cache : cache[a] \in Values  BY DEF MInv, BusInv, BusTypes
<1>2. \A a \in 0 .. 0 + TableLen - 1 : a \in DOMAIN cache  BY DEF Known
<1>3. 0 \in Nat /\ TableLen \in Nat  BY Sizes
<1>4. PICK d : d = Slice(cache, 0, TableLen)  OBVIOUS
<1>5. d \in Seq(Values) /\ Len(d) = TableLen /\ \A i \in 1 .. TableLen : d[i] = cache[0 + i - 1]
    BY <1>1, <1>2, <1>3, <1>4, SliceIs
<1>6. ASSUME NEW i \in DOMAIN d PROVE True(i - 1, d[i])
    <2>1. i \in 1 .. TableLen /\ 0 + i - 1 = i - 1 /\ i - 1 \in 0 .. 0 + TableLen - 1  BY <1>3, <1>5
    <2>2. d[i] = cache[i - 1] /\ i - 1 \in DOMAIN cache  BY <1>2, <1>5, <2>1
    <2>3. i - 1 \in Sure => cache[i - 1] = eeprom[i - 1]  BY <2>2 DEF Fresh, SettledAt
    <2>4. QED  BY <2>2, <2>3 DEF True
<1>7. QED  BY <1>4, <1>5, <1>6

(* What readers have collected is right when a task goes on. *)
LEMMA ReadsRun ==
    ASSUME MInv, TableTypes, Awaits, Order, Fresh, Reads, NEW p \in Callers, Continue(p)
    PROVE  Reads'
<1>1. /\ UNCHANGED <<eeprom, reply, pos, cache>> /\ TurnsTo(p) /\ pc[p] = "idle"
      /\ ListRead(p) \/ Entered(p) \/ GivenUp(p) \/ NothingNew(p)
      /\ \A q \in Callers \ {p} : /\ at'[q] = at[q] /\ pc'[q] = pc[q]
                                  /\ out'[q] = out[q] /\ outcome'[q] = outcome[q]
      /\ at[p] = "write" => Reading = {}
      /\ Reading' \subseteq Reading \cup {p} /\ (at'[p] # "read" => p \notin Reading')
    BY RunDoes
<1>2. SUFFICES ASSUME NEW q \in Reading'
               PROVE  /\ pc'[q] = "waiting" /\ reply'[q] # <<>> =>
                             \A i \in DOMAIN reply'[q][1] : True(pos[q] + i - 1, reply[q][1][i])'
                      /\ pc'[q] # "idle" \/ outcome'[q] # "timeout" =>
                             /\ Len(out'[q]) <= Got(q)'
                             /\ Len(out'[q]) = Got(q)' => \A i \in DOMAIN out'[q] : True(i - 1, out[q][i])'
    BY Zenon DEF Reads
<1>3. /\ q \in Callers /\ at'[q] = "read" /\ doubtful' = doubtful
    <2>1. q \in Callers /\ at'[q] = "read"  BY <1>2 DEF Reading
    <2>2. at[p] = "write" => at'[p] # "read"  BY <1>1 DEF TurnsTo
    <2>3. at[p] # "write"  BY <1>1, <1>2, <2>2
    <2>4. QED  BY <1>1, <2>1, <2>3 DEF ListRead, Entered, GivenUp, NothingNew
<1>4. Sure' = Sure  BY <1>3 DEF Sure
<1>5. ASSUME NEW a, NEW v, True(a, v) PROVE True(a, v)'  BY <1>1, <1>4, <1>5 DEF True
<1>6. CASE q # p
    <2>1. q \in Reading /\ pc'[q] = pc[q] /\ out'[q] = out[q] /\ outcome'[q] = outcome[q]
          /\ reply'[q] = reply[q] /\ pos'[q] = pos[q] /\ Got(q)' = Got(q)
        BY <1>1, <1>3, <1>6 DEF Reading, Got
    <2>2. pc[q] = "waiting" /\ reply[q] # <<>> =>
              \A i \in DOMAIN reply[q][1] : True(pos[q] + i - 1, reply[q][1][i])
        BY <2>1 DEF Reads
    <2>3. pc[q] # "idle" \/ outcome[q] # "timeout" =>
              /\ Len(out[q]) <= Got(q)
              /\ Len(out[q]) = Got(q) => \A i \in DOMAIN out[q] : True(i - 1, out[q][i])
        BY <2>1 DEF Reads
    <2>4. QED  BY <1>1, <1>4, <2>1, <2>2, <2>3 DEF True
<1>7. CASE q = p
    <2>1. slots = <<>> /\ \/ pc'[p] = "lock" /\ out'[p] = <<>>
                          \/ /\ pc'[p] = "idle" /\ Known(cache, 0, TableLen)
                             /\ out'[p] = Slice(cache, 0, TableLen)
        BY <1>1, <1>3, <1>7 DEF TurnsTo
    <2>2. CASE pc'[p] = "lock" /\ out'[p] = <<>>
        <3>1. pos'[p] = 0
            <4>1. pos[p] = 0  BY <1>1 DEF MInv, CallInv, Progress
            <4>2. QED  BY <1>1, <4>1
        <3>2. Got(p)' = 0  BY <2>2, <3>1 DEF Got
        <3>3. Len(out'[p]) = 0 /\ DOMAIN out'[p] = {}  BY <2>2
        <3>4. QED  BY <1>7, <2>2, <3>2, <3>3
    <2>3. CASE pc'[p] = "idle" /\ Known(cache, 0, TableLen) /\ out'[p] = Slice(cache, 0, TableLen)
        <3>1. PICK d : d = Slice(cache, 0, TableLen)  OBVIOUS
        <3>2. Len(d) = TableLen /\ \A i \in DOMAIN d : True(i - 1, d[i])
            BY <2>1, <2>3, <3>1, CachedIsTrue
        <3>3. out'[p] = d /\ Got(p)' = TableLen /\ TableLen \in Nat  BY <2>3, <3>1, Sizes DEF Got
        <3>4. QED  BY <1>1, <1>4, <1>7, <2>3, <3>2, <3>3 DEF True
    <2>4. QED  BY <2>1, <2>2, <2>3
<1>8. QED  BY <1>6, <1>7

(* A task that has been alone picked a slot that the list, hence what was
   programmed, shows free or its own.                                       *)
LEMMA PicksRun ==
    ASSUME MInv, TableTypes, Awaits, Order, Alone, Picks, Listed', NEW p \in Callers, Continue(p)
    PROVE  Alone' /\ Picks'
<1>1. /\ UNCHANGED <<todo, alone>> /\ TurnsTo(p) /\ at[p] # "none"
      /\ \A q \in Callers \ {p} : at'[q] = at[q] /\ entry'[q] = entry[q]
    BY RunDoes
<1>2. Alone'
    <2> SUFFICES ASSUME NEW q \in Callers, NEW r \in Callers, alone'[q], at'[q] # "none", r # q
                 PROVE  at'[r] = "none"
        BY DEF Alone
    <2>1. alone[q] /\ at[q] # "none"  BY <1>1
    <2>2. at[r] = "none"  BY <2>1 DEF Alone
    <2>3. r # p  BY <1>1, <2>2
    <2>4. QED  BY <1>1, <2>2, <2>3
<1>3. SUFFICES ASSUME NEW q \in Callers, at'[q] = "write", todo'[q].op = "set", todo'[q].slot = NoSlot, alone'[q]
               PROVE  PickWasFree(q)'
    BY <1>2, Zenon DEF Picks
<1>4. q = p
    <2>1. CASE q # p
        <3>1. at[q] = "write" /\ alone[q]  BY <1>1, <1>3, <2>1
        <3>2. at[p] = "none"  BY <2>1, <3>1 DEF Alone
        <3>3. QED  BY <1>1, <3>2
    <2>2. QED  BY <2>1
<1>5. /\ slots' # <<>> /\ entry'[p].slot \in Slots
      /\ Fits(todo[p], slots'[1], entry'[p].slot, entry'[p].is)
    BY <1>1, <1>3, <1>4 DEF TurnsTo
<1>6. PICK s, e : s = entry'[p].slot /\ e = entry'[p].is  OBVIOUS
<1>7. \/ EmptySlot(slots'[1][s])
      \/ slots'[1][s].source = e.source /\ (Shared => slots'[1][s].subject = e.subject)
    BY <1>1, <1>3, <1>4, <1>5, <1>6 DEF Fits
<1>8. CASE s \in doubtful'  BY <1>4, <1>6, <1>8 DEF PickWasFree
<1>9. CASE s \notin doubtful'
    <2>1. slots'[1][s] = programmed'[s]  BY <1>5, <1>6, <1>9 DEF Listed
    <2>2. QED  BY <1>4, <1>6, <1>7, <2>1 DEF PickWasFree
<1>10. QED  BY <1>8, <1>9
-----------------------------------------------------------------------------
(* A step of the call that has the lock: while somebody reads it is a reader's. *)
LEMMA StepDoes ==
    ASSUME MInv, TableTypes, Awaits, Order, Running = {}, NEW p \in Callers, CallerStep(p)
    PROVE  /\ lockQueue # <<>> /\ lockQueue[1] = p /\ at[p] \in {"read", "write"}
           /\ Reading # {} => at[p] = "read"
           /\ slots = <<>> => at[p] = "read"
<1>1. lockQueue # <<>> /\ Head(lockQueue) = p /\ pc[p] # "idle"  BY CallerDoes
<1>2. /\ lockQueue \in Seq(Callers)
      /\ \A i \in DOMAIN lockQueue : at[lockQueue[i]] \in {"read", "write"}
      /\ \A q \in Callers : pc[q] # "idle" => \E i \in DOMAIN lockQueue : lockQueue[i] = q
    BY QueueIs
<1>3. 1 \in DOMAIN lockQueue /\ lockQueue[1] = p  BY <1>1, <1>2
<1>4. at[p] \in {"read", "write"}  BY <1>2, <1>3
<1>5. ASSUME NEW r \in Reading PROVE at[p] = "read"
    <2>1. r \in Callers /\ at[r] = "read"  BY <1>5 DEF Reading
    <2>2. pc[r] # "idle"  BY <2>1 DEF Running, Resumed
    <2>3. PICK j \in DOMAIN lockQueue : lockQueue[j] = r  BY <1>2, <2>1, <2>2
    <2>4. CASE j = 1  BY <1>3, <2>1, <2>3, <2>4
    <2>5. CASE j # 1
        <3>1. 1 < j  BY <1>2, <2>3, <2>5
        <3>2. QED  BY <1>3, <2>1, <2>3, <3>1 DEF Order
    <2>6. QED  BY <2>4, <2>5
<1>6. QED  BY <1>1, <1>3, <1>4, <1>5 DEF Order

(* Readers stay before writers when a call makes its step. *)
LEMMA OrderStep ==
    ASSUME MInv, TableTypes, Awaits, Order, Running = {}, NEW p \in Callers, CallerStep(p), UNCHANGED <<slots, at>>
    PROVE  Order'
<1>1. /\ lockQueue' = lockQueue \/ lockQueue' = Tail(lockQueue)
      /\ lockQueue # <<>> /\ \A q \in Callers \ {p} : pc'[q] = pc[q]
    BY CallerDoes
<1>2. lockQueue \in Seq(Callers)  BY QueueIs
<1>3. Reading' = Reading  BY DEF Reading
<1>4. ASSUME NEW i \in DOMAIN lockQueue', NEW j \in DOMAIN lockQueue', i < j, at'[lockQueue'[j]] = "read"
      PROVE  at'[lockQueue'[i]] = "read"
    <2>1. CASE lockQueue' = lockQueue  BY <1>4, <2>1 DEF Order
    <2>2. CASE lockQueue' = Tail(lockQueue)
        <3>1. /\ i + 1 \in DOMAIN lockQueue /\ j + 1 \in DOMAIN lockQueue /\ i + 1 < j + 1
              /\ lockQueue'[i] = lockQueue[i + 1] /\ lockQueue'[j] = lockQueue[j + 1]
            BY <1>1, <1>2, <1>4, <2>2
        <3>2. QED  BY <1>4, <3>1 DEF Order
    <2>3. QED  BY <1>1, <2>1, <2>2
<1>5. ASSUME Reading' # {}, NEW q \in Callers, at'[q] = "write" PROVE pc'[q] = "lock"
    <2>1. Reading # {} /\ at[q] = "write"  BY <1>3, <1>5
    <2>2. at[p] = "read"  BY <2>1, StepDoes
    <2>3. pc[q] = "lock"  BY <2>1 DEF Order
    <2>4. QED  BY <1>1, <2>1, <2>2, <2>3
<1>6. slots' = <<>> => \A q \in Callers : at'[q] # "write"  BY DEF Order
<1>7. QED  BY <1>4, <1>5, <1>6, Zenon DEF Order

(* A request on its way: which bytes it settles. *)
LEMMA RequestSettles ==
    ASSUME MInv, TableTypes, Awaits, NEW p \in Callers, NEW n \in Nat, n < job[p].len,
           toModule' = Append(toModule, Request(job[p], n)), eeprom' = eeprom,
           at[p] \in {"read", "write"}
    PROVE  /\ at[p] = "read" => \A a, v : Pending(a)' = Pending(a) /\ (Will(a, v)' <=> Will(a, v))
           /\ at[p] = "write" => \A s \in Slots, e \in Entries : entry[p].slot = s /\ entry[p].is = e =>
                  /\ \A a, v : a \notin Covers(s * SlotSize, SlotSize) => (Will(a, v)' <=> Will(a, v))
                  /\ \A k \in 0 .. n - 1 : \A v : Will(s * SlotSize + k, v)' <=> Will(s * SlotSize + k, v)
                  /\ \A k \in n .. n + Chunk(job[p], n) - 1 : Will(s * SlotSize + k, ToBytes(e)[k + 1])'
<1>1. toModule \in Seq(Req) /\ job[p] \in Jobs  BY DEF MInv, BusInv, BusTypes, CallInv, Progress
<1>2. PICK r : r = Request(job[p], n)  OBVIOUS
<1>3. /\ r \in Req /\ r.addr = job[p].start + n /\ Chunk(job[p], n) \in Nat \ {0}
      /\ n + Chunk(job[p], n) <= job[p].len
    BY <1>1, <1>2, RequestFact
<1>4. /\ r.op = job[p].op /\ r.size = Chunk(job[p], n)
      /\ job[p].op # "read" => r.data = SubSeq(job[p].data, n + 1, n + Chunk(job[p], n))
    BY <1>2 DEF Request
<1>5. toModule' = Append(toModule, r)  BY <1>2
<1>6. ASSUME at[p] = "read"
      PROVE  \A a, v : Pending(a)' = Pending(a) /\ (Will(a, v)' <=> Will(a, v))
    <2>1. PICK cached \in BOOLEAN : job[p] = ReadJob(cached)  BY <1>6 DEF Awaits
    <2>2. r.op = "read"  BY <1>4, <2>1, ReadJobIs
    <2>3. QED  BY <1>1, <1>3, <1>5, <2>2, WillUncovered
<1>7. ASSUME at[p] = "write", NEW s \in Slots, NEW e \in Entries, entry[p].slot = s, entry[p].is = e
      PROVE  /\ \A a, v : a \notin Covers(s * SlotSize, SlotSize) => (Will(a, v)' <=> Will(a, v))
             /\ \A k \in 0 .. n - 1 : \A v : Will(s * SlotSize + k, v)' <=> Will(s * SlotSize + k, v)
             /\ \A k \in n .. n + Chunk(job[p], n) - 1 : Will(s * SlotSize + k, ToBytes(e)[k + 1])'
    <2>1. PICK c \in Nat \ {0} : c = Chunk(job[p], n)  BY <1>3
    <2>2. PICK b \in Nat : b = s * SlotSize  BY Sizes
    <2>3. job[p] = WriteJob(s, e)  BY <1>7 DEF Awaits
    <2>4. /\ job[p].op = "write" /\ job[p].start = b /\ job[p].len = 3
          /\ job[p].data = <<e.source, e.action, e.subject>> /\ ToBytes(e) = job[p].data
        BY <2>2, <2>3, WriteJobIs, EntryFacts
    <2>5. r.op = "write" /\ r.addr = b + n /\ r.size = c /\ n + c <= 3
          /\ r.data = SubSeq(job[p].data, n + 1, n + c)
        BY <1>3, <1>4, <2>1, <2>4
    <2>6. ASSUME NEW a, NEW v, a \notin Covers(r.addr, r.size) PROVE Will(a, v)' <=> Will(a, v)
        BY <1>1, <1>3, <1>5, <2>6, WillUncovered
    <2>7. ASSUME NEW a \in Covers(r.addr, r.size) PROVE a \in Covers(b, 3)
        BY <2>5 DEF Covers, Addr
    <2>8. ASSUME NEW k \in 0 .. n - 1, NEW v PROVE Will(b + k, v)' <=> Will(b + k, v)
        <3>1. b + k \notin Covers(r.addr, r.size)  BY <2>5 DEF Covers
        <3>2. QED  BY <2>6, <3>1
    <2>9. ASSUME NEW k \in n .. n + c - 1 PROVE Will(b + k, ToBytes(e)[k + 1])'
        <3>1. k \in 0 .. 2 /\ b + k >= r.addr /\ b + k < r.addr + r.size  BY <2>5
        <3>2. b + k \in Addr  BY <2>2, <3>1, Sizes DEF Addr
        <3>3. b + k \in Covers(r.addr, r.size)  BY <3>1, <3>2 DEF Covers
        <3>4. PICK a \in Covers(r.addr, r.size) : a = b + k  BY <3>3
        <3>5. (b + k) - r.addr + 1 = k - n + 1 /\ k - n + 1 \in 1 .. c  BY <2>5
        <3>6. r.data[k - n + 1] = job[p].data[k + 1]
            <4>1. job[p].data \in Seq(Values) /\ Len(job[p].data) = 3
                <5>1. ToBytes(e) \in Seq(Values)  BY EntryFacts
                <5>2. QED  BY <2>4, <5>1
            <4>2. QED  BY <2>5, <3>5, <4>1
        <3>7. Will(a, r.data[a - r.addr + 1])'  BY <1>1, <1>3, <1>5, <2>5, WillCovered
        <3>8. r.data[a - r.addr + 1] = ToBytes(e)[k + 1]
            <4>1. a - r.addr + 1 = k - n + 1  BY <3>4, <3>5, Zenon
            <4>2. QED  BY <2>4, <3>6, <4>1
        <3>9. QED  BY <3>4, <3>7, <3>8
    <2>10. SlotSize = 3  BY Sizes
    <2>11. \A a, v : a \notin Covers(s * SlotSize, SlotSize) => (Will(a, v)' <=> Will(a, v))
        BY <2>2, <2>6, <2>7, <2>10
    <2>12. QED  BY <2>1, <2>2, <2>8, <2>9, <2>11
<1>8. QED  BY <1>6, <1>7

(* The backend's own steps leave the table's variables alone. *)
Apart == UNCHANGED <<slots, at, todo, entry, programmed, doubtful, alone>>

(* What a task has asked to be written will be there, also after a step of a
   call.                                                                     *)
LEMMA WritesStep ==
    ASSUME MInv, TableTypes, Awaits, Order, Writes, Running = {}, NEW p \in Callers, CallerStep(p), Apart
    PROVE  Writes'
<1>1. /\ eeprom' = eeprom /\ job' = job /\ lockQueue # <<>> /\ Head(lockQueue) = p
      /\ \A q \in Callers \ {p} : pc'[q] = pc[q]
      /\ \/ toModule' = toModule /\ (job[p].op = "write" => Asked(p)' \in {0, Asked(p)})
         \/ /\ Asked(p) \in Nat /\ Asked(p) < job[p].len
            /\ toModule' = Append(toModule, Request(job[p], Asked(p)))
            /\ Asked(p)' = Asked(p) + Chunk(job[p], Asked(p))
    BY CallerDoes
<1>2. SUFFICES ASSUME NEW q \in Callers, NEW s \in Slots, NEW e \in Entries,
                      at[q] = "write", entry[q].slot = s, entry[q].is = e,
                      NEW k \in 0 .. 2, k < Asked(q)'
               PROVE  Will(s * SlotSize + k, ToBytes(e)[k + 1])'
    BY Zenon DEF Writes, Apart
<1>3. CASE q # p
    <2>1. pc[q] # "idle"  BY <1>2 DEF Running, Resumed
    <2>2. pc[q] \in PCs /\ pc[q] \notin {"waiting", "gap"}
        BY <1>1, <1>3, OthersQuiet DEF MInv, CallInv, Progress
    <2>3. pc'[q] = "lock"  BY <1>1, <1>3, <2>1, <2>2 DEF PCs
    <2>4. Asked(q)' = 0  BY <2>3 DEF Asked
    <2>5. QED  BY <1>2, <2>4
<1>4. CASE q = p
    <2>1. job[p] = WriteJob(s, e)  BY <1>2, <1>4 DEF Awaits
    <2>2. job[p].op = "write"  BY <2>1, WriteJobIs
    <2>3. k < Asked(p) => Will(s * SlotSize + k, ToBytes(e)[k + 1])  BY <1>2, <1>4 DEF Writes
    <2>4. CASE toModule' = toModule /\ Asked(p)' \in {0, Asked(p)}
        <3>1. k < Asked(p)  BY <1>2, <1>4, <2>4
        <3>2. QED  BY <1>1, <2>3, <2>4, <3>1, WillSame
    <2>5. CASE /\ Asked(p) \in Nat /\ Asked(p) < job[p].len
               /\ toModule' = Append(toModule, Request(job[p], Asked(p)))
               /\ Asked(p)' = Asked(p) + Chunk(job[p], Asked(p))
        <3>1. PICK n \in Nat : n = Asked(p)  BY <2>5
        <3>2. n < job[p].len /\ toModule' = Append(toModule, Request(job[p], n))
              /\ Asked(p)' = n + Chunk(job[p], n)
            BY <2>5, <3>1
        <3>3. at[p] \in {"read", "write"} /\ at[p] = "write" /\ entry[p].slot = s /\ entry[p].is = e
            BY <1>2, <1>4
        <3>4. /\ \A i \in 0 .. n - 1 : \A v : Will(s * SlotSize + i, v)' <=> Will(s * SlotSize + i, v)
              /\ \A i \in n .. n + Chunk(job[p], n) - 1 : Will(s * SlotSize + i, ToBytes(e)[i + 1])'
            <4>1. \A t \in Slots, d \in Entries : entry[p].slot = t /\ entry[p].is = d =>
                      /\ \A i \in 0 .. n - 1 : \A v : Will(t * SlotSize + i, v)' <=> Will(t * SlotSize + i, v)
                      /\ \A i \in n .. n + Chunk(job[p], n) - 1 : Will(t * SlotSize + i, ToBytes(d)[i + 1])'
                BY <1>1, <3>2, <3>3, RequestSettles
            <4>2. QED  BY <3>3, <4>1, Zenon
        <3>5. CASE k < n
            <4>1. k \in 0 .. n - 1  BY <3>5
            <4>2. QED  BY <2>3, <3>1, <3>4, <3>5, <4>1
        <3>6. CASE ~(k < n)
            <4>1. Chunk(job[p], n) \in Nat
                <5>1. job[p] \in Jobs  BY DEF MInv, CallInv, Progress
                <5>2. QED  BY <3>2, <5>1, RequestFact
            <4>2. k \in n .. n + Chunk(job[p], n) - 1  BY <1>2, <1>4, <3>2, <3>6, <4>1
            <4>3. QED  BY <3>4, <4>2
        <3>7. QED  BY <3>5, <3>6
    <2>6. QED  BY <1>1, <2>2, <2>4, <2>5
<1>5. QED  BY <1>3, <1>4

(* What operations left in the slots is right when a call makes its step. *)
LEMMA StoredStep ==
    ASSUME MInv, TableTypes, Awaits, Order, Stored, Running = {}, NEW p \in Callers, CallerStep(p), Apart
    PROVE  Stored'
<1>1. /\ eeprom' = eeprom /\ pc'[p] # "lock"
      /\ \A q \in Callers \ {p} : pc'[q] = pc[q]
      /\ \/ toModule' = toModule
         \/ /\ Asked(p) \in Nat /\ Asked(p) < job[p].len
            /\ toModule' = Append(toModule, Request(job[p], Asked(p)))
    BY CallerDoes
<1>2. at[p] \in {"read", "write"}  BY StepDoes
<1>3. SUFFICES ASSUME NEW s \in Slots, s \notin Begun', s \notin doubtful, NEW e \in Entry, programmed[s] = e
               PROVE  Holds(s, e)'
    BY Zenon DEF Stored, Apart
<1>4. Begun \subseteq Begun' /\ (at[p] = "write" => entry[p].slot \in Begun')  BY <1>1 DEF Begun, Apart
<1>5. Holds(s, e)  BY <1>3, <1>4 DEF Stored
<1>6. CASE toModule' = toModule  BY <1>1, <1>5, <1>6, HoldsSame
<1>7. CASE /\ Asked(p) \in Nat /\ Asked(p) < job[p].len
           /\ toModule' = Append(toModule, Request(job[p], Asked(p)))
    <2>1. PICK n \in Nat : n = Asked(p)  BY <1>7
    <2>2. n < job[p].len /\ toModule' = Append(toModule, Request(job[p], n))  BY <1>7, <2>1
    <2>3. CASE at[p] = "read"
        <3>1. \A a, v : Will(a, v)' <=> Will(a, v)  BY <1>1, <1>2, <2>2, <2>3, RequestSettles
        <3>2. QED  BY <1>5, <3>1 DEF Holds
    <2>4. CASE at[p] = "write"
        <3>1. PICK t \in Slots : t = entry[p].slot  BY <2>4 DEF Awaits
        <3>2. PICK d \in Entries : d = entry[p].is  BY DEF TableTypes
        <3>3. \A a, v : a \notin Covers(t * SlotSize, SlotSize) => (Will(a, v)' <=> Will(a, v))
            BY <1>1, <1>2, <2>2, <2>4, <3>1, <3>2, RequestSettles
        <3>4. s # t  BY <1>3, <1>4, <2>4, <3>1
        <3>5. \A a \in Covers(s * SlotSize, SlotSize) : a \notin Covers(t * SlotSize, SlotSize)
            BY <3>4, SlotsApart
        <3>6. \A a \in Covers(s * SlotSize, SlotSize) : \A v : Will(a, v)' <=> Will(a, v)  BY <3>3, <3>5
        <3>7. /\ s * SlotSize \in Covers(s * SlotSize, SlotSize)
              /\ s * SlotSize + 1 \in Covers(s * SlotSize, SlotSize)
              /\ s * SlotSize + 2 \in Covers(s * SlotSize, SlotSize)
            BY SlotBytes, Zenon
        <3>8. QED  BY <1>5, <3>6, <3>7 DEF Holds
    <2>5. QED  BY <1>2, <2>3, <2>4
<1>8. QED  BY <1>1, <1>6, <1>7

(* And so they do when a call makes its step. *)
LEMMA FreshStep ==
    ASSUME MInv, TableTypes, Awaits, Order, Fresh, Running = {}, NEW p \in Callers, CallerStep(p), Apart
    PROVE  Fresh'
<1>1. /\ UNCHANGED <<eeprom, toBackend, cache>>
      /\ \/ toModule' = toModule
         \/ /\ Asked(p) \in Nat /\ Asked(p) < job[p].len
            /\ toModule' = Append(toModule, Request(job[p], Asked(p)))
    BY CallerDoes
<1>2. Reading' = Reading /\ Sure' = Sure /\ slots' = slots  BY DEF Reading, Sure, Apart
<1>3. SUFFICES ASSUME slots = <<>> \/ Reading # {}, NEW a \in Sure PROVE SettledAt(a)'
    BY <1>2, Zenon DEF Fresh
<1>4. at[p] = "read"  BY <1>3, StepDoes
<1>5. SettledAt(a)  BY <1>3 DEF Fresh
<1>6. Pending(a)' = Pending(a)
    <2>1. CASE toModule' = toModule  BY <2>1 DEF Pending
    <2>2. CASE /\ Asked(p) \in Nat /\ Asked(p) < job[p].len
               /\ toModule' = Append(toModule, Request(job[p], Asked(p)))
        <3>1. PICK n \in Nat : n = Asked(p)  BY <2>2
        <3>2. n < job[p].len /\ toModule' = Append(toModule, Request(job[p], n))  BY <2>2, <3>1
        <3>3. \A b, v : Pending(b)' = Pending(b) /\ (Will(b, v)' <=> Will(b, v))
            BY <1>1, <1>4, <3>2, RequestSettles
        <3>4. QED  BY <3>3
    <2>3. QED  BY <1>1, <2>1, <2>2
<1>7. QED  BY <1>1, <1>5, <1>6 DEF SettledAt, Tells

(* What a reader has collected after its step. *)
Collected(p) == /\ Len(out'[p]) <= Got(p)'
                /\ Len(out'[p]) = Got(p)' => \A i \in DOMAIN out'[p] : True(i - 1, out'[p][i])

(* A reader whose reply has come collects what the EEPROM holds. *)
LEMMA ReaderWakes ==
    ASSUME MInv, TableTypes, Awaits, Fresh, Reads, NEW p \in Reading, Wake(p)
    PROVE  Collected(p)
<1>1. p \in Callers /\ at[p] = "read"  BY DEF Reading
<1>2. PICK cached \in BOOLEAN : job[p] = ReadJob(cached)  BY <1>1 DEF Awaits
<1>3. job[p].op = "read" /\ job[p].start = 0 /\ job[p].len = TableLen /\ TableLen \in Nat
    BY <1>2, ReadJobIs, Sizes
<1>4. /\ pc[p] = "waiting" /\ reply[p] # <<>> /\ pos[p] \in Nat /\ pos[p] < job[p].len /\ job[p] \in Jobs
      /\ DOMAIN pc = Callers /\ DOMAIN pos = Callers /\ out[p] \in Seq(Values) /\ DOMAIN out = Callers
    BY <1>1 DEF Wake, MInv, CallInv, Progress, TableTypes
<1>5. PICK d \in Seq(Values) : reply[p] = <<d>>  BY <1>1, <1>4 DEF TableTypes, Replies
<1>6. PICK c \in Nat, n \in Nat : c = Chunk(job[p], pos[p]) /\ n = pos[p] + c /\ n <= TableLen
    BY <1>3, <1>4, RequestFact
<1>7. Proceed(p, n) /\ out' = [out EXCEPT ![p] = @ \o Taken(p)]  BY <1>3, <1>6 DEF Wake
<1>8. Got(p) = pos[p] /\ Got(p)' = n
    <2>1. \/ pc'[p] = "waiting" /\ pos'[p] = n
          \/ n >= job[p].len /\ pc'[p] = "idle"
        BY <1>1, <1>7, ProceedDoes
    <2>2. QED  BY <1>3, <1>4, <1>6, <2>1 DEF Got
<1>9. PICK t : t = Taken(p)  OBVIOUS
<1>10. /\ t \in Seq(Values) /\ Len(t) <= c
       /\ \A i \in DOMAIN t : \/ i \in DOMAIN d /\ t[i] = d[i]
                              \/ /\ job[p].start + pos[p] + i - 1 \in DOMAIN cache
                                 /\ t[i] = cache[job[p].start + pos[p] + i - 1]
    BY <1>1, <1>4, <1>5, <1>6, <1>9, TakenIs
<1>11. PICK u : u = out[p]  OBVIOUS
<1>12. out'[p] = u \o t /\ u \in Seq(Values)  BY <1>1, <1>4, <1>7, <1>9, <1>11
<1>13. Len(u) <= pos[p] /\ (Len(u) = pos[p] => \A i \in DOMAIN u : True(i - 1, u[i]))
    BY <1>4, <1>8, <1>11 DEF Reads
<1>14. \A i \in DOMAIN d : True(pos[p] + i - 1, d[i])
    <2>1. \A i \in DOMAIN reply[p][1] : True(pos[p] + i - 1, reply[p][1][i])  BY <1>4 DEF Reads
    <2>2. reply[p][1] = d  BY <1>5
    <2>3. QED  BY <2>1, <2>2
<1>15. \A a \in DOMAIN cache : True(a, cache[a])  BY <1>1 DEF Fresh, SettledAt, True
<1>16. \A i \in DOMAIN t : True(pos[p] + i - 1, t[i])
    <2>1. ASSUME NEW i \in DOMAIN t PROVE True(pos[p] + i - 1, t[i])
        <3>1. job[p].start + pos[p] + i - 1 = pos[p] + i - 1  BY <1>3, <1>4, <1>10
        <3>2. CASE i \in DOMAIN d /\ t[i] = d[i]  BY <1>14, <3>2
        <3>3. CASE pos[p] + i - 1 \in DOMAIN cache /\ t[i] = cache[pos[p] + i - 1]  BY <1>15, <3>3
        <3>4. QED  BY <1>10, <3>1, <3>2, <3>3
    <2>2. QED  BY <2>1
<1>17. Len(out'[p]) = Len(u) + Len(t) /\ Len(u) \in Nat /\ Len(t) \in Nat  BY <1>10, <1>12
<1>18. PICK l \in Nat, k \in Nat, b \in Nat : l = Len(u) /\ k = Len(t) /\ b = pos[p]  BY <1>4, <1>17
<1>19. Len(out'[p]) = l + k /\ l <= b /\ k <= c /\ n = b + c
    BY <1>6, <1>10, <1>13, <1>17, <1>18
<1>20. Len(out'[p]) <= n  BY <1>19
<1>21. ASSUME Len(out'[p]) = n, NEW i \in DOMAIN out'[p] PROVE True(i - 1, out'[p][i])
    <2>1. l = b /\ Len(u) = pos[p]  BY <1>18, <1>19, <1>21
    <2>2. DOMAIN out'[p] = 1 .. l + k  BY <1>10, <1>12, <1>18
    <2>3. CASE i <= l
        <3>1. i \in DOMAIN u /\ out'[p][i] = u[i]  BY <1>10, <1>12, <1>18, <2>2, <2>3
        <3>2. QED  BY <1>13, <2>1, <3>1
    <2>4. CASE ~(i <= l)
        <3>1. PICK m \in 1 .. k : i = l + m  BY <2>2, <2>4
        <3>2. m \in DOMAIN t /\ out'[p][i] = t[m]  BY <1>10, <1>12, <1>18, <2>2, <3>1
        <3>3. pos[p] + m - 1 = i - 1  BY <1>18, <2>1, <3>1
        <3>4. QED  BY <1>16, <3>2, <3>3
    <2>5. QED  BY <2>3, <2>4
<1>22. QED  BY <1>8, <1>20, <1>21 DEF Collected

(* A reader that goes on or returns has collected what the EEPROM holds,
   unless it timed out.                                                      *)
LEMMA ReaderDoes ==
    ASSUME MInv, TableTypes, Awaits, Fresh, Reads, NEW p \in Reading, CallerStep(p)
    PROVE  pc'[p] # "idle" \/ outcome'[p] # "timeout" => Collected(p)
<1>1. p \in Callers /\ at[p] = "read"  BY DEF Reading
<1>2. PICK cached \in BOOLEAN : job[p] = ReadJob(cached)  BY <1>1 DEF Awaits
<1>3. job[p].op = "read" /\ job[p].start = 0 /\ job[p].len = TableLen /\ TableLen \in Nat
    BY <1>2, ReadJobIs, Sizes
<1>4. /\ DOMAIN pc = Callers /\ DOMAIN pos = Callers /\ out[p] \in Seq(Values) /\ DOMAIN out = Callers
      /\ DOMAIN outcome = Callers /\ pos[p] \in Nat /\ pos[p] <= job[p].len
      /\ (pc[p] = "lock" => pos[p] = 0)
    BY <1>1 DEF MInv, CallInv, Progress, TableTypes
<1>5. CASE Enter(p)
    <2>1. CASE FromCache(job[p])
        <3>1. PICK d : d = Slice(cache, 0, TableLen)  OBVIOUS
        <3>2. out' = [out EXCEPT ![p] = d] /\ Return(p, "ok")  BY <1>3, <1>5, <2>1, <3>1 DEF Enter
        <3>3. pc'[p] = "idle" /\ out'[p] = d  BY <1>1, <1>4, <3>2 DEF Return
        <3>4. Known(cache, 0, TableLen)  BY <1>3, <2>1 DEF FromCache
        <3>5. Len(d) = TableLen /\ \A i \in DOMAIN d : True(i - 1, d[i])  BY <3>1, <3>4, CachedIsTrue
        <3>6. Got(p)' = TableLen  BY <3>3 DEF Got
        <3>7. QED  BY <1>3, <3>3, <3>5, <3>6 DEF Collected
    <2>2. CASE ~FromCache(job[p])
        <3>1. pc[p] = "lock" /\ Ask(p, 0) /\ out' = out  BY <1>5, <2>2 DEF Enter
        <3>2. pc'[p] = "waiting" /\ pos'[p] = 0  BY <1>1, <1>4, <3>1 DEF Ask
        <3>3. Got(p) = 0 /\ Got(p)' = 0  BY <1>4, <3>1, <3>2 DEF Got
        <3>4. Len(out[p]) <= 0  BY <3>1, <3>3 DEF Reads
        <3>5. out[p] = <<>>  BY <1>4, <3>4
        <3>6. QED  BY <3>1, <3>3, <3>5 DEF Collected
    <2>3. QED  BY <2>1, <2>2
<1>6. CASE Wake(p)  BY <1>6, ReaderWakes
<1>7. CASE GapOver(p)
    <2>1. pc[p] = "gap" /\ Proceed(p, pos[p]) /\ out' = out  BY <1>7 DEF GapOver
    <2>2. \/ pc'[p] = "waiting" /\ pos'[p] = pos[p]
          \/ pos[p] >= job[p].len /\ pc'[p] = "idle"
        BY <1>1, <1>4, <2>1, ProceedDoes
    <2>3. Got(p) = pos[p] /\ Got(p)' = pos[p]  BY <1>3, <1>4, <2>1, <2>2 DEF Got
    <2>4. /\ Len(out[p]) <= Got(p)
          /\ Len(out[p]) = Got(p) => \A i \in DOMAIN out[p] : True(i - 1, out[p][i])
        BY <2>1 DEF Reads
    <2>5. QED  BY <2>1, <2>3, <2>4 DEF Collected
<1>8. CASE Timeout(p)
    <2>1. pc'[p] = "idle" /\ outcome'[p] = "timeout"  BY <1>1, <1>4, <1>8 DEF Timeout, Return
    <2>2. QED  BY <2>1
<1>9. QED  BY <1>5, <1>6, <1>7, <1>8 DEF CallerStep

(* What readers have collected is right when a call makes its step. *)
LEMMA ReadsStep ==
    ASSUME MInv, TableTypes, Awaits, Order, Fresh, Reads, Running = {}, NEW p \in Callers, CallerStep(p), Apart
    PROVE  Reads'
<1>1. /\ eeprom' = eeprom /\ reply'[p] = <<>>
      /\ \A q \in Callers \ {p} : /\ pc'[q] = pc[q] /\ pos'[q] = pos[q] /\ out'[q] = out[q]
                                  /\ outcome'[q] = outcome[q] /\ reply'[q] = reply[q]
    BY CallerDoes
<1>2. Sure' = Sure /\ Reading' = Reading /\ Reading \subseteq Callers  BY DEF Sure, Apart, Reading
<1>3. SUFFICES ASSUME NEW q \in Reading
               PROVE  /\ pc'[q] = "waiting" /\ reply'[q] # <<>> =>
                             \A i \in DOMAIN reply'[q][1] : True(pos[q] + i - 1, reply[q][1][i])'
                      /\ pc'[q] # "idle" \/ outcome'[q] # "timeout" =>
                             /\ Len(out'[q]) <= Got(q)'
                             /\ Len(out'[q]) = Got(q)' => \A i \in DOMAIN out'[q] : True(i - 1, out[q][i])'
    BY <1>2, Zenon DEF Reads
<1>4. CASE q = p
    <2>1. pc'[p] # "idle" \/ outcome'[p] # "timeout" => Collected(p)  BY <1>3, <1>4, ReaderDoes
    <2>2. QED  BY <1>1, <1>2, <1>4, <2>1 DEF Collected, True
<1>5. CASE q # p
    <2>1. pc'[q] = pc[q] /\ out'[q] = out[q] /\ outcome'[q] = outcome[q]
          /\ reply'[q] = reply[q] /\ pos'[q] = pos[q] /\ Got(q)' = Got(q)
        BY <1>1, <1>2, <1>5 DEF Got
    <2>2. pc[q] = "waiting" /\ reply[q] # <<>> =>
              \A i \in DOMAIN reply[q][1] : True(pos[q] + i - 1, reply[q][1][i])
        BY DEF Reads
    <2>3. pc[q] # "idle" \/ outcome[q] # "timeout" =>
              /\ Len(out[q]) <= Got(q)
              /\ Len(out[q]) = Got(q) => \A i \in DOMAIN out[q] : True(i - 1, out[q][i])
        BY DEF Reads
    <2>4. QED  BY <1>1, <1>2, <2>1, <2>2, <2>3 DEF True
<1>6. QED  BY <1>4, <1>5
-----------------------------------------------------------------------------
(* The module's work, and the replies that arrive. *)
LEMMA CallsStay ==
    ASSUME Order, Listed, Alone, Picks, Apart, UNCHANGED <<lockQueue, pc>>
    PROVE  Order' /\ Listed' /\ Alone' /\ Picks'
<1>1. Order'  BY DEF Order, Reading, Apart
<1>2. Listed'  BY DEF Listed, Apart
<1>3. Alone'  BY DEF Alone, Apart
<1>4. Picks'  BY DEF Picks, PickWasFree, Apart
<1>5. QED  BY <1>1, <1>2, <1>3, <1>4

(* The module carries out a request and answers: what is left in the slots is
   what was to be there.                                                     *)
LEMMA AnswersKeep ==
    ASSUME MInv, TableTypes, Writes, Stored, Fresh, Reads, ModuleAnswers, Apart
    PROVE  Writes' /\ Stored' /\ Fresh' /\ Reads'
<1>1. /\ UNCHANGED <<cache, reply, pc, job, pos, out, outcome>> /\ toBackend \in Seq(Rep)
      /\ toModule \in Seq(Req) /\ toModule # <<>>
    BY DEF ModuleAnswers, callVars, MInv, BusInv, BusTypes
<1>2. Sure' = Sure /\ Reading' = Reading /\ Begun' = Begun /\ Sure \subseteq Addr
      /\ \A p \in Callers : Asked(p)' = Asked(p) /\ Got(p)' = Got(p)
    BY <1>1 DEF Sure, Reading, Begun, Asked, Got, Apart
<1>3. \A a \in Addr : \A v : Will(a, v) => Will(a, v)'  BY WillAnswers
<1>4. Writes'
    <2> SUFFICES ASSUME NEW p \in Callers, NEW s \in Slots, NEW e \in Entries,
                        at[p] = "write", entry[p].slot = s, entry[p].is = e,
                        NEW k \in 0 .. 2, k < Asked(p)
                 PROVE  Will(s * SlotSize + k, ToBytes(e)[k + 1])'
        BY <1>2, Zenon DEF Writes, Apart
    <2>1. Will(s * SlotSize + k, ToBytes(e)[k + 1])  BY DEF Writes
    <2>2. s * SlotSize + k \in Addr
        <3>1. s * SlotSize + k \in Covers(s * SlotSize, SlotSize)  BY SlotBytes
        <3>2. QED  BY <3>1 DEF Covers
    <2>3. QED  BY <1>3, <2>1, <2>2
<1>5. Stored'
    <2> SUFFICES ASSUME NEW s \in Slots, s \notin Begun, s \notin doubtful, NEW e \in Entry, programmed[s] = e
                 PROVE  Holds(s, e)'
        BY <1>2, Zenon DEF Stored, Apart
    <2>1. Holds(s, e)  BY DEF Stored
    <2>2. s * SlotSize \in Addr /\ s * SlotSize + 1 \in Addr /\ s * SlotSize + 2 \in Addr
        BY SlotBytes, Zenon
    <2>3. QED  BY <1>3, <2>1, <2>2 DEF Holds
<1>6. ASSUME slots = <<>> \/ Reading # {}, NEW a \in Sure PROVE SettledAt(a)' /\ eeprom'[a] = eeprom[a]
    <2>1. SettledAt(a) /\ a \in Addr /\ Pending(a) = {}  BY <1>2, <1>6 DEF Fresh, SettledAt
    <2>2. PICK v : v = eeprom[a]  OBVIOUS
    <2>3. Will(a, v)  BY <2>1, <2>2 DEF Will
    <2>4. Pending(a)' = {} /\ eeprom'[a] = eeprom[a]  BY <2>1, <2>3, WillAnswers
    <2>5. PICK r : r = Head(toModule)  OBVIOUS
    <2>6. r \in Req  BY <1>1, <2>5
    <2>7. r.addr \in Nat /\ r.size \in Nat  BY <2>6, SizeAssumption DEF Req, Addr
    <2>8. PICK f : f = eeprom'  OBVIOUS
    <2>9. PICK m : m = [addr |-> r.addr, data |-> Slice(f, r.addr, r.size)]  OBVIOUS
    <2>10. toBackend' = Append(toBackend, m)  BY <2>5, <2>8, <2>9 DEF ModuleAnswers
    <2>11. \A i \in DOMAIN toBackend' : (i \in DOMAIN toBackend /\ toBackend'[i] = toBackend[i]) \/ toBackend'[i] = m
        BY <1>1, <2>10
    <2>12. ASSUME a \in Covers(m.addr, Len(m.data)) PROVE m.data[a - m.addr + 1] = f[a]
        <3>1. m.addr = r.addr /\ m.data = [i \in 1 .. r.size |-> f[r.addr + i - 1]]  BY <2>9 DEF Slice
        <3>2. Len(m.data) = r.size  BY <2>7, <3>1
        <3>3. a \in Int /\ r.addr <= a /\ a < r.addr + r.size
            <4>1. a \in Covers(r.addr, r.size)  BY <2>12, <3>1, <3>2
            <4>2. QED  BY <2>1, <4>1, SizeAssumption DEF Covers, Addr
        <3>4. a - r.addr + 1 \in 1 .. r.size /\ r.addr + (a - r.addr + 1) - 1 = a  BY <2>7, <3>3
        <3>5. QED  BY <3>1, <3>4
    <2>13. ASSUME NEW i \in DOMAIN toBackend', Tells(i, a)'
           PROVE  toBackend'[i].data[a - toBackend'[i].addr + 1] = eeprom'[a]
        <3>1. CASE i \in DOMAIN toBackend /\ toBackend'[i] = toBackend[i]
            <4>1. Tells(i, a)  BY <2>13, <3>1 DEF Tells
            <4>2. QED  BY <2>1, <2>4, <3>1, <4>1 DEF SettledAt
        <3>2. CASE toBackend'[i] = m
            <4>1. a \in Covers(m.addr, Len(m.data))  BY <2>13, <3>2 DEF Tells
            <4>2. QED  BY <2>8, <2>12, <3>2, <4>1
        <3>3. QED  BY <2>11, <3>1, <3>2
    <2>14. QED  BY <1>1, <2>1, <2>4, <2>13 DEF SettledAt
<1>7. Fresh'  BY <1>2, <1>6, Zenon DEF Fresh, Apart
<1>8. Reads'
    <2>1. ASSUME NEW p \in Reading, NEW a, NEW v, True(a, v) PROVE True(a, v)'
        BY <1>2, <1>6, <2>1 DEF True
    <2> SUFFICES ASSUME NEW q \in Reading
                 PROVE  /\ pc[q] = "waiting" /\ reply[q] # <<>> =>
                               \A i \in DOMAIN reply[q][1] : True(pos[q] + i - 1, reply[q][1][i])'
                        /\ pc[q] # "idle" \/ outcome[q] # "timeout" =>
                               /\ Len(out[q]) <= Got(q)
                               /\ Len(out[q]) = Got(q) => \A i \in DOMAIN out[q] : True(i - 1, out[q][i])'
        <3>1. \A q \in Reading : q \in Callers  BY DEF Reading
        <3>2. QED  BY <1>1, <1>2, <3>1, Zenon DEF Reads
    <2>2. pc[q] = "waiting" /\ reply[q] # <<>> =>
              \A i \in DOMAIN reply[q][1] : True(pos[q] + i - 1, reply[q][1][i])
        BY DEF Reads
    <2>3. pc[q] # "idle" \/ outcome[q] # "timeout" =>
              /\ Len(out[q]) <= Got(q)
              /\ Len(out[q]) = Got(q) => \A i \in DOMAIN out[q] : True(i - 1, out[q][i])
        BY DEF Reads
    <2>4. Sure' = Sure /\ \A a \in Sure : eeprom'[a] = eeprom[a]  BY <1>2, <1>6
    <2>5. QED  BY <1>1, <2>2, <2>3, <2>4 DEF True
<1>9. QED  BY <1>4, <1>5, <1>7, <1>8

(* A reply arrives, and the cache and its waiter get it: readers get what the
   EEPROM holds.                                                             *)
LEMMA FeedKeeps ==
    ASSUME MInv, TableTypes, Awaits, Writes, Stored, Fresh, Reads, Feed, Apart
    PROVE  Writes' /\ Stored' /\ Fresh' /\ Reads'
<1>1. /\ UNCHANGED <<eeprom, toModule, pc, job, pos, out, outcome>> /\ toBackend \in Seq(Rep)
      /\ toBackend # <<>> /\ toBackend' = Tail(toBackend) /\ DOMAIN cache \subseteq Addr
    BY DEF Feed, MInv, BusInv, BusTypes
<1>2. Sure' = Sure /\ Reading' = Reading /\ Begun' = Begun /\ Reading \subseteq Callers /\ Sure \subseteq Addr
      /\ \A p \in Callers : Asked(p)' = Asked(p) /\ Got(p)' = Got(p)
    BY <1>1 DEF Sure, Reading, Begun, Asked, Got, Apart
<1>3. \A a, v : Pending(a)' = Pending(a) /\ (Will(a, v)' <=> Will(a, v))  BY <1>1, WillSame
<1>4. Writes'
    <2> SUFFICES ASSUME NEW p \in Callers, NEW s \in Slots, NEW e \in Entries,
                        at[p] = "write", entry[p].slot = s, entry[p].is = e,
                        NEW k \in 0 .. 2, k < Asked(p)
                 PROVE  Will(s * SlotSize + k, ToBytes(e)[k + 1])'
        BY <1>2, Zenon DEF Writes, Apart
    <2>1. Will(s * SlotSize + k, ToBytes(e)[k + 1])  BY DEF Writes
    <2>2. QED  BY <1>3, <2>1
<1>5. Stored'
    <2> SUFFICES ASSUME NEW s \in Slots, s \notin Begun, s \notin doubtful, NEW e \in Entry, programmed[s] = e
                 PROVE  Holds(s, e)'
        BY <1>2, Zenon DEF Stored, Apart
    <2>1. Holds(s, e)  BY DEF Stored
    <2>2. QED  BY <1>1, <2>1, HoldsSame
<1>6. PICK m : m = Head(toBackend)  OBVIOUS
<1>7. m \in Rep /\ toBackend[1] = m /\ 1 \in DOMAIN toBackend  BY <1>1, <1>6
<1>8. m.addr \in Nat /\ m.data \in Seq(Values) /\ m.addr + Len(m.data) <= MaxAddr + 1
    BY <1>7, SizeAssumption DEF Rep, Addr
<1>9. /\ cache' = [a \in DOMAIN cache \cup Covers(m.addr, Len(m.data)) |->
                      IF a \in Covers(m.addr, Len(m.data)) THEN m.data[a - m.addr + 1] ELSE cache[a]]
      /\ reply' = [p \in Callers |-> IF m.addr \in DOMAIN waiters /\ waiters[m.addr] = p /\ reply[p] = <<>>
                                     THEN <<m.data>> ELSE reply[p]]
    BY <1>6 DEF Feed
<1>10. ASSUME slots = <<>> \/ Reading # {}, NEW a \in Sure, a \in Covers(m.addr, Len(m.data))
       PROVE  m.data[a - m.addr + 1] = eeprom[a]
    BY <1>7, <1>10 DEF Fresh, SettledAt, Tells
<1>11. ASSUME slots = <<>> \/ Reading # {}, NEW a \in Sure PROVE SettledAt(a)'
    <2>1. SettledAt(a)  BY <1>11 DEF Fresh
    <2>2. Pending(a)' = {}  BY <1>3, <2>1 DEF SettledAt
    <2>3. a \in DOMAIN cache' => cache'[a] = eeprom[a]
        <3>1. CASE a \in Covers(m.addr, Len(m.data))  BY <1>9, <1>10, <1>11, <3>1
        <3>2. CASE a \notin Covers(m.addr, Len(m.data))  BY <1>9, <2>1, <3>2 DEF SettledAt
        <3>3. QED  BY <3>1, <3>2
    <2>4. ASSUME NEW i \in DOMAIN toBackend', Tells(i, a)'
          PROVE  toBackend'[i].data[a - toBackend'[i].addr + 1] = eeprom[a]
        <3>1. i + 1 \in DOMAIN toBackend /\ toBackend'[i] = toBackend[i + 1]  BY <1>1, <2>4
        <3>2. Tells(i + 1, a)  BY <2>4, <3>1 DEF Tells
        <3>3. QED  BY <2>1, <3>1, <3>2 DEF SettledAt
    <2>5. QED  BY <1>1, <2>2, <2>3, <2>4 DEF SettledAt
<1>12. Fresh'  BY <1>2, <1>11, Zenon DEF Fresh, Apart
<1>13. Reads'
    <2>1. \A a, v : True(a, v)' <=> True(a, v)  BY <1>1, <1>2 DEF True
    <2> SUFFICES ASSUME NEW q \in Reading
                 PROVE  /\ pc[q] = "waiting" /\ reply'[q] # <<>> =>
                               \A i \in DOMAIN reply'[q][1] : True(pos[q] + i - 1, reply[q][1][i])'
                        /\ pc[q] # "idle" \/ outcome[q] # "timeout" =>
                               /\ Len(out[q]) <= Got(q)
                               /\ Len(out[q]) = Got(q) => \A i \in DOMAIN out[q] : True(i - 1, out[q][i])'
        BY <1>1, <1>2, Zenon DEF Reads
    <2>2. q \in Callers /\ at[q] = "read"  BY DEF Reading
    <2>3. pc[q] # "idle" \/ outcome[q] # "timeout" =>
              /\ Len(out[q]) <= Got(q)
              /\ Len(out[q]) = Got(q) => \A i \in DOMAIN out[q] : True(i - 1, out[q][i])'
        BY <1>1, <1>2 DEF Reads, True
    <2>4. CASE reply'[q] = reply[q]
        <3>1. pc[q] = "waiting" /\ reply[q] # <<>> =>
                  \A i \in DOMAIN reply[q][1] : True(pos[q] + i - 1, reply[q][1][i])
            BY DEF Reads
        <3>2. QED  BY <1>1, <1>2, <2>3, <2>4, <3>1 DEF True
    <2>5. CASE reply'[q] # reply[q]
        <3>1. m.addr \in DOMAIN waiters /\ waiters[m.addr] = q /\ reply'[q] = <<m.data>>
            BY <1>9, <2>2, <2>5
        <3>2. m.addr = job[q].start + pos[q]
            BY <3>1 DEF MInv, CallInv, OneAtATime
        <3>3. PICK cached \in BOOLEAN : job[q] = ReadJob(cached)  BY <2>2 DEF Awaits
        <3>4. m.addr = pos[q] /\ pos[q] \in Nat
            <4>1. job[q].start = 0  BY <3>3, ReadJobIs
            <4>2. pos[q] \in Nat  BY <2>2 DEF MInv, CallInv, Progress
            <4>3. QED  BY <3>2, <4>1, <4>2
        <3>5. PICK b \in Nat : b = pos[q]  BY <3>4
        <3>6. ASSUME NEW i \in DOMAIN m.data, b + i - 1 \in Sure PROVE m.data[i] = eeprom[b + i - 1]
            <4>1. i \in 1 .. Len(m.data) /\ b = m.addr  BY <1>8, <3>4, <3>5
            <4>2. PICK a \in Sure : a = b + i - 1  BY <3>6
            <4>3. a \in Covers(m.addr, Len(m.data))
                <5>1. a \in Addr /\ m.addr <= a /\ a < m.addr + Len(m.data)  BY <1>2, <1>8, <4>1, <4>2
                <5>2. QED  BY <5>1 DEF Covers
            <4>4. m.data[a - m.addr + 1] = eeprom[a]  BY <1>10, <4>3
            <4>5. a - m.addr + 1 = i  BY <1>8, <4>1, <4>2
            <4>6. QED  BY <4>2, <4>4, <4>5
        <3>7. reply'[q][1] = m.data /\ pos'[q] = b  BY <1>1, <3>1, <3>5
        <3>8. QED  BY <1>1, <1>2, <2>3, <3>6, <3>7 DEF True
    <2>6. QED  BY <2>4, <2>5
<1>14. QED  BY <1>4, <1>5, <1>12, <1>13

(* An operation is called. *)
LEMMA BeginKeeps ==
    ASSUME MInv, TableTypes, Awaits, Order, Writes, Stored, Listed, Fresh, Reads, Alone, Picks, ReloadAlone,
           NEW p \in Callers, NEW o \in TableOps, Begin(p, o)
    PROVE  Order' /\ Writes' /\ Stored' /\ Listed' /\ Fresh' /\ Reads' /\ Alone' /\ Picks'
<1>1. /\ at[p] = "none" /\ at' = [at EXCEPT ![p] = "begin"] /\ todo' = [todo EXCEPT ![p] = o]
      /\ UNCHANGED <<entry, programmed>> /\ DOMAIN at = Callers /\ DOMAIN todo = Callers
      /\ alone' = [q \in Callers |-> IF q = p THEN Busy = {} ELSE FALSE]
    BY DEF Begin, TableTypes
<1>2. at'[p] = "begin" /\ \A q \in Callers \ {p} : at'[q] = at[q] /\ todo'[q] = todo[q]  BY <1>1
<1>3. Reading' = Reading  BY <1>1, <1>2 DEF Reading
<1>4. Alone'
    <2> SUFFICES ASSUME NEW q \in Callers, NEW r \in Callers, alone'[q], at'[q] # "none", r # q
                 PROVE  at'[r] = "none"
        BY DEF Alone
    <2>1. q = p /\ Busy = {}  BY <1>1
    <2>2. QED  BY <1>2, <2>1 DEF Busy
<1>5. Picks'
    <2> SUFFICES ASSUME NEW q \in Callers, at'[q] = "write", alone'[q] PROVE FALSE
        BY Zenon DEF Picks
    <2>1. q = p  BY <1>1
    <2>2. QED  BY <1>2, <2>1
<1>6. CASE o.op # "reload"
    <2>1. UNCHANGED <<slots, doubtful, mvars>>  BY <1>6 DEF Begin
    <2>2. UNCHANGED <<eeprom, toModule, toBackend, cache, reply, lockQueue, pc, job, pos, out, outcome>>
        BY <2>1 DEF mvars
    <2>3. \A a, v : Pending(a)' = Pending(a) /\ (Will(a, v)' <=> Will(a, v))  BY <2>2, WillSame
    <2>4. Order'
        <3>1. \A q \in Callers : at'[q] \in {"read", "write"} => at'[q] = at[q]  BY <1>2
        <3>2. \A i \in DOMAIN lockQueue : lockQueue[i] # p
            <4>1. pc[p] = "idle"  BY <1>1 DEF Awaits
            <4>2. QED  BY <4>1, QueueIs
        <3>3. \A i \in DOMAIN lockQueue : at'[lockQueue[i]] = at[lockQueue[i]]
            BY <1>2, <3>2, QueueIs
        <3>4. \A i, j \in DOMAIN lockQueue' :
                  i < j /\ at'[lockQueue'[j]] = "read" => at'[lockQueue'[i]] = "read"
            BY <2>2, <3>3 DEF Order
        <3>5. Reading' # {} => \A q \in Callers : at'[q] = "write" => pc'[q] = "lock"
            BY <1>3, <2>2, <3>1 DEF Order
        <3>6. slots' = <<>> => \A q \in Callers : at'[q] # "write"  BY <2>1, <3>1 DEF Order
        <3>7. QED  BY <3>4, <3>5, <3>6, Zenon DEF Order
    <2>5. Begun' = Begun  BY <1>1, <1>2, <2>2 DEF Begun
    <2>6. Sure' = Sure /\ \A q \in Callers : Asked(q)' = Asked(q) /\ Got(q)' = Got(q)
        BY <2>1, <2>2 DEF Sure, Asked, Got
    <2>7. Writes'
        <3> SUFFICES ASSUME NEW q \in Callers, NEW s \in Slots, NEW e \in Entries,
                            at'[q] = "write", entry[q].slot = s, entry[q].is = e,
                            NEW k \in 0 .. 2, k < Asked(q)
                     PROVE  Will(s * SlotSize + k, ToBytes(e)[k + 1])'
            BY <1>1, <2>6, Zenon DEF Writes
        <3>1. at[q] = "write"  BY <1>2
        <3>2. Will(s * SlotSize + k, ToBytes(e)[k + 1])  BY <3>1 DEF Writes
        <3>3. QED  BY <2>3, <3>2
    <2>8. Stored'
        <3> SUFFICES ASSUME NEW s \in Slots, s \notin Begun, s \notin doubtful, NEW e \in Entry, programmed[s] = e
                     PROVE  Holds(s, e)'
            BY <1>1, <2>1, <2>5, Zenon DEF Stored
        <3>1. QED  BY <2>2, HoldsSame DEF Stored
    <2>9. Listed'  BY <1>1, <2>1 DEF Listed
    <2>10. Fresh'  BY <1>3, <2>1, <2>2, <2>6 DEF Fresh, SettledAt, Pending, Tells
    <2>11. Reads'  BY <1>3, <2>2, <2>6 DEF Reads, True, Got
    <2>12. QED  BY <1>4, <1>5, <2>4, <2>7, <2>8, <2>9, <2>10, <2>11
<1>7. CASE o.op = "reload"
    <2>1. Busy = {}
        <3>1. \A q \in Busy : "reload" \notin {o.op, todo[q].op}  BY DEF Begin
        <3>2. QED  BY <1>7, <3>1
    <2>2. \A q \in Callers : at'[q] \in {"none", "begin"} /\ at[q] = "none"  BY <1>2, <2>1 DEF Busy
    <2>3. Reading' = {} /\ Begun = {} /\ Begun' = {}  BY <2>2 DEF Reading, Begun
    <2>4. /\ slots' = <<>> /\ Invalidate(Covers(0, TableLen))
          /\ doubtful' = doubtful \cup {s \in Slots : OnItsWay(s) \/ OldNews(s)}
        BY <1>7 DEF Begin
    <2>5. UNCHANGED <<eeprom, toModule, toBackend, lockQueue>> /\ cache' = Without(cache, Covers(0, TableLen))
        BY <2>4 DEF Invalidate, busVars, callVars
    <2>6. Order'
        <3>1. \A i \in DOMAIN lockQueue' : lockQueue'[i] \in Callers  BY <2>5, QueueIs
        <3>2. QED  BY <2>2, <2>3, <3>1 DEF Order
    <2>7. Writes'  BY <2>2 DEF Writes
    <2>8. Stored'
        <3> SUFFICES ASSUME NEW s \in Slots, s \notin doubtful', NEW e \in Entry, programmed[s] = e
                     PROVE  Holds(s, e)'
            BY <1>1, Zenon DEF Stored
        <3>1. s \notin Begun /\ s \notin doubtful  BY <2>3, <2>4
        <3>2. QED  BY <2>5, <3>1, HoldsSame DEF Stored
    <2>9. Listed'  BY <2>4 DEF Listed
    <2>10. Fresh'
        <3> SUFFICES ASSUME NEW a \in Sure' PROVE SettledAt(a)'
            BY Zenon DEF Fresh
        <3>1. PICK s \in Slots : s \notin doubtful' /\ a \in Covers(s * SlotSize, SlotSize)  BY DEF Sure
        <3>2. ~OnItsWay(s) /\ ~OldNews(s)  BY <2>4, <3>1
        <3>3. Pending(a) = {}  BY <3>1, <3>2 DEF OnItsWay, Pending
        <3>4. \A i \in DOMAIN toBackend : Tells(i, a) =>
                  toBackend[i].data[a - toBackend[i].addr + 1] = eeprom[a]
            BY <3>1, <3>2 DEF OldNews, Tells
        <3>5. a \notin DOMAIN cache'
            <4>1. a \in Covers(0, TableLen)
                <5>1. a \in Addr /\ s * SlotSize <= a /\ a < s * SlotSize + 3  BY <3>1, Sizes DEF Covers
                <5>2. PICK b \in Nat : b = s * SlotSize /\ b + 3 <= TableLen  BY Sizes
                <5>3. a \in Nat /\ TableLen \in Nat  BY <5>1, Sizes DEF Addr
                <5>4. 0 <= a /\ a < 0 + TableLen  BY <5>1, <5>2, <5>3
                <5>5. QED  BY <5>1, <5>4 DEF Covers
            <4>2. QED  BY <2>5, <4>1 DEF Without
        <3>6. QED  BY <2>5, <3>3, <3>4, <3>5 DEF SettledAt, Pending, Tells
    <2>11. Reads'  BY <2>3 DEF Reads
    <2>12. QED  BY <1>4, <1>5, <2>6, <2>7, <2>8, <2>9, <2>10, <2>11
<1>8. QED  BY <1>6, <1>7
-----------------------------------------------------------------------------
(* A slot as the EEPROM has it. *)
LEMMA InEepromIs ==
    ASSUME eeprom \in [Addr -> Values], NEW s \in Slots
    PROVE  InEeprom[s] = [source |-> eeprom[s * SlotSize], action |-> eeprom[s * SlotSize + 1],
                          subject |-> eeprom[s * SlotSize + 2]]
<1>1. 0 \in Nat /\ TableLen \in Nat /\ \A a \in 0 .. 0 + TableLen - 1 : eeprom[a] \in Values
    BY Sizes DEF Addr
<1>2. PICK d : d = Slice(eeprom, 0, TableLen)  OBVIOUS
<1>3. d \in Seq(Values) /\ Len(d) = TableLen /\ \A i \in 1 .. TableLen : d[i] = eeprom[0 + i - 1]
    BY <1>1, <1>2, SliceIs
<1>4. PICK b \in Nat : b = s * SlotSize  BY Sizes
<1>5. /\ b + 1 \in DOMAIN d /\ b + 2 \in DOMAIN d /\ b + 3 \in DOMAIN d
      /\ Decoded(d)[s] = [source |-> d[b + 1], action |-> d[b + 2], subject |-> d[b + 3]]
    <2>1. Len(d) >= TableLen  BY <1>1, <1>3
    <2>2. QED  BY <1>3, <1>4, <2>1, DecodedIs
<1>6. 0 + (b + 1) - 1 = b /\ 0 + (b + 2) - 1 = b + 1 /\ 0 + (b + 3) - 1 = b + 2  OBVIOUS
<1>7. d[b + 1] = eeprom[b] /\ d[b + 2] = eeprom[b + 1] /\ d[b + 3] = eeprom[b + 2]
    BY <1>3, <1>5, <1>6
<1>8. QED  BY <1>2, <1>4, <1>5, <1>7 DEF InEeprom

(* A new table satisfies the invariant. *)
LEMMA TableInit == AInit => TInv
<1> SUFFICES ASSUME AInit PROVE TInv  OBVIOUS
<1>1. /\ slots = <<>> /\ at = [p \in Callers |-> "none"] /\ programmed = InEeprom /\ doubtful = {}
    BY DEF AInit, InEeprom
<1>2. /\ toModule = <<>> /\ toBackend = <<>> /\ cache = <<>> /\ lockQueue = <<>> /\ lost = 0
      /\ eeprom \in [Addr -> Values]
    BY ContentsAssumption DEF AInit, MInit
<1>3. TableTypes /\ Awaits  BY BaseInit
<1>4. ASSUME NEW p \in Callers PROVE at[p] = "none"  BY <1>1, Zenon
<1>5. Reading = {}  BY <1>4 DEF Reading
<1>6. Order  BY <1>2, <1>4, <1>5 DEF Order
<1>7. Writes /\ Reads /\ Alone /\ Picks /\ Listed  BY <1>1, <1>4, <1>5 DEF Writes, Reads, Alone, Picks, Listed
<1>8. \A a : Pending(a) = {}  BY <1>2 DEF Pending
<1>9. Stored
    <2> SUFFICES ASSUME NEW s \in Slots, NEW e \in Entry, programmed[s] = e PROVE Holds(s, e)
        BY DEF Stored
    <2>1. e.source = eeprom[s * SlotSize] /\ e.action = eeprom[s * SlotSize + 1]
          /\ e.subject = eeprom[s * SlotSize + 2]
        <3>1. InEeprom[s] = [source |-> eeprom[s * SlotSize], action |-> eeprom[s * SlotSize + 1],
                             subject |-> eeprom[s * SlotSize + 2]]
            BY <1>2, InEepromIs
        <3>2. QED  BY <1>1, <3>1
    <2>2. QED  BY <1>8, <2>1 DEF Holds, Will
<1>10. Fresh  BY <1>2, <1>8 DEF Fresh, SettledAt, Tells
<1>11. QED  BY <1>2, <1>3, <1>6, <1>7, <1>9, <1>10 DEF TInv

(* Every step keeps the invariant of a table, when nothing is lost and a
   reload is kept apart.                                                     *)
LEMMA TableStep ==
    ASSUME MaxLost = 0, ReloadAlone, MInv, TInv, [ANext]_avars
    PROVE  TInv'
<1>1. TableTypes' /\ Awaits' /\ TableTypes /\ Awaits  BY BaseStep DEF TInv
<1>2. /\ Order /\ Writes /\ Stored /\ Listed /\ Fresh /\ Reads /\ Alone /\ Picks /\ lost = 0  BY DEF TInv
<1>3. ASSUME NEW p \in Callers, Continue(p) PROVE TInv'
    <2>1. lost' = 0  BY <1>1, <1>2, <1>3, RunDoes
    <2>2. Order' /\ Writes' /\ Stored' /\ Listed' /\ Fresh' /\ Reads'
        BY <1>1, <1>2, <1>3, OrderRun, WritesRun, StoredRun, ListedRun, FreshRun, ReadsRun
    <2>3. Alone' /\ Picks'  BY <1>1, <1>2, <1>3, <2>2, PicksRun
    <2>4. QED  BY <1>1, <2>1, <2>2, <2>3 DEF TInv
<1>4. CASE Memory /\ Running = {}
    <2>1. Apart /\ ((\E p \in Callers : CallerStep(p)) \/ Carries)  BY <1>4, MemoryIs DEF Apart
    <2>2. ASSUME NEW p \in Callers, CallerStep(p) PROVE TInv'
        <3>1. lost' = lost  BY <1>1, <2>2, CallerDoes
        <3>2. Order' /\ Writes' /\ Stored' /\ Fresh' /\ Reads'
            BY <1>1, <1>2, <1>4, <2>1, <2>2, OrderStep, WritesStep, StoredStep, FreshStep, ReadsStep DEF Apart
        <3>3. Listed' /\ Alone' /\ Picks'
            BY <1>2, <2>1 DEF Listed, Alone, Picks, PickWasFree, Apart
        <3>4. QED  BY <1>1, <1>2, <3>1, <3>2, <3>3 DEF TInv
    <2>3. CASE Feed
        <3>1. UNCHANGED <<lockQueue, pc, lost>>  BY <2>3 DEF Feed
        <3>2. Order' /\ Listed' /\ Alone' /\ Picks'  BY <1>2, <2>1, <3>1, CallsStay
        <3>3. Writes' /\ Stored' /\ Fresh' /\ Reads'  BY <1>1, <1>2, <2>1, <2>3, FeedKeeps
        <3>4. QED  BY <1>1, <1>2, <3>1, <3>2, <3>3 DEF TInv
    <2>4. CASE ModuleAnswers
        <3>1. UNCHANGED <<lockQueue, pc, lost>>  BY <2>4 DEF ModuleAnswers, callVars
        <3>2. Order' /\ Listed' /\ Alone' /\ Picks'  BY <1>2, <2>1, <3>1, CallsStay
        <3>3. Writes' /\ Stored' /\ Fresh' /\ Reads'  BY <1>1, <1>2, <2>1, <2>4, AnswersKeep
        <3>4. QED  BY <1>1, <1>2, <3>1, <3>2, <3>3 DEF TInv
    <2>5. ~LoseRequest /\ ~LoseReply  BY <1>2 DEF LoseRequest, LoseReply
    <2>6. QED  BY <2>1, <2>2, <2>3, <2>4, <2>5 DEF Carries
<1>5. ASSUME NEW p \in Callers, NEW o \in TableOps, Begin(p, o) PROVE TInv'
    <2>1. lost' = lost  BY <1>5 DEF Begin, Invalidate, busVars, mvars
    <2>2. Order' /\ Writes' /\ Stored' /\ Listed' /\ Fresh' /\ Reads' /\ Alone' /\ Picks'
        BY <1>1, <1>2, <1>5, BeginKeeps
    <2>3. QED  BY <1>1, <1>2, <2>1, <2>2 DEF TInv
<1>6. CASE UNCHANGED avars
    <2>1. /\ Apart
          /\ UNCHANGED <<eeprom, toModule, toBackend, cache, reply, lockQueue, pc, job, pos, out, outcome, lost>>
        BY <1>6 DEF avars, tableVars, mvars, Apart
    <2>2. Order' /\ Listed' /\ Alone' /\ Picks'  BY <1>2, <2>1, CallsStay
    <2>3. Sure' = Sure /\ Reading' = Reading /\ Begun' = Begun
          /\ \A p \in Callers : Asked(p)' = Asked(p) /\ Got(p)' = Got(p)
        BY <2>1 DEF Sure, Reading, Begun, Asked, Got, Apart
    <2>4. \A a, v : Pending(a)' = Pending(a) /\ (Will(a, v)' <=> Will(a, v))  BY <2>1, WillSame
    <2>5. Writes'
        <3> SUFFICES ASSUME NEW q \in Callers, NEW s \in Slots, NEW e \in Entries,
                            at[q] = "write", entry[q].slot = s, entry[q].is = e,
                            NEW k \in 0 .. 2, k < Asked(q)
                     PROVE  Will(s * SlotSize + k, ToBytes(e)[k + 1])'
            BY <2>1, <2>3, Zenon DEF Writes, Apart
        <3>1. Will(s * SlotSize + k, ToBytes(e)[k + 1])  BY <1>2 DEF Writes
        <3>2. QED  BY <2>4, <3>1
    <2>6. Stored'
        <3> SUFFICES ASSUME NEW s \in Slots, s \notin Begun, s \notin doubtful, NEW e \in Entry, programmed[s] = e
                     PROVE  Holds(s, e)'
            BY <2>1, <2>3, Zenon DEF Stored, Apart
        <3>1. Holds(s, e)  BY <1>2 DEF Stored
        <3>2. QED  BY <2>1, <3>1, HoldsSame
    <2>7. Fresh'  BY <1>2, <2>1, <2>3, <2>4 DEF Fresh, SettledAt, Tells, Apart
    <2>8. Reads'  BY <1>2, <2>1, <2>3 DEF Reads, True, Got, Apart
    <2>9. QED  BY <1>1, <1>2, <2>1, <2>2, <2>5, <2>6, <2>7, <2>8 DEF TInv
<1>7. (\E p \in Callers : Continue(p)) \/ (Memory /\ Running = {})
      \/ (\E p \in Callers, o \in TableOps : Begin(p, o)) \/ UNCHANGED avars
    BY DEF ANext, Running
<1>8. QED  BY <1>3, <1>4, <1>5, <1>6, <1>7

(* When nothing is lost and a reload is kept apart from other operations, the
   list, the requests under way and the EEPROM belong together at all times: the
   invariant the theorems about a table follow from.                         *)
THEOREM TableIsKept ==
    ASSUME MaxLost = 0, ReloadAlone
    PROVE  ASpec => []TInv
<1>1. AInit => TInv  BY TableInit
<1>2. Base /\ TInv /\ [ANext]_avars => TInv'  BY TableStep DEF Base
<1>3. QED  BY <1>1, <1>2, TableInductive, PTL DEF ASpec

(* Outside what is in doubt or on its way, the EEPROM has what was programmed. *)
LEMMA StoredIsThere ==
    ASSUME MInv, TInv, NEW s \in Slots, s \notin Writing, s \notin doubtful, ~OnItsWay(s)
    PROVE  InEeprom[s] = programmed[s]
<1>1. Stored /\ TableTypes /\ eeprom \in [Addr -> Values]  BY DEF TInv, MInv, BusInv, BusTypes
<1>2. s \notin Begun  BY DEF Begun, Writing
<1>3. PICK e \in Entry : e = programmed[s]  BY <1>1 DEF TableTypes
<1>4. Holds(s, e)  BY <1>1, <1>2, <1>3 DEF Stored
<1>5. \A a \in Covers(s * SlotSize, SlotSize) : Pending(a) = {}  BY DEF OnItsWay, Pending
<1>6. /\ s * SlotSize \in Covers(s * SlotSize, SlotSize)
      /\ s * SlotSize + 1 \in Covers(s * SlotSize, SlotSize)
      /\ s * SlotSize + 2 \in Covers(s * SlotSize, SlotSize)
    BY SlotBytes, Zenon
<1>7. /\ eeprom[s * SlotSize] = e.source /\ eeprom[s * SlotSize + 1] = e.action
      /\ eeprom[s * SlotSize + 2] = e.subject
    BY <1>4, <1>5, <1>6, HoldsNow
<1>8. InEeprom[s] = [source |-> e.source, action |-> e.action, subject |-> e.subject]
    BY <1>1, <1>7, InEepromIs
<1>9. e = [source |-> e.source, action |-> e.action, subject |-> e.subject]  BY DEF Entry
<1>10. QED  BY <1>3, <1>8, <1>9

(* On a bus that loses nothing, and when a reload is kept apart from other
   operations, what a channel's table shows is what the module holds, through
   any number of timeouts, late replies and overlapping operations.          *)
THEOREM TableIsTrue ==
    ASSUME MaxLost = 0, ReloadAlone
    PROVE  ASpec => []TableFollows
<1>1. ASSUME MInv, TInv PROVE TableFollows
    <2> SUFFICES ASSUME slots # <<>>, NEW s \in Slots, s \notin Writing, s \notin doubtful, ~OnItsWay(s)
                 PROVE  slots[1][s] = InEeprom[s]
        BY DEF TableFollows
    <2>1. slots[1][s] = programmed[s]  BY <1>1 DEF TInv, Listed
    <2>2. QED  BY <1>1, <2>1, StoredIsThere
<1>2. Base /\ TInv => TableFollows  BY <1>1 DEF Base
<1>3. QED  BY <1>2, TableInductive, TableIsKept, PTL

(* "auto-picks a free slot when slot is None": so does set_action, when no
   other operation was called meanwhile.                                     *)
THEOREM PickedIsFree ==
    ASSUME MaxLost = 0, ReloadAlone
    PROVE  ASpec => PickedFreeAlone
<1>1. ASSUME TInv, NEW p \in Callers, SetReturns(p), alone[p] PROVE PickWasFree(p)
    BY <1>1 DEF TInv, Picks, SetReturns
<1>2. TInv => (\A p \in Callers : SetReturns(p) /\ alone[p] => PickWasFree(p))  BY <1>1
<1>3. QED  BY <1>2, TableIsKept, PTL DEF PickedFreeAlone
-----------------------------------------------------------------------------
(* Operations that do not overlap, over one list: each set_action() looks for
   its slot itself, and nobody reloads the table.                            *)
OwnPicks   == \A o \in TableOps : o.op # "reload" /\ (o.op = "set" => o.slot = NoSlot)
FoundOnce  == \A e \in Contents : Once(Decoded(Slice(e, 0, TableLen)))

(* The list repeats no source, and neither does it with what is being written;
   before there is a list, nothing is in doubt.                              *)
OneList == apart =>
    /\ \A p, q \in Callers : at[p] # "none" /\ at[q] # "none" => p = q
    /\ slots = <<>> => doubtful = {} /\ Once(programmed)
    /\ slots # <<>> => Once(slots[1])
    /\ \A p \in Callers : /\ at[p] = "read" => slots = <<>>
                          /\ at[p] = "write" => Once([slots[1] EXCEPT ![entry[p].slot] = entry[p].is])

(* The list repeats no source when a task goes on. *)
LEMMA OnceRun ==
    ASSUME OwnPicks, MInv, TInv, TInv', OneList, NEW p \in Callers, Continue(p)
    PROVE  OneList'
<1>1. TableTypes /\ Awaits /\ Order /\ Stored /\ Fresh /\ Reads /\ TableTypes' /\ Awaits'  BY DEF TInv
<1>2. /\ TurnsTo(p) /\ pc[p] = "idle" /\ at[p] # "none" /\ UNCHANGED <<todo, apart>>
      /\ ListRead(p) \/ Entered(p) \/ GivenUp(p) \/ NothingNew(p)
      /\ at[p] = "write" => slots # <<>>
      /\ \A q \in Callers \ {p} : at'[q] = at[q]
    BY <1>1, RunDoes, ContinueDoes
<1>3. SUFFICES ASSUME apart
               PROVE  /\ \A q, r \in Callers : at'[q] # "none" /\ at'[r] # "none" => q = r
                      /\ slots' = <<>> => doubtful' = {} /\ Once(programmed')
                      /\ slots' # <<>> => Once(slots'[1])
                      /\ \A q \in Callers :
                             /\ at'[q] = "read" => slots' = <<>>
                             /\ at'[q] = "write" => Once([slots'[1] EXCEPT ![entry'[q].slot] = entry'[q].is])
    BY <1>2 DEF OneList, Once
<1>4. \A q \in Callers \ {p} : at'[q] = "none"  BY <1>2, <1>3 DEF OneList
<1>5. slots' = <<>> => doubtful' = {} /\ Once(programmed')
    BY <1>2, <1>3 DEF OneList, ListRead, Entered, GivenUp, NothingNew
<1>6. slots' # <<>> => Once(slots'[1])
    <2>1. CASE ListRead(p)
        <3>1. slots = <<>> /\ doubtful = {} /\ Once(programmed)  BY <1>3, <2>1 DEF OneList, ListRead
        <3>2. \A s \in Slots : Decoded(out[p])[s] = programmed[s]  BY <1>1, <1>2, <2>1, <3>1, ReadIsProgrammed
        <3>3. slots'[1] = Decoded(out[p])  BY <2>1 DEF ListRead
        <3>4. QED  BY <3>1, <3>2, <3>3 DEF Once
    <2>2. CASE Entered(p)  BY <1>2, <1>3, <2>2 DEF OneList, Entered
    <2>3. CASE GivenUp(p) \/ NothingNew(p)  BY <1>3, <2>3 DEF OneList, GivenUp, NothingNew
    <2>4. QED  BY <1>2, <2>1, <2>2, <2>3
<1>7. ASSUME NEW q \in Callers, at'[q] = "read" PROVE slots' = <<>>
    <2>1. q = p /\ at[p] = "begin" /\ slots = <<>>  BY <1>2, <1>4, <1>7 DEF TurnsTo
    <2>2. QED  BY <1>2, <2>1 DEF ListRead, Entered, GivenUp, NothingNew
<1>8. ASSUME NEW q \in Callers, at'[q] = "write"
      PROVE  Once([slots'[1] EXCEPT ![entry'[q].slot] = entry'[q].is])
    <2>1. /\ q = p /\ slots' # <<>> /\ Keeps(todo[p], slots'[1], entry'[p].slot, entry'[p].is)
        BY <1>2, <1>4, <1>8 DEF TurnsTo, Fits
    <2>2. slots'[1] \in [Slots -> Entry]  BY <1>1, <2>1 DEF TableTypes, ListOK
    <2>3. todo[p] \in TableOps  BY <1>1, <1>2 DEF TableTypes
    <2>4. todo[p].op = "set" => todo[p].slot = NoSlot  BY <2>3 DEF OwnPicks
    <2>5. QED  BY <1>6, <2>1, <2>2, <2>4 DEF Keeps
<1>9. QED  BY <1>4, <1>5, <1>6, <1>7, <1>8

(* Every step keeps the list without double sources. *)
LEMMA OnceStep ==
    ASSUME OwnPicks, MInv, TInv, TInv', OneList, [ANext]_avars
    PROVE  OneList'
<1>1. ASSUME NEW p \in Callers, Continue(p) PROVE OneList'  BY <1>1, OnceRun
<1>2. CASE UNCHANGED <<slots, at, entry, programmed, doubtful, apart>>  BY <1>2 DEF OneList
<1>3. ASSUME NEW p \in Callers, NEW o \in TableOps, Begin(p, o) PROVE OneList'
    <2>1. /\ at[p] = "none" /\ at' = [at EXCEPT ![p] = "begin"] /\ UNCHANGED <<entry, programmed>>
          /\ apart' = (apart /\ Busy = {}) /\ DOMAIN at = Callers
        BY <1>3 DEF Begin, TInv, TableTypes
    <2>2. UNCHANGED <<slots, doubtful>>  BY <1>3 DEF Begin, OwnPicks
    <2>3. SUFFICES ASSUME apart, Busy = {} PROVE OneList'  BY <2>1 DEF OneList
    <2>4. \A q \in Callers : at'[q] = IF q = p THEN "begin" ELSE "none"  BY <2>1, <2>3 DEF Busy
    <2>5. QED  BY <2>1, <2>2, <2>3, <2>4 DEF OneList
<1>4. CASE Memory  BY <1>2, <1>4, MemoryIs
<1>5. CASE UNCHANGED avars  BY <1>2, <1>5 DEF avars, tableVars
<1>6. QED  BY <1>1, <1>3, <1>4, <1>5 DEF ANext, Running

(* As long as operations do not overlap, and set_action() picks its slots, a
   source never has two actions on a channel, however often writes time out
   and are tried again, provided that it had none when the table was read.   *)
THEOREM SourcesAreOnce ==
    ASSUME MaxLost = 0, ReloadAlone, OwnPicks, FoundOnce
    PROVE  ASpec => []SourcesOnce
<1>1. AInit => OneList
    <2> SUFFICES ASSUME AInit PROVE OneList  OBVIOUS
    <2>1. /\ eeprom \in Contents /\ programmed = Decoded(Slice(eeprom, 0, TableLen))
          /\ slots = <<>> /\ doubtful = {} /\ at = [p \in Callers |-> "none"]
        BY DEF AInit, MInit
    <2>2. \A p \in Callers : at[p] = "none"  BY <2>1, Zenon
    <2>3. Once(programmed)  BY <2>1 DEF FoundOnce
    <2>4. QED  BY <2>1, <2>2, <2>3 DEF OneList
<1>2. Base /\ TInv /\ TInv' /\ OneList /\ [ANext]_avars => OneList'  BY OnceStep DEF Base
<1>3. ASSUME MInv, TInv, TableFollows, OneList PROVE SourcesOnce
    <2> SUFFICES ASSUME apart, NEW s \in Slots, s \notin Writing, s \notin doubtful, ~OnItsWay(s),
                        NEW t \in Slots, t \notin Writing, t \notin doubtful, ~OnItsWay(t),
                        s # t, ~EmptySlot(InEeprom[s]), InEeprom[s].source = InEeprom[t].source
                 PROVE  Shared /\ InEeprom[s].subject # InEeprom[t].subject
        BY DEF SourcesOnce
    <2>1. CASE slots # <<>>
        <3>1. slots[1][s] = InEeprom[s] /\ slots[1][t] = InEeprom[t]  BY <1>3, <2>1 DEF TableFollows
        <3>2. QED  BY <1>3, <2>1, <3>1 DEF OneList, Once
    <2>2. CASE slots = <<>>
        <3>1. InEeprom[s] = programmed[s] /\ InEeprom[t] = programmed[t]  BY <1>3, StoredIsThere
        <3>2. QED  BY <1>3, <2>2, <3>1 DEF OneList, Once
    <2>3. QED  BY <2>1, <2>2
<1>4. Base /\ TInv /\ TableFollows /\ OneList => SourcesOnce  BY <1>3 DEF Base
<1>5. QED  BY <1>1, <1>2, <1>4, TableInductive, TableIsKept, TableIsTrue, PTL DEF ASpec

=============================================================================
