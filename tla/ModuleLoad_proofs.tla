-------------------------- MODULE ModuleLoad_proofs --------------------------
(***************************************************************************)
(* Proofs about ModuleLoad, for every number of channels, of name blocks,  *)
(* of scans, losses and restarts.  The inductive invariant has five parts: *)
(* the types with FileIsLatest, where a scan may be (Phases), what the     *)
(* first scan has written (Written), how what is known grows along the     *)
(* writes in line (Growing), and the order of the blocks of the name on    *)
(* their way, without a loss (Cyclic) or within one scan (Rising).         *)
(***************************************************************************)
EXTENDS ModuleLoad, SequenceTheorems, TLAPS

Snaps == [name : Seq(Nat) \ {<<>>}, subs : BOOLEAN,
          chans : UNION {[D -> {"default", "real"}] : D \in SUBSET Channels}]
Files == {<<>>} \cup {<<s>> : s \in Snaps}
Replies == {TypeReply, SubReply} \cup {BlockReply(b) : b \in Blocks}
           \cup [kind : {"part"}, chan : Nat, part : Parts]
States == [name : {"default", "real"}, parts : SUBSET Parts, loaded : BOOLEAN]
PCs == {"off", "probing", "reading", "read", "calling", "polling", "status", "rest", "done"}

StoreTypes ==
    /\ file \in Files /\ cached \in Files /\ latest \in Files
    /\ writers \in Seq([by : {"scan", "handler"}, snap : Snaps])
ObjectTypes ==
    /\ found \in BOOLEAN /\ exists \in BOOLEAN /\ subs \in BOOLEAN
    /\ isLoading \in BOOLEAN /\ loaded \in BOOLEAN
    /\ name \in Seq(Nat) /\ buffer \in Seq(Blocks)
    /\ chans \in UNION {[D -> States] : D \in SUBSET Channels}
OtherTypes ==
    /\ bus \in Seq(Replies) /\ pc \in PCs /\ failed \in BOOLEAN /\ late \in BOOLEAN
    /\ scans \in Nat /\ lost \in Nat /\ restarts \in Nat

Types == StoreTypes /\ ObjectTypes /\ OtherTypes /\ FileIsLatest

(* load() got as far as the channels, in the first scan of this run. *)
LoadDone == exists /\ ~isLoading

(* Before the first scan of a run there is nothing, and in the first scan the
   module goes through load() at most once.                                 *)
Phases ==
    /\ scans = 0 <=> pc = "off"
    /\ scans = 0 => ~exists /\ ~loaded
    /\ ~exists => ~isLoading /\ ~loaded /\ name = <<>> /\ buffer = <<>> /\ writers = <<>>
    /\ scans <= 1 =>
         /\ pc = "probing" => ~exists
         /\ pc \in {"reading", "read"} => isLoading
         /\ pc \in {"calling", "polling", "status"} => LoadDone
    /\ (scans <= 1 /\ ~LoadDone) => ~loaded
    /\ pc \in {"reading", "read", "calling", "polling", "status"} => exists
    /\ exists => scans # 0

(* The first scan of a run leaves something to find for the next run. *)
WrittenInv ==
    scans = 1 => /\ loaded => latest # <<>>
                 /\ (pc \in {"rest", "done"} /\ exists /\ ~failed) => latest # <<>>

Grown(f, s) == Retains(f, <<s>>)

IsName(i) == bus[i].kind \in {"part", "block"}

(* What is known grows: from the file over the writes in line to the object. *)
Growing ==
    (scans <= 1 /\ ~late) =>
        /\ ~LoadDone => /\ \A i \in DOMAIN bus : ~IsName(i)
                        /\ writers = <<>> /\ name = <<>> /\ chans = <<>>
        /\ pc = "read" => cached = file
        /\ writers # <<>> => Grown(file, writers[1].snap)
        /\ \A i \in DOMAIN writers : i + 1 \in DOMAIN writers => Grown(<<writers[i].snap>>, writers[i + 1].snap)
        /\ LoadDone => Grown(latest, Snapshot)

(* Every name in a file, a write in line or the object is whole. *)
WholeNames == /\ name \in {<<>>, TypeName, RealName}
              /\ \A f \in {file, cached} : f # <<>> => f[1].name \in {TypeName, RealName}
              /\ \A i \in DOMAIN writers : writers[i].snap.name \in {TypeName, RealName}

Block(q, i)  == q[i].kind = "block"
NoBlock(q)   == \A i \in DOMAIN q : ~Block(q, i)
FirstBlock(q, i) == Block(q, i) /\ \A k \in DOMAIN q : k < i => ~Block(q, k)
LastBlock(q, i)  == Block(q, i) /\ \A k \in DOMAIN q : k > i => ~Block(q, k)
NextBlock(q, i, j) == /\ Block(q, i) /\ Block(q, j) /\ i < j
                      /\ \A k \in DOMAIN q : (i < k /\ k < j) => ~Block(q, k)

(* The blocks in q follow on n blocks received, one request after the other. *)
FollowOn(q, n) ==
    /\ NoBlock(q) => n = 0
    /\ \A i \in DOMAIN q : FirstBlock(q, i) => q[i].block = n + 1
    /\ \A i \in DOMAIN q : LastBlock(q, i) => q[i].block = NBlocks
    /\ \A i, j \in DOMAIN q : NextBlock(q, i, j) =>
           q[j].block = IF q[i].block = NBlocks THEN 1 ELSE q[i].block + 1

(* Without a loss the blocks come in their order, again and again. *)
Cyclic ==
    (lost = 0 /\ ~late) =>
        /\ WholeNames
        /\ ~exists => NoBlock(bus)
        /\ name = <<>> =>
             /\ Len(buffer) < NBlocks /\ \A i \in DOMAIN buffer : buffer[i] = i
             /\ FollowOn(bus, Len(buffer))

(* Within one scan a block comes at most once, and after those below it. *)
Rising ==
    (scans <= 1 /\ restarts = 0 /\ ~late) =>
        /\ WholeNames
        /\ ~LoadDone => buffer = <<>> /\ NoBlock(bus)
        /\ \A i, j \in DOMAIN bus : (i < j /\ Block(bus, i) /\ Block(bus, j)) => bus[i].block < bus[j].block
        /\ name = <<>> =>
             /\ Len(buffer) < NBlocks
             /\ \A i, j \in DOMAIN buffer : i < j => buffer[j] - buffer[i] >= j - i
             /\ \A i \in DOMAIN buffer, j \in DOMAIN bus : Block(bus, j) => buffer[i] < bus[j].block

LInv == Types /\ Phases /\ WrittenInv /\ Growing /\ Cyclic /\ Rising
-----------------------------------------------------------------------------
(* What to_cache() makes is a snapshot. *)
LEMMA SnapTyped ==
    ASSUME NEW n \in Seq(Nat), NEW cs \in UNION {[D -> States] : D \in SUBSET Channels},
           NEW s \in BOOLEAN
    PROVE  ToCache(n, cs, s) \in Snaps
<1>1. PICK D \in SUBSET Channels : cs \in [D -> States] OBVIOUS
<1>2. [c \in DOMAIN cs |-> cs[c].name] \in [D -> {"default", "real"}]
  BY <1>1 DEF States
<1>3. TypeName \in Seq(Nat) \ {<<>>} BY DEF TypeName
<1>4. QED BY <1>2, <1>3 DEF ToCache, Snaps

(* The answer to a request for names is made of name parts. *)
LEMMA AskedTyped ==
    /\ Asked \in Seq(Replies) /\ Len(Asked) = 3 * NChannels
    /\ \A i \in DOMAIN Asked : Asked[i].kind = "part"
<1>1. NChannels \in Nat /\ 3 * NChannels \in Nat BY LoadAssumption
<1>2. ASSUME NEW i \in 1 .. 3 * NChannels
      PROVE  PartReply(((i - 1) \div 3) + 1, ((i - 1) % 3) + 1) \in [kind : {"part"}, chan : Nat, part : Parts]
  <2>1. (i - 1) \div 3 \in Nat /\ (i - 1) % 3 \in 0 .. 2 BY <1>1
  <2>2. QED BY <2>1 DEF PartReply, Parts
<1>3. QED BY <1>1, <1>2 DEF Asked, NameReplies, Replies, PartReply

(* The blocks a module is asked for come in their order. *)
LEMMA BlocksTyped ==
    LET bs == [b \in Blocks |-> BlockReply(b)]
    IN  bs \in Seq(Replies) /\ Len(bs) = NBlocks /\ DOMAIN bs = Blocks
BY LoadAssumption DEF Blocks, Replies

(* A type request is answered by two replies. *)
LEMMA FewReplies == TypeReplies \in Seq(Replies) /\ Len(TypeReplies) = 2
BY DEF TypeReplies, Replies

(* A snapshot put in line becomes the latest. *)
LEMMA CacheTyped ==
    ASSUME Types, NEW by \in {"scan", "handler"}, NEW snap \in Snaps, Cache(by, snap), file' = file
    PROVE  /\ writers' \in Seq([by : {"scan", "handler"}, snap : Snaps])
           /\ latest' \in Files /\ FileIsLatest'
<1>1. [by |-> by, snap |-> snap] \in [by : {"scan", "handler"}, snap : Snaps] OBVIOUS
<1>2. writers' = Append(writers, [by |-> by, snap |-> snap]) BY DEF Cache
<1>3. Last(writers') = [by |-> by, snap |-> snap] /\ writers' # <<>>
  BY <1>1, <1>2 DEF Last, Types, StoreTypes
<1>4. QED BY <1>1, <1>2, <1>3 DEF Types, StoreTypes, Cache, Files, FileIsLatest

(* The invariant holds when the program starts for the first time. *)
LEMMA InitInv == LInit => LInv
<1> SUFFICES ASSUME LInit PROVE LInv OBVIOUS
<1> USE DEF LInit
<1>1. Types
  <2>1. {} \in SUBSET Channels /\ chans \in [{} -> States] OBVIOUS
  <2>2. StoreTypes BY DEF StoreTypes, Files
  <2>3. ObjectTypes
    <3>1. chans \in UNION {[D -> States] : D \in SUBSET Channels} BY <2>1
    <3>2. name \in Seq(Nat) /\ buffer \in Seq(Blocks) OBVIOUS
    <3>3. QED BY <3>1, <3>2 DEF ObjectTypes
  <2>4. OtherTypes
    <3>1. bus \in Seq(Replies) /\ pc \in PCs BY DEF PCs
    <3>2. QED BY <3>1 DEF OtherTypes
  <2>5. QED BY <2>2, <2>3, <2>4 DEF Types, FileIsLatest
<1>2. Phases /\ WrittenInv BY DEF Phases, WrittenInv, LoadDone
<1>3. Growing BY DEF Growing, LoadDone
<1>4. Cyclic BY LoadAssumption DEF Cyclic, WholeNames, NoBlock, FollowOn
<1>5. Rising BY LoadAssumption DEF Rising, WholeNames, NoBlock
<1>6. QED BY <1>1, <1>2, <1>3, <1>4, <1>5 DEF LInv

(* A reply is taken from the bus. *)
LEMMA TailTyped ==
    ASSUME bus \in Seq(Replies), bus # <<>>
    PROVE  /\ Head(bus) \in Replies /\ Head(bus) = bus[1] /\ 1 \in DOMAIN bus
           /\ Tail(bus) \in Seq(Replies) /\ Len(bus) \in Nat \ {0}
           /\ Len(Tail(bus)) = Len(bus) - 1
           /\ DOMAIN bus = 1 .. Len(bus) /\ DOMAIN Tail(bus) = 1 .. Len(bus) - 1
           /\ \A i \in DOMAIN Tail(bus) : Tail(bus)[i] = bus[i + 1] /\ i + 1 \in DOMAIN bus
           /\ \A i \in DOMAIN bus : i > 1 => i - 1 \in DOMAIN Tail(bus) /\ Tail(bus)[i - 1] = bus[i]
OBVIOUS

(* Replies come after what is under way. *)
LEMMA MoreReplies ==
    ASSUME bus \in Seq(Replies), NEW more \in Seq(Replies)
    PROVE  /\ bus \o more \in Seq(Replies) /\ Len(bus \o more) = Len(bus) + Len(more)
           /\ Len(bus) \in Nat /\ Len(more) \in Nat /\ DOMAIN bus = 1 .. Len(bus)
           /\ DOMAIN more = 1 .. Len(more)
           /\ DOMAIN (bus \o more) = 1 .. Len(bus) + Len(more)
           /\ \A i \in DOMAIN bus : i \in DOMAIN (bus \o more) /\ (bus \o more)[i] = bus[i]
           /\ \A i \in DOMAIN more : Len(bus) + i \in DOMAIN (bus \o more)
                                     /\ (bus \o more)[Len(bus) + i] = more[i]
           /\ \A i \in DOMAIN (bus \o more) : i \in DOMAIN bus
                 \/ (i - Len(bus) \in DOMAIN more /\ (bus \o more)[i] = more[i - Len(bus)])
OBVIOUS

(* What load() makes of the content of a cache file. *)
LEMMA RestoredTyped ==
    ASSUME NEW s \in Snaps
    PROVE  [c \in Channels |-> IF c \in DOMAIN s.chans THEN Restored(s.chans[c]) ELSE Fresh]
               \in [Channels -> States]
<1>1. \A c \in DOMAIN s.chans : s.chans[c] \in {"default", "real"}
  <2>1. PICK D \in SUBSET Channels : s.chans \in [D -> {"default", "real"}] BY DEF Snaps
  <2>2. QED BY <2>1
<1>2. QED BY <1>1 DEF Restored, Fresh, States
-----------------------------------------------------------------------------
(* Every step of the scan keeps the types and the file in step. *)
LEMMA ScanTypes == ASSUME Types, Scan PROVE Types'
<1> USE DEF Types
<1>1. CASE BeginScan
  <2>1. bus' \in Seq(Replies) BY <1>1, FewReplies, MoreReplies DEF BeginScan, OtherTypes
  <2>2. StoreTypes' BY <1>1 DEF BeginScan, StoreTypes, Files, module
  <2>3. ObjectTypes' BY <1>1 DEF BeginScan, ObjectTypes, module
  <2>4. OtherTypes'
    <3>1. pc' \in PCs /\ scans' \in Nat BY <1>1 DEF BeginScan, OtherTypes, PCs
    <3>2. failed' = FALSE /\ late' = late /\ lost' = lost /\ restarts' = restarts
      BY <1>1 DEF BeginScan
    <3>3. QED BY <2>1, <3>1, <3>2 DEF OtherTypes
  <2>5. FileIsLatest' BY <1>1 DEF BeginScan, FileIsLatest
  <2>6. QED BY <2>2, <2>3, <2>4, <2>5
<1>2. CASE ProbeOver
  <2>1. StoreTypes' /\ FileIsLatest' BY <1>2 DEF ProbeOver, StoreTypes, FileIsLatest
  <2>2. ObjectTypes' BY <1>2 DEF ProbeOver, ObjectTypes
  <2>3. OtherTypes' BY <1>2 DEF ProbeOver, OtherTypes, PCs
  <2>4. QED BY <2>1, <2>2, <2>3
<1>3. CASE ReadCache
  BY <1>3 DEF ReadCache, StoreTypes, ObjectTypes, OtherTypes, FileIsLatest, PCs
<1>4. CASE Load
  <2>1. StoreTypes' /\ FileIsLatest' BY <1>4 DEF Load, StoreTypes, FileIsLatest
  <2>2. /\ bus' \in Seq(Replies) /\ name' \in Seq(Nat) /\ subs' \in BOOLEAN
        /\ chans' \in [Channels -> States]
    <3>1. CASE cached = <<>>
      <4>1. Fresh \in States BY DEF Fresh, States
      <4>2. chans' \in [Channels -> States] BY <1>4, <3>1, <4>1 DEF Load
      <4>3. bus' \in Seq(Replies)
        <5> DEFINE bs == [b \in Blocks |-> BlockReply(b)]
        <5>1. bs \in Seq(Replies) BY BlocksTyped
        <5>2. bus' = bus \o bs \o TypeReplies \o Asked BY <1>4, <3>1 DEF Load
        <5> HIDE DEF bs
        <5>3. QED BY <5>1, <5>2, FewReplies, AskedTyped DEF OtherTypes
      <4>4. QED BY <1>4, <3>1, <4>2, <4>3 DEF Load, ObjectTypes
    <3>2. CASE cached # <<>>
      <4>1. cached[1] \in Snaps BY <3>2 DEF StoreTypes, Files
      <4>2. chans' \in [Channels -> States] BY <1>4, <3>2, <4>1, RestoredTyped DEF Load
      <4>3. cached[1].name \in Seq(Nat) /\ cached[1].subs \in BOOLEAN BY <4>1 DEF Snaps
      <4>4. QED BY <1>4, <3>2, <4>2, <4>3 DEF Load, ObjectTypes, OtherTypes
    <3>3. QED BY <3>1, <3>2
  <2>3. Channels \in SUBSET Channels OBVIOUS
  <2>4. ObjectTypes' BY <1>4, <2>2, <2>3 DEF Load, ObjectTypes
  <2>5. OtherTypes' BY <1>4, <2>2 DEF Load, OtherTypes, PCs
  <2>6. QED BY <2>1, <2>4, <2>5
<1>5. CASE CallbackReturns \/ LoadTimeout \/ EndScan
  BY <1>5 DEF CallbackReturns, LoadTimeout, EndScan, module, StoreTypes, ObjectTypes, OtherTypes,
              FileIsLatest, PCs
<1>6. CASE PollingEnds \/ Conclude
  <2>1. Snapshot \in Snaps BY SnapTyped DEF Snapshot, ObjectTypes
  <2>2. Cache("scan", Snapshot) \/ NoCache BY <1>6 DEF PollingEnds, Conclude
  <2>3. file' = file BY <1>6 DEF PollingEnds, Conclude
  <2>4. StoreTypes' /\ FileIsLatest'
    <3>1. CASE NoCache BY <1>6, <3>1 DEF PollingEnds, Conclude, NoCache, StoreTypes, FileIsLatest
    <3>2. CASE Cache("scan", Snapshot)
      BY <1>6, <3>2, <2>1, <2>3, CacheTyped DEF PollingEnds, Conclude, StoreTypes
    <3>3. QED BY <2>2, <3>1, <3>2
  <2>5. loaded' \in BOOLEAN BY <1>6 DEF PollingEnds, Conclude, ObjectTypes
  <2>6. ObjectTypes' BY <1>6, <2>5 DEF PollingEnds, Conclude, ObjectTypes
  <2>7. OtherTypes' BY <1>6 DEF PollingEnds, Conclude, OtherTypes, PCs
  <2>8. QED BY <2>4, <2>6, <2>7
<1>7. QED BY <1>1, <1>2, <1>3, <1>4, <1>5, <1>6 DEF Scan

(* A sequence of blocks is a name. *)
LEMMA BlockNames == ASSUME NEW q \in Seq(Blocks) PROVE q \in Seq(Nat)
<1>1. Blocks \subseteq Nat BY LoadAssumption DEF Blocks
<1>2. QED BY <1>1, SeqMonotonic

(* So does every reply. *)
LEMMA HandleTypes == ASSUME Types, Handle PROVE Types'
<1> USE DEF Types
<1>1. /\ bus # <<>> /\ Head(bus) \in Replies /\ bus' = Tail(bus) /\ bus' \in Seq(Replies)
  BY TailTyped DEF Handle, HandleType, HandleSubtype, HandleBlock, HandlePart, Next1, OtherTypes
<1>2. OtherTypes'
  BY <1>1 DEF Handle, HandleType, HandleSubtype, HandleBlock, HandlePart, OtherTypes
<1>3. CASE HandleType
  BY <1>2, <1>3 DEF HandleType, module, StoreTypes, ObjectTypes, FileIsLatest
<1>4. CASE HandleSubtype
  BY <1>2, <1>4 DEF HandleSubtype, StoreTypes, ObjectTypes, FileIsLatest
<1>5. CASE HandleBlock
  <2> DEFINE b == Head(bus).block
             filled == IF b \in ToSet(buffer) THEN buffer ELSE Append(buffer, b)
  <2>1. b \in Blocks
    BY <1>1, <1>5 DEF HandleBlock, Next1, Replies, TypeReply, SubReply, BlockReply
  <2>2. filled \in Seq(Blocks) BY <2>1 DEF ObjectTypes
  <2>3. filled \in Seq(Nat) BY <2>2, BlockNames
  <2>4. ToCache(filled, chans, subs) \in Snaps BY <2>3, SnapTyped DEF ObjectTypes
  <2>5. /\ NoCache \/ Cache("handler", ToCache(filled, chans, subs))
        /\ name' \in {name, filled} /\ buffer' \in {buffer, filled, <<>>}
    BY <1>5 DEF HandleBlock
  <2>6. file' = file /\ cached' = cached BY <1>5 DEF HandleBlock
  <2>7. StoreTypes' /\ FileIsLatest'
    <3>1. CASE NoCache BY <3>1, <2>6 DEF NoCache, StoreTypes, FileIsLatest
    <3>2. CASE Cache("handler", ToCache(filled, chans, subs))
      BY <3>2, <2>4, <2>6, CacheTyped DEF StoreTypes
    <3>3. QED BY <2>5, <3>1, <3>2
  <2>8. ObjectTypes'
    <3> HIDE DEF filled
    <3>1. name' \in Seq(Nat) BY <2>3, <2>5 DEF ObjectTypes
    <3>2. buffer' \in Seq(Blocks) BY <2>2, <2>5, EmptySeq DEF ObjectTypes
    <3>3. QED BY <1>5, <3>1, <3>2 DEF HandleBlock, ObjectTypes
  <2>9. QED BY <1>2, <2>7, <2>8
<1>6. CASE HandlePart
  <2> DEFINE m == Head(bus)
             cs == IF m.chan \in DOMAIN chans
                   THEN [chans EXCEPT ![m.chan] = SetNamePart(@, m.part)] ELSE chans
  <2>1. m.part \in Parts
    BY <1>1, <1>6 DEF HandlePart, Next1, Replies, TypeReply, SubReply, BlockReply
  <2>2. cs \in UNION {[D -> States] : D \in SUBSET Channels}
    <3>1. PICK D \in SUBSET Channels : chans \in [D -> States] BY DEF ObjectTypes
    <3>2. \A ch \in States : SetNamePart(ch, m.part) \in States BY <2>1 DEF SetNamePart, States
    <3>3. cs \in [D -> States] BY <3>1, <3>2
    <3>4. QED BY <3>3
  <2>3. ToCache(name, cs, subs) \in Snaps BY <2>2, SnapTyped DEF ObjectTypes
  <2>4. \/ NoCache /\ chans' = chans
        \/ Cache("handler", ToCache(name, cs, subs)) /\ chans' = cs
    BY <1>6, Zenon DEF HandlePart
  <2>5. file' = file /\ cached' = cached BY <1>6 DEF HandlePart
  <2>6. StoreTypes' /\ FileIsLatest'
    <3>1. CASE NoCache BY <3>1, <2>5 DEF NoCache, StoreTypes, FileIsLatest
    <3>2. CASE Cache("handler", ToCache(name, cs, subs))
      BY <3>2, <2>3, <2>5, CacheTyped DEF StoreTypes
    <3>3. QED BY <2>4, <3>1, <3>2
  <2>7. ObjectTypes'
    <3>1. chans' \in UNION {[D -> States] : D \in SUBSET Channels} BY <2>2, <2>4 DEF ObjectTypes
    <3>2. QED BY <1>6, <3>1 DEF HandlePart, ObjectTypes
  <2>8. QED BY <1>2, <2>6, <2>7
<1>7. QED BY <1>3, <1>4, <1>5, <1>6 DEF Handle

(* And so do the writes, losses, restarts and stutters. *)
LEMMA TypesStep == ASSUME Types, [LNext]_lvars PROVE Types'
<1>1. CASE CacheWritten
  <2> USE DEF Types
  <2> DEFINE Writer == [by : {"scan", "handler"}, snap : Snaps]
  <2>1. writers \in Seq(Writer) /\ writers # <<>> /\ writers' = Tail(writers)
        /\ file' = <<Head(writers).snap>>
    BY <1>1 DEF CacheWritten, StoreTypes
  <2>2. Head(writers).snap \in Snaps /\ Tail(writers) \in Seq(Writer)
    <3>1. Head(writers) \in Writer /\ Tail(writers) \in Seq(Writer)
      <4> HIDE DEF Writer
      <4>1. QED BY <2>1
    <3>2. QED BY <3>1
  <2>3. StoreTypes'
    <3>1. cached' = cached /\ latest' = latest BY <1>1 DEF CacheWritten, module
    <3>2. QED BY <2>1, <2>2, <3>1 DEF StoreTypes, Files
  <2>4. ObjectTypes' /\ OtherTypes' BY <1>1 DEF CacheWritten, ObjectTypes, OtherTypes, module
  <2>5. FileIsLatest'
    <3>1. latest' = latest BY <1>1 DEF CacheWritten
    <3>2. CASE Tail(writers) = <<>>
      <4>1. Last(writers) = Head(writers)
        <5> HIDE DEF Writer
        <5>1. Len(Tail(writers)) = Len(writers) - 1 /\ Len(Tail(writers)) = 0
          BY <2>1, <3>2, HeadTailProperties, EmptySeq
        <5>2. QED BY <2>1, <5>1 DEF Last
      <4>2. QED BY <2>1, <3>1, <3>2, <4>1 DEF FileIsLatest
    <3>3. CASE Tail(writers) # <<>>
      <4>1. Last(Tail(writers)) = Last(writers)
        <5> HIDE DEF Writer
        <5>1. QED BY <2>1, <3>3 DEF Last
      <4>2. QED BY <2>1, <3>1, <3>3, <4>1 DEF FileIsLatest
    <3>4. QED BY <3>2, <3>3
  <2>6. QED BY <2>3, <2>4, <2>5
<1>2. CASE LoseReply
  <2>1. bus' \in Seq(Replies) BY <1>2 DEF LoseReply, Types, OtherTypes
  <2>2. QED BY <1>2, <2>1 DEF LoseReply, Types, module, StoreTypes, ObjectTypes, OtherTypes, FileIsLatest
<1>3. CASE Restart
  <2> USE DEF Types
  <2>1. bus' \in Seq(Replies) /\ late' \in BOOLEAN
    <3>1. bus' = <<>> \/ bus' = bus BY <1>3 DEF Restart
    <3>2. late' = late \/ late' = TRUE BY <1>3 DEF Restart
    <3>3. bus' \in Seq(Replies) BY <3>1, EmptySeq DEF OtherTypes
    <3>4. late' \in BOOLEAN BY <3>2, Zenon DEF OtherTypes
    <3>5. QED BY <3>3, <3>4
  <2>2. {} \in SUBSET Channels /\ chans' \in [{} -> States] BY <1>3 DEF Restart
  <2>3. StoreTypes' /\ FileIsLatest' BY <1>3 DEF Restart, StoreTypes, FileIsLatest, Files
  <2>4. ObjectTypes'
    <3>1. chans' \in UNION {[D -> States] : D \in SUBSET Channels} BY <2>2
    <3>2. name' \in Seq(Nat) /\ buffer' \in Seq(Blocks) BY <1>3 DEF Restart
    <3>3. QED BY <1>3, <3>1, <3>2 DEF Restart, ObjectTypes
  <2>5. OtherTypes'
    <3>1. pc' \in PCs /\ failed' = FALSE /\ scans' = 0 /\ lost' = lost /\ restarts' = restarts + 1
      BY <1>3 DEF Restart, PCs
    <3>2. lost' \in Nat /\ restarts' \in Nat /\ scans' \in Nat BY <3>1 DEF OtherTypes
    <3>3. failed' \in BOOLEAN BY <3>1
    <3>4. QED BY <2>1, <3>1, <3>2, <3>3, Zenon DEF OtherTypes
  <2>6. QED BY <2>3, <2>4, <2>5
<1>4. CASE UNCHANGED lvars
  BY <1>4 DEF lvars, module, Types, StoreTypes, ObjectTypes, OtherTypes, FileIsLatest
<1>5. QED BY <1>1, <1>2, <1>3, <1>4, ScanTypes, HandleTypes DEF LNext
-----------------------------------------------------------------------------
(* Where the scan is, and what the module has, follows the order of the scan. *)
LEMMA PhasesStep == ASSUME Types, Phases, [LNext]_lvars PROVE Phases'
<1> USE DEF Phases, LoadDone
<1>1. /\ scans \in Nat
      /\ exists \in BOOLEAN /\ isLoading \in BOOLEAN /\ loaded \in BOOLEAN /\ pc \in PCs
  BY DEF Types, ObjectTypes, OtherTypes
<1>2. CASE BeginScan BY <1>1, <1>2 DEF BeginScan, module, PCs
<1>3. CASE ProbeOver BY <1>1, <1>3 DEF ProbeOver, PCs
<1>4. CASE ReadCache BY <1>1, <1>4 DEF ReadCache, PCs
<1>5. CASE Load
  <2>1. exists /\ exists' = exists /\ loaded' = loaded /\ isLoading' = FALSE /\ pc' = "calling"
        /\ scans' = scans /\ writers' = writers /\ pc = "read" /\ buffer' = buffer
    BY <1>5 DEF Load
  <2>2. QED BY <1>1, <2>1 DEF PCs
<1>6. CASE CallbackReturns \/ LoadTimeout \/ EndScan
  BY <1>1, <1>6 DEF CallbackReturns, LoadTimeout, EndScan, module, PCs
<1>7. CASE PollingEnds BY <1>1, <1>7 DEF PollingEnds, PCs
<1>8. CASE Conclude BY <1>1, <1>8 DEF Conclude, PCs
<1>9. CASE HandleType \/ HandleSubtype
  BY <1>1, <1>9 DEF HandleType, HandleSubtype, module
<1>10. CASE HandleBlock
  <2>1. /\ pc' = pc /\ exists' = exists /\ isLoading' = isLoading /\ loaded' = loaded /\ scans' = scans
        /\ ~exists => name' = name /\ buffer' = buffer /\ writers' = writers
    BY <1>10 DEF HandleBlock, NoCache
  <2>2. QED BY <1>1, <2>1
<1>11. CASE HandlePart
  <2>1. /\ pc' = pc /\ exists' = exists /\ isLoading' = isLoading /\ loaded' = loaded /\ scans' = scans
        /\ name' = name /\ buffer' = buffer
        /\ ~exists => writers' = writers
    BY <1>11 DEF HandlePart, NoCache
  <2>2. QED BY <1>1, <2>1
<1>12. CASE CacheWritten
  BY <1>1, <1>12 DEF CacheWritten, module
<1>13. CASE LoseReply BY <1>1, <1>13 DEF LoseReply, module
<1>14. CASE Restart BY <1>14 DEF Restart
<1>15. CASE UNCHANGED lvars BY <1>15 DEF lvars, module
<1>16. QED
  BY <1>2, <1>3, <1>4, <1>5, <1>6, <1>7, <1>8, <1>9, <1>10, <1>11, <1>12, <1>13, <1>14, <1>15
     DEF LNext, Scan, Handle

(* The first scan does not end without a snapshot of a module it has loaded. *)
LEMMA WrittenStep == ASSUME Types, Phases, WrittenInv, [LNext]_lvars PROVE WrittenInv'
<1> USE DEF WrittenInv
<1>1. /\ scans \in Nat
      /\ exists \in BOOLEAN /\ loaded \in BOOLEAN /\ failed \in BOOLEAN /\ pc \in PCs
  BY DEF Types, ObjectTypes, OtherTypes
<1>2. ASSUME NEW by, NEW snap, Cache(by, snap) PROVE latest' # <<>>
  BY <1>2 DEF Cache
<1>3. CASE BeginScan BY <1>1, <1>3 DEF BeginScan, module, PCs, Phases
<1>4. CASE ProbeOver BY <1>1, <1>4 DEF ProbeOver, PCs, Phases
<1>5. CASE ReadCache \/ CallbackReturns \/ LoadTimeout \/ EndScan
  BY <1>1, <1>5 DEF ReadCache, CallbackReturns, LoadTimeout, EndScan, module, PCs
<1>6. CASE Load
  <2>1. pc' = "calling" /\ scans' = scans /\ loaded' = loaded /\ latest' = latest BY <1>6 DEF Load
  <2>2. QED BY <2>1
<1>7. CASE PollingEnds
  <2>1. /\ scans' = scans /\ exists' = exists /\ failed' = failed /\ pc' = "status"
        /\ Cache("scan", Snapshot) \/ (latest' = latest /\ loaded' = loaded)
    BY <1>7, Zenon DEF PollingEnds, NoCache
  <2>2. QED BY <1>1, <1>2, <2>1
<1>8. CASE Conclude
  <2>1. /\ scans' = scans /\ exists' = exists /\ failed' = failed
        /\ Cache("scan", Snapshot) \/ (latest' = latest /\ loaded)
    BY <1>8 DEF Conclude, NoCache
  <2>2. QED BY <1>1, <1>2, <2>1
<1>9. CASE HandleType \/ HandleSubtype \/ CacheWritten \/ LoseReply
  BY <1>1, <1>9 DEF HandleType, HandleSubtype, CacheWritten, LoseReply, module
<1>10. CASE HandleBlock
  <2>1. /\ pc' = pc /\ exists' = exists /\ failed' = failed /\ loaded' = loaded /\ scans' = scans
        /\ latest' = latest \/ \E snap : Cache("handler", snap)
    BY <1>10 DEF HandleBlock, NoCache
  <2>2. QED BY <1>1, <1>2, <2>1
<1>11. CASE HandlePart
  <2>1. /\ pc' = pc /\ exists' = exists /\ failed' = failed /\ loaded' = loaded /\ scans' = scans
        /\ latest' = latest \/ \E snap : Cache("handler", snap)
    BY <1>11 DEF HandlePart, NoCache
  <2>2. QED BY <1>1, <1>2, <2>1
<1>12. CASE Restart BY <1>12 DEF Restart
<1>13. CASE UNCHANGED lvars BY <1>13 DEF lvars, module
<1>14. QED
  BY <1>3, <1>4, <1>5, <1>6, <1>7, <1>8, <1>9, <1>10, <1>11, <1>12, <1>13 DEF LNext, Scan, Handle
-----------------------------------------------------------------------------
(* What a snapshot says, the same snapshot says, and Retains is transitive. *)
LEMMA GrownRefl == ASSUME NEW s \in Snaps PROVE Grown(<<s>>, s)
BY DEF Grown, Retains, Snaps

(* Knowing more is transitive. *)
LEMMA GrownTrans ==
    ASSUME NEW f \in Files, NEW s \in Snaps, NEW t \in Snaps, Grown(f, s), Grown(<<s>>, t)
    PROVE  Grown(f, t)
BY DEF Grown, Retains

(* A file keeps what it says itself. *)
LEMMA RetainsSame == ASSUME NEW f \in Files PROVE Retains(f, f)
BY DEF Retains

(* The object becomes the last in line: the line stays in order. *)
LEMMA CacheGrown ==
    ASSUME Types, Growing, LoadDone, scans <= 1, ~late, NEW by \in {"scan", "handler"},
           NEW s \in Snaps, Grown(<<Snapshot>>, s), Cache(by, s), file' = file
    PROVE  /\ writers' # <<>> => Grown(file', writers'[1].snap)
           /\ \A i \in DOMAIN writers' : i + 1 \in DOMAIN writers' =>
                  Grown(<<writers'[i].snap>>, writers'[i + 1].snap)
           /\ latest' = <<s>>
<1> DEFINE new == [by |-> by, snap |-> s]
<1>1. /\ writers \in Seq([by : {"scan", "handler"}, snap : Snaps]) /\ file \in Files
      /\ latest \in Files
  BY DEF Types, StoreTypes
<1>2. /\ writers' = Append(writers, new) /\ latest' = <<s>> /\ new.snap = s BY DEF Cache
<1>3. Snapshot \in Snaps BY SnapTyped DEF Snapshot, Types, ObjectTypes
<1>4. Grown(latest, s) BY <1>1, <1>3, GrownTrans DEF Growing
<1> HIDE DEF new
<1>5. /\ Len(writers') = Len(writers) + 1 /\ DOMAIN writers' = 1 .. Len(writers) + 1
      /\ Len(writers) \in Nat /\ DOMAIN writers = 1 .. Len(writers)
      /\ \A i \in DOMAIN writers : writers'[i] = writers[i]
      /\ writers'[Len(writers) + 1] = new
  BY <1>1, <1>2
<1>6. CASE writers = <<>>
  <2>1. latest = file /\ Len(writers) = 0 BY <1>6 DEF Types, FileIsLatest
  <2>2. QED BY <1>2, <1>4, <1>5, <2>1
<1>7. CASE writers # <<>>
  <2>1. latest = <<writers[Len(writers)].snap>> /\ Len(writers) >= 1
    BY <1>1, <1>7 DEF Types, FileIsLatest, Last
  <2>2. Grown(file', writers'[1].snap) BY <1>5, <1>7, <2>1 DEF Growing
  <2>3. ASSUME NEW i \in DOMAIN writers', i + 1 \in DOMAIN writers'
        PROVE  Grown(<<writers'[i].snap>>, writers'[i + 1].snap)
    <3>1. CASE i = Len(writers) BY <1>2, <1>4, <1>5, <2>1, <3>1
    <3>2. CASE i # Len(writers)
      <4>1. i \in DOMAIN writers /\ i + 1 \in DOMAIN writers BY <1>5, <2>3, <3>2
      <4>2. QED BY <1>5, <4>1 DEF Growing
    <3>3. QED BY <3>1, <3>2
  <2>4. QED BY <1>2, <2>2, <2>3
<1>8. QED BY <1>6, <1>7

Consumed == bus' = bus \/ (bus # <<>> /\ bus' = Tail(bus))

(* A name on the bus stays where it was, or one place nearer. *)
LEMMA ConsumedNames ==
    ASSUME Types, Consumed
    PROVE  \A i \in DOMAIN bus' : \E j \in DOMAIN bus : bus'[i] = bus[j]
BY TailTyped DEF Consumed, Types, OtherTypes

(* Steps that change neither file nor object. *)
LEMMA GrowingFrame ==
    ASSUME Types, Growing, Consumed, UNCHANGED <<file, cached, writers, latest, name, chans, subs, scans, late>>,
           LoadDone' <=> LoadDone, pc' = "read" => pc = "read"
    PROVE  Growing'
<1> SUFFICES ASSUME scans <= 1, ~late
             PROVE  /\ ~LoadDone => /\ \A i \in DOMAIN bus' : ~IsName(i)'
                                    /\ writers = <<>> /\ name = <<>> /\ chans = <<>>
                    /\ pc' = "read" => cached = file
                    /\ writers # <<>> => Grown(file, writers[1].snap)
                    /\ \A i \in DOMAIN writers : i + 1 \in DOMAIN writers =>
                           Grown(<<writers[i].snap>>, writers[i + 1].snap)
                    /\ LoadDone => Grown(latest, Snapshot)
  BY DEF Growing, Grown, Retains, Snapshot, ToCache
<1>1. ~LoadDone => \A i \in DOMAIN bus' : ~IsName(i)'
  BY ConsumedNames DEF Growing, IsName
<1>2. QED BY <1>1 DEF Growing

(* What is known grows along the writes in line. *)
LEMMA GrowingStep == ASSUME Types, Phases, Growing, [LNext]_lvars PROVE Growing'
<1>1. /\ scans \in Nat /\ bus \in Seq(Replies) /\ file \in Files /\ cached \in Files /\ latest \in Files
      /\ exists \in BOOLEAN /\ isLoading \in BOOLEAN /\ pc \in PCs /\ late \in BOOLEAN
  BY DEF Types, StoreTypes, ObjectTypes, OtherTypes
<1>2. Types' BY TypesStep
<1>3. CASE BeginScan
  <2> SUFFICES ASSUME scans' <= 1, ~late' PROVE Growing' BY DEF Growing
  <2>1. scans = 0 /\ ~late /\ bus' = bus \o TypeReplies BY <1>1, <1>3 DEF BeginScan
  <2>2. ~LoadDone /\ ~LoadDone' /\ pc' # "read"
    BY <1>3, <2>1 DEF BeginScan, module, Phases, LoadDone
  <2>3. \A i \in DOMAIN bus : ~IsName(i) BY <2>1, <2>2 DEF Growing
  <2>4. \A i \in DOMAIN bus' : ~IsName(i)'
    <3>1. \A i \in DOMAIN TypeReplies : TypeReplies[i].kind \in {"type", "sub"}
      BY DEF TypeReplies, TypeReply, SubReply
    <3>2. \A i \in DOMAIN bus' : (i \in DOMAIN bus /\ bus'[i] = bus[i])
                                 \/ \E k \in DOMAIN TypeReplies : bus'[i] = TypeReplies[k]
      BY <1>1, <2>1, FewReplies, MoreReplies
    <3>3. QED BY <2>3, <3>1, <3>2 DEF IsName
  <2>5. writers' = <<>> /\ name' = <<>> /\ chans' = <<>>
    BY <1>3, <2>1, <2>2 DEF BeginScan, module, Growing
  <2>6. QED BY <2>2, <2>4, <2>5 DEF Growing
<1>4. CASE ProbeOver
  <2> SUFFICES ASSUME scans' <= 1, ~late' PROVE Growing' BY DEF Growing
  <2>1. LoadDone' <=> LoadDone BY <1>1, <1>4 DEF ProbeOver, Phases, LoadDone
  <2>2. QED BY <1>1, <1>4, <2>1, GrowingFrame DEF ProbeOver, Consumed
<1>5. CASE ReadCache
  <2>1. UNCHANGED <<LoadDone, bus, scans, late, file, writers, latest, Snapshot, name, chans>> /\ cached' = file
    BY <1>5 DEF ReadCache, LoadDone, Snapshot
  <2>2. QED BY <2>1 DEF Growing, IsName
<1>6. CASE Load
  <2> SUFFICES ASSUME scans' <= 1, ~late' PROVE Growing' BY DEF Growing
  <2>1. /\ scans <= 1 /\ ~late /\ pc = "read" /\ LoadDone' /\ pc' = "calling" /\ ~LoadDone
        /\ UNCHANGED <<file, writers, latest>>
    BY <1>6 DEF Load, Phases, LoadDone
  <2>2. writers = <<>> /\ cached = latest BY <2>1 DEF Growing, Types, FileIsLatest
  <2>3. Grown(cached, Snapshot')
    <3>1. CASE cached = <<>> BY <3>1 DEF Grown, Retains
    <3>2. CASE cached # <<>>
      <4>1. PICK s \in Snaps : cached = <<s>> BY <1>1, <3>2 DEF Files
      <4>2. DOMAIN s.chans \subseteq Channels /\ s.name # <<>> BY DEF Snaps
      <4>3. /\ name' = s.name /\ subs' = (subs \/ s.subs)
            /\ chans' = [c \in Channels |-> IF c \in DOMAIN s.chans THEN Restored(s.chans[c]) ELSE Fresh]
        BY <1>6, <3>2, <4>1 DEF Load
      <4>4. /\ Snapshot'.name = s.name
            /\ s.subs => Snapshot'.subs
            /\ \A c \in DOMAIN s.chans : c \in DOMAIN Snapshot'.chans /\ Snapshot'.chans[c] = s.chans[c]
        BY <4>2, <4>3 DEF Snapshot, ToCache, Restored
      <4>5. QED BY <4>1, <4>4 DEF Grown, Retains
    <3>3. QED BY <3>1, <3>2
  <2>4. QED BY <2>1, <2>2, <2>3 DEF Growing
<1>7. CASE CallbackReturns \/ LoadTimeout \/ EndScan
  BY <1>7, GrowingFrame DEF CallbackReturns, LoadTimeout, EndScan, module, Consumed, LoadDone
<1>8. CASE PollingEnds \/ Conclude
  <2> SUFFICES ASSUME scans' <= 1, ~late' PROVE Growing' BY DEF Growing
  <2>1. /\ UNCHANGED <<file, cached, name, chans, subs, scans, late, bus, LoadDone, Snapshot>>
        /\ LoadDone /\ pc' # "read"
    BY <1>8 DEF PollingEnds, Conclude, Phases, LoadDone, Snapshot
  <2>2. CASE NoCache
    BY <2>1, <2>2, GrowingFrame DEF NoCache, Consumed
  <2>3. CASE Cache("scan", Snapshot)
    <3>1. Snapshot \in Snaps BY SnapTyped DEF Snapshot, Types, ObjectTypes
    <3>2. Grown(<<Snapshot>>, Snapshot) BY <3>1, GrownRefl
    <3>3. /\ writers' # <<>> => Grown(file', writers'[1].snap)
          /\ \A i \in DOMAIN writers' : i + 1 \in DOMAIN writers' =>
                 Grown(<<writers'[i].snap>>, writers'[i + 1].snap)
          /\ latest' = <<Snapshot>>
      BY <2>1, <2>3, <3>1, <3>2, CacheGrown
    <3>4. QED BY <2>1, <3>2, <3>3 DEF Growing
  <2>4. QED BY <1>8, <2>2, <2>3 DEF PollingEnds, Conclude
<1>9. CASE HandleType
  BY <1>9, GrowingFrame DEF HandleType, module, Consumed, Next1, LoadDone
<1>10. CASE HandleSubtype
  <2>1. /\ UNCHANGED <<file, cached, writers, latest, name, chans, scans, late, LoadDone, pc>> /\ Consumed
        /\ subs' = (subs \/ (exists /\ pc # "done"))
    BY <1>10 DEF HandleSubtype, Consumed, Next1, LoadDone
  <2>2. (\A i \in DOMAIN bus : ~IsName(i)) => \A i \in DOMAIN bus' : ~IsName(i)'
    BY <2>1, ConsumedNames DEF IsName
  <2>3. Grown(latest, Snapshot) => Grown(latest, Snapshot')
    <3>1. Snapshot \in Snaps /\ Snapshot' \in Snaps
      BY <1>2, SnapTyped DEF Snapshot, Types, ObjectTypes
    <3>2. Grown(<<Snapshot>>, Snapshot') BY <2>1 DEF Snapshot, ToCache, Grown, Retains
    <3>3. QED BY <1>1, <3>1, <3>2, GrownTrans
  <2>4. QED BY <2>1, <2>2, <2>3 DEF Growing
<1>11. CASE HandleBlock
  <2> SUFFICES ASSUME scans' <= 1, ~late' PROVE Growing' BY DEF Growing
  <2> DEFINE b == Head(bus).block
             filled == IF b \in ToSet(buffer) THEN buffer ELSE Append(buffer, b)
  <2>1. /\ UNCHANGED <<file, cached, chans, subs, scans, late, LoadDone, pc>> /\ Consumed
        /\ bus # <<>> /\ Head(bus).kind = "block"
        /\ \/ name' = name /\ NoCache
           \/ name = <<>> /\ name' = filled /\ Cache("handler", ToCache(filled, chans, subs))
    BY <1>11 DEF HandleBlock, Consumed, Next1, LoadDone
  <2> HIDE DEF filled
  <2>2. LoadDone
    <3>1. IsName(1) /\ 1 \in DOMAIN bus BY <1>1, <2>1, TailTyped DEF IsName
    <3>2. QED BY <2>1, <3>1 DEF Growing
  <2>3. CASE name' = name /\ NoCache
    BY <2>1, <2>3, GrowingFrame DEF NoCache
  <2>4. CASE name = <<>> /\ name' = filled /\ Cache("handler", ToCache(filled, chans, subs))
    <3>1. Snapshot' = ToCache(filled, chans, subs) BY <2>1, <2>4 DEF Snapshot
    <3>2. Snapshot' \in Snaps BY <1>2, SnapTyped DEF Snapshot, Types, ObjectTypes
    <3>3. Grown(<<Snapshot>>, Snapshot')
      BY <2>1, <2>4 DEF Snapshot, ToCache, Grown, Retains
    <3>4. /\ writers' # <<>> => Grown(file', writers'[1].snap)
          /\ \A i \in DOMAIN writers' : i + 1 \in DOMAIN writers' =>
                 Grown(<<writers'[i].snap>>, writers'[i + 1].snap)
          /\ latest' = <<Snapshot'>>
      BY <2>1, <2>2, <2>4, <3>1, <3>2, <3>3, CacheGrown
    <3>5. QED BY <2>1, <2>2, <3>2, <3>4, GrownRefl DEF Growing
  <2>5. QED BY <2>1, <2>3, <2>4
<1>12. CASE HandlePart
  <2> SUFFICES ASSUME scans' <= 1, ~late' PROVE Growing' BY DEF Growing
  <2> DEFINE m == Head(bus)
             cs == IF m.chan \in DOMAIN chans
                   THEN [chans EXCEPT ![m.chan] = SetNamePart(@, m.part)] ELSE chans
  <2>1. /\ UNCHANGED <<file, cached, name, subs, scans, late, LoadDone, pc>> /\ Consumed
        /\ bus # <<>> /\ m.kind = "part"
    BY <1>12 DEF HandlePart, Consumed, Next1, LoadDone
  <2>2. \/ NoCache /\ chans' = chans
        \/ Cache("handler", ToCache(name, cs, subs)) /\ chans' = cs
    BY <1>12, Zenon DEF HandlePart
  <2>3. LoadDone
    <3>1. IsName(1) /\ 1 \in DOMAIN bus BY <1>1, <2>1, TailTyped DEF IsName
    <3>2. QED BY <2>1, <3>1 DEF Growing
  <2>4. CASE NoCache /\ chans' = chans
    BY <2>1, <2>4, GrowingFrame DEF NoCache
  <2>5. CASE Cache("handler", ToCache(name, cs, subs)) /\ chans' = cs
    <3>1. Snapshot' = ToCache(name, cs, subs) BY <2>1, <2>5 DEF Snapshot
    <3>2. Snapshot' \in Snaps BY <1>2, SnapTyped DEF Snapshot, Types, ObjectTypes
    <3>3. Grown(<<Snapshot>>, Snapshot')
      <4>1. PICK D \in SUBSET Channels : chans \in [D -> States] BY DEF Types, ObjectTypes
      <4>2. \A ch \in States : SetNamePart(ch, m.part).name \in {ch.name, "real"}
        BY DEF SetNamePart, States
      <4>3. DOMAIN cs = DOMAIN chans /\ \A c \in DOMAIN chans : cs[c].name \in {chans[c].name, "real"}
        BY <4>1, <4>2
      <4> HIDE DEF cs
      <4>4. QED BY <3>1, <4>3 DEF Snapshot, ToCache, Grown, Retains
    <3>4. /\ writers' # <<>> => Grown(file', writers'[1].snap)
          /\ \A i \in DOMAIN writers' : i + 1 \in DOMAIN writers' =>
                 Grown(<<writers'[i].snap>>, writers'[i + 1].snap)
          /\ latest' = <<Snapshot'>>
      BY <2>1, <2>3, <2>5, <3>1, <3>2, <3>3, CacheGrown
    <3>5. QED BY <2>1, <2>3, <3>2, <3>4, GrownRefl DEF Growing
  <2>6. QED BY <2>2, <2>4, <2>5
<1>13. CASE CacheWritten
  <2> SUFFICES ASSUME scans' <= 1, ~late' PROVE Growing' BY DEF Growing
  <2>1. /\ UNCHANGED <<bus, cached, latest, scans, late, LoadDone, Snapshot, pc>>
        /\ writers # <<>> /\ writers' = Tail(writers) /\ file' = <<writers[1].snap>>
    BY <1>13 DEF CacheWritten, module, LoadDone, Snapshot, Types, StoreTypes
  <2>2. LoadDone /\ pc # "read"
    BY <2>1 DEF Growing, Phases, LoadDone
  <2>3. /\ DOMAIN writers = 1 .. Len(writers) /\ DOMAIN writers' = 1 .. Len(writers) - 1
        /\ Len(writers) \in Nat \ {0} /\ writers' # <<>> => 1 \in DOMAIN writers'
        /\ \A i \in DOMAIN writers' : writers'[i] = writers[i + 1] /\ i + 1 \in DOMAIN writers
    BY <2>1 DEF Types, StoreTypes
  <2>4. /\ writers' # <<>> => Grown(file', writers'[1].snap)
        /\ \A i \in DOMAIN writers' : i + 1 \in DOMAIN writers' =>
               Grown(<<writers'[i].snap>>, writers'[i + 1].snap)
    BY <2>1, <2>3 DEF Growing
  <2>5. QED BY <2>1, <2>2, <2>4 DEF Growing
<1>14. CASE LoseReply
  BY <1>14, GrowingFrame DEF LoseReply, module, Consumed, LoadDone
<1>15. CASE Restart
  <2> SUFFICES ASSUME ~late' PROVE Growing' BY DEF Growing
  <2>1. bus' = <<>> /\ ~LoadDone' /\ pc' = "off" /\ writers' = <<>> /\ name' = <<>> /\ chans' = <<>>
    BY <1>15 DEF Restart, LoadDone
  <2>2. QED BY <2>1 DEF Growing
<1>16. CASE UNCHANGED lvars
  BY <1>16, GrowingFrame DEF lvars, module, Consumed, LoadDone
<1>17. QED
  BY <1>3, <1>4, <1>5, <1>6, <1>7, <1>8, <1>9, <1>10, <1>11, <1>12, <1>13, <1>14, <1>15, <1>16
     DEF LNext, Scan, Handle

(* A file is replaced by one that says as much. *)
LEMMA KeptStep ==
    ASSUME Types, Phases, Growing, [LNext]_lvars
    PROVE  (scans' <= 1 /\ ~late) => Retains(file, file')
<1> SUFFICES ASSUME scans' <= 1, ~late PROVE Retains(file, file') OBVIOUS
<1>1. scans \in Nat /\ file \in Files /\ writers \in Seq([by : {"scan", "handler"}, snap : Snaps])
  BY DEF Types, StoreTypes, OtherTypes
<1>2. CASE BeginScan
  <2>1. file' = file BY <1>1, <1>2 DEF BeginScan
  <2>2. QED BY <1>1, <2>1, RetainsSame
<1>3. CASE CacheWritten
  <2>1. scans <= 1 /\ writers # <<>> /\ file' = <<writers[1].snap>> BY <1>1, <1>3 DEF CacheWritten
  <2>2. QED BY <2>1 DEF Growing, Grown
<1>4. CASE file' = file BY <1>1, <1>4, RetainsSame
<1>5. QED
  BY <1>2, <1>3, <1>4 DEF LNext, Scan, Handle, ProbeOver, ReadCache, Load, CallbackReturns, LoadTimeout,
     PollingEnds, Conclude, EndScan, HandleType, HandleSubtype, HandleBlock, HandlePart, LoseReply,
     Restart, lvars
-----------------------------------------------------------------------------
(* Every snapshot has the object's name, or the type's while it has none. *)
LEMMA WholeStep ==
    ASSUME Types, WholeNames, [LNext]_lvars, name' \in {<<>>, TypeName, RealName}
    PROVE  WholeNames'
<1>1. writers \in Seq([by : {"scan", "handler"}, snap : Snaps])
  BY DEF Types, StoreTypes
<1>2. ASSUME NEW cs, NEW s, NEW n \in {<<>>, TypeName, RealName}
      PROVE  ToCache(n, cs, s).name \in {TypeName, RealName}
  BY <1>2 DEF ToCache
<1>3. ASSUME NEW by, NEW s, Cache(by, s), s.name \in {TypeName, RealName}
      PROVE  \A i \in DOMAIN writers' : writers'[i].snap.name \in {TypeName, RealName}
  <2> DEFINE new == [by |-> by, snap |-> s]
  <2>1. writers' = Append(writers, new) /\ new.snap = s BY <1>3 DEF Cache
  <2> HIDE DEF new
  <2>2. \A i \in DOMAIN writers' : (i \in DOMAIN writers /\ writers'[i] = writers[i]) \/ writers'[i] = new
    BY <1>1, <2>1
  <2>3. QED BY <1>3, <2>1, <2>2 DEF WholeNames
<1>4. CASE PollingEnds \/ Conclude
  <2>1. file' = file /\ cached' = cached /\ name' = name /\ (NoCache \/ Cache("scan", Snapshot))
    BY <1>4 DEF PollingEnds, Conclude
  <2>2. Snapshot.name \in {TypeName, RealName} BY <1>2 DEF Snapshot, WholeNames
  <2>3. QED BY <1>3, <2>1, <2>2 DEF WholeNames, NoCache
<1>5. CASE HandleBlock
  <2> DEFINE b == Head(bus).block
             filled == IF b \in ToSet(buffer) THEN buffer ELSE Append(buffer, b)
  <2>1. /\ file' = file /\ cached' = cached
        /\ NoCache \/ (Cache("handler", ToCache(filled, chans, subs)) /\ name' = filled)
    BY <1>5 DEF HandleBlock
  <2> HIDE DEF filled
  <2>2. CASE NoCache BY <2>1, <2>2 DEF WholeNames, NoCache
  <2>3. CASE Cache("handler", ToCache(filled, chans, subs)) /\ name' = filled
    BY <1>2, <1>3, <2>1, <2>3 DEF WholeNames
  <2>4. QED BY <2>1, <2>2, <2>3
<1>6. CASE HandlePart
  <2>1. /\ file' = file /\ cached' = cached /\ name' = name
        /\ NoCache \/ \E cs : Cache("handler", ToCache(name, cs, subs))
    BY <1>6, Zenon DEF HandlePart
  <2>2. QED BY <1>2, <1>3, <2>1 DEF WholeNames, NoCache
<1>7. CASE CacheWritten
  <2>1. /\ cached' = cached /\ name' = name /\ writers # <<>> /\ file' = <<writers[1].snap>>
        /\ writers' = Tail(writers)
    BY <1>1, <1>7 DEF CacheWritten, module
  <2>2. 1 \in DOMAIN writers /\ \A i \in DOMAIN writers' : i + 1 \in DOMAIN writers /\ writers'[i] = writers[i + 1]
    BY <1>1, <2>1
  <2>3. QED BY <2>1, <2>2 DEF WholeNames
<1>8. CASE Restart BY <1>8 DEF Restart, WholeNames
<1>9. CASE BeginScan BY <1>9 DEF BeginScan, WholeNames, module
<1>10. CASE ReadCache BY <1>10 DEF ReadCache, WholeNames
<1>11. CASE UNCHANGED <<file, cached, writers>>
  BY <1>11 DEF WholeNames
<1>12. QED
  BY <1>4, <1>5, <1>6, <1>7, <1>8, <1>9, <1>10, <1>11 DEF LNext, Scan, Handle, ProbeOver, Load,
     CallbackReturns, LoadTimeout, EndScan, HandleType, HandleSubtype, LoseReply, lvars, module
-----------------------------------------------------------------------------
(* What follows on n blocks does so when a reply that is no block is taken. *)
LEMMA FollowOther ==
    ASSUME NEW q \in Seq(Replies), NEW n \in Nat, q # <<>>, FollowOn(q, n), ~Block(q, 1)
    PROVE  FollowOn(Tail(q), n)
<1> DEFINE t == Tail(q)
<1>1. /\ Len(q) \in Nat \ {0} /\ DOMAIN q = 1 .. Len(q) /\ DOMAIN t = 1 .. Len(q) - 1
      /\ \A i \in DOMAIN t : t[i] = q[i + 1] /\ i + 1 \in DOMAIN q
      /\ \A i \in DOMAIN q : i # 1 => i - 1 \in DOMAIN t /\ t[i - 1] = q[i]
  OBVIOUS
<1> HIDE DEF t
<1>2. \A i \in DOMAIN t : Block(t, i) <=> Block(q, i + 1) BY <1>1 DEF Block
<1>3. NoBlock(t) => NoBlock(q)
  BY <1>1, <1>2 DEF NoBlock, Block
<1>4. ASSUME NEW i \in DOMAIN t PROVE FirstBlock(t, i) => FirstBlock(q, i + 1)
  <2> SUFFICES ASSUME FirstBlock(t, i), NEW k \in DOMAIN q, k < i + 1 PROVE ~Block(q, k)
    BY <1>1, <1>2 DEF FirstBlock
  <2>1. CASE k = 1 BY <2>1
  <2>2. CASE k # 1
    <3>1. k - 1 \in DOMAIN t /\ k - 1 < i BY <1>1, <2>2
    <3>2. ~Block(t, k - 1) BY <3>1 DEF FirstBlock
    <3>3. QED BY <1>1, <1>2, <3>1, <3>2
  <2>3. QED BY <2>1, <2>2
<1>5. ASSUME NEW i \in DOMAIN t PROVE LastBlock(t, i) => LastBlock(q, i + 1)
  <2> SUFFICES ASSUME LastBlock(t, i), NEW k \in DOMAIN q, k > i + 1 PROVE ~Block(q, k)
    BY <1>1, <1>2 DEF LastBlock
  <2>1. k - 1 \in DOMAIN t /\ k - 1 > i BY <1>1
  <2>2. ~Block(t, k - 1) BY <2>1 DEF LastBlock
  <2>3. QED BY <1>1, <1>2, <2>1, <2>2
<1>6. ASSUME NEW i \in DOMAIN t, NEW j \in DOMAIN t, NextBlock(t, i, j)
      PROVE  NextBlock(q, i + 1, j + 1)
  <2>1. Block(q, i + 1) /\ Block(q, j + 1) /\ i + 1 < j + 1
    BY <1>1, <1>2, <1>6 DEF NextBlock
  <2>2. ASSUME NEW k \in DOMAIN q, i + 1 < k, k < j + 1 PROVE ~Block(q, k)
    <3>1. k - 1 \in DOMAIN t /\ i < k - 1 /\ k - 1 < j BY <1>1, <2>2
    <3>2. ~Block(t, k - 1) BY <1>6, <3>1 DEF NextBlock
    <3>3. QED BY <1>1, <1>2, <3>1, <3>2
  <2>3. QED BY <2>1, <2>2 DEF NextBlock
<1>7. FollowOn(t, n) BY <1>1, <1>3, <1>4, <1>5, <1>6 DEF FollowOn
<1>8. QED BY <1>7 DEF t

(* The block taken is the next one; unless it was the last, the rest follows on it. *)
LEMMA FollowTaken ==
    ASSUME NEW q \in Seq(Replies), NEW n \in Nat, q # <<>>, FollowOn(q, n), Block(q, 1)
    PROVE  /\ q[1].block = n + 1
           /\ n + 1 # NBlocks => FollowOn(Tail(q), n + 1)
<1> DEFINE t == Tail(q)
<1>1. /\ Len(q) \in Nat \ {0} /\ DOMAIN q = 1 .. Len(q) /\ DOMAIN t = 1 .. Len(q) - 1
      /\ \A i \in DOMAIN t : t[i] = q[i + 1] /\ i + 1 \in DOMAIN q
      /\ \A i \in DOMAIN q : i # 1 => i - 1 \in DOMAIN t /\ t[i - 1] = q[i]
  OBVIOUS
<1> HIDE DEF t
<1>2. \A i \in DOMAIN t : Block(t, i) <=> Block(q, i + 1) BY <1>1 DEF Block
<1>3. q[1].block = n + 1
  <2>1. FirstBlock(q, 1) BY <1>1 DEF FirstBlock
  <2>2. QED BY <1>1, <2>1 DEF FollowOn
<1>4. SUFFICES ASSUME n + 1 # NBlocks PROVE FollowOn(t, n + 1)
  BY <1>3 DEF t
<1>5. ~NoBlock(t)
  <2> SUFFICES ASSUME NoBlock(t) PROVE FALSE OBVIOUS
  <2>1. ASSUME NEW k \in DOMAIN q, k > 1 PROVE ~Block(q, k)
    BY <1>1, <1>2, <2>1 DEF NoBlock
  <2>2. LastBlock(q, 1) BY <2>1 DEF LastBlock
  <2>3. QED BY <1>1, <1>3, <1>4, <2>2 DEF FollowOn
<1>6. ASSUME NEW i \in DOMAIN t, FirstBlock(t, i) PROVE t[i].block = n + 2
  <2>1. Block(q, i + 1) /\ 1 < i + 1 BY <1>1, <1>2, <1>6 DEF FirstBlock
  <2>2. ASSUME NEW k \in DOMAIN q, 1 < k, k < i + 1 PROVE ~Block(q, k)
    <3>1. k - 1 \in DOMAIN t /\ k - 1 < i BY <1>1, <2>2
    <3>2. ~Block(t, k - 1) BY <1>6, <3>1 DEF FirstBlock
    <3>3. QED BY <1>1, <1>2, <3>1, <3>2
  <2>3. NextBlock(q, 1, i + 1) BY <2>1, <2>2 DEF NextBlock
  <2>4. 1 \in DOMAIN q /\ i + 1 \in DOMAIN q BY <1>1
  <2>5. q[i + 1].block = q[1].block + 1 BY <1>3, <1>4, <2>3, <2>4 DEF FollowOn
  <2>6. QED BY <1>1, <1>3, <2>5
<1>7. ASSUME NEW i \in DOMAIN t PROVE LastBlock(t, i) => LastBlock(q, i + 1)
  <2> SUFFICES ASSUME LastBlock(t, i), NEW k \in DOMAIN q, k > i + 1 PROVE ~Block(q, k)
    BY <1>1, <1>2 DEF LastBlock
  <2>1. k - 1 \in DOMAIN t /\ k - 1 > i BY <1>1
  <2>2. ~Block(t, k - 1) BY <2>1 DEF LastBlock
  <2>3. QED BY <1>1, <1>2, <2>1, <2>2
<1>8. ASSUME NEW i \in DOMAIN t, NEW j \in DOMAIN t, NextBlock(t, i, j)
      PROVE  NextBlock(q, i + 1, j + 1)
  <2>1. Block(q, i + 1) /\ Block(q, j + 1) /\ i + 1 < j + 1
    BY <1>1, <1>2, <1>8 DEF NextBlock
  <2>2. ASSUME NEW k \in DOMAIN q, i + 1 < k, k < j + 1 PROVE ~Block(q, k)
    <3>1. k - 1 \in DOMAIN t /\ i < k - 1 /\ k - 1 < j BY <1>1, <2>2
    <3>2. ~Block(t, k - 1) BY <1>8, <3>1 DEF NextBlock
    <3>3. QED BY <1>1, <1>2, <3>1, <3>2
  <2>3. QED BY <2>1, <2>2 DEF NextBlock
<1>9. QED BY <1>1, <1>5, <1>6, <1>7, <1>8 DEF FollowOn

(* Replies that are no blocks change nothing. *)
LEMMA FollowNoMore ==
    ASSUME NEW q \in Seq(Replies), NEW s \in Seq(Replies), NEW n \in Nat, FollowOn(q, n), NoBlock(s)
    PROVE  FollowOn(q \o s, n)
<1> DEFINE t == q \o s
<1>1. /\ Len(q) \in Nat /\ Len(s) \in Nat /\ DOMAIN q = 1 .. Len(q) /\ DOMAIN t = 1 .. Len(q) + Len(s)
      /\ \A i \in DOMAIN q : t[i] = q[i] /\ i \in DOMAIN t
      /\ \A i \in DOMAIN t : i \notin DOMAIN q => i - Len(q) \in DOMAIN s /\ t[i] = s[i - Len(q)]
  OBVIOUS
<1> HIDE DEF t
<1>2. \A i \in DOMAIN q : Block(t, i) <=> Block(q, i) BY <1>1 DEF Block
<1>3. \A i \in DOMAIN t : Block(t, i) => i \in DOMAIN q BY <1>1 DEF Block, NoBlock
<1>4. NoBlock(t) => NoBlock(q) BY <1>1, <1>2 DEF NoBlock
<1>5. ASSUME NEW i \in DOMAIN t, FirstBlock(t, i) PROVE i \in DOMAIN q /\ FirstBlock(q, i)
  BY <1>1, <1>2, <1>3, <1>5 DEF FirstBlock
<1>6. ASSUME NEW i \in DOMAIN t, LastBlock(t, i) PROVE i \in DOMAIN q /\ LastBlock(q, i)
  BY <1>1, <1>2, <1>3, <1>6 DEF LastBlock
<1>7. ASSUME NEW i \in DOMAIN t, NEW j \in DOMAIN t, NextBlock(t, i, j)
      PROVE  i \in DOMAIN q /\ j \in DOMAIN q /\ NextBlock(q, i, j)
  BY <1>1, <1>2, <1>3, <1>7 DEF NextBlock
<1>8. FollowOn(t, n) BY <1>1, <1>4, <1>5, <1>6, <1>7 DEF FollowOn
<1>9. QED BY <1>8 DEF t

(* The blocks of another request come after the last of those under way. *)
LEMMA FollowAsked ==
    ASSUME NEW q \in Seq(Replies), NEW n \in Nat, FollowOn(q, n)
    PROVE  FollowOn(q \o [b \in Blocks |-> BlockReply(b)], n)
<1> DEFINE s == [b \in Blocks |-> BlockReply(b)]
           t == q \o s
<1>1. s \in Seq(Replies) /\ Len(s) = NBlocks /\ DOMAIN s = 1 .. NBlocks /\ NBlocks \in Nat \ {0}
  BY BlocksTyped, LoadAssumption DEF Blocks
<1>2. \A b \in DOMAIN s : s[b].kind = "block" /\ s[b].block = b BY DEF BlockReply
<1> HIDE DEF s
<1>3. /\ Len(q) \in Nat /\ DOMAIN q = 1 .. Len(q) /\ DOMAIN t = 1 .. Len(q) + NBlocks
      /\ \A i \in DOMAIN q : t[i] = q[i] /\ i \in DOMAIN t
      /\ \A i \in DOMAIN t : i \notin DOMAIN q => i - Len(q) \in DOMAIN s /\ t[i] = s[i - Len(q)]
  BY <1>1
<1> HIDE DEF t
<1>4. \A i \in DOMAIN q : Block(t, i) <=> Block(q, i) BY <1>3 DEF Block
<1>5. \A i \in DOMAIN t : i \notin DOMAIN q => Block(t, i) /\ t[i].block = i - Len(q)
  BY <1>2, <1>3 DEF Block
<1>6. Len(q) + 1 \in DOMAIN t /\ Len(q) + 1 \notin DOMAIN q /\ Len(q) + NBlocks \in DOMAIN t
      /\ Len(q) + NBlocks \notin DOMAIN q
  BY <1>1, <1>3
<1>7. ~NoBlock(t) BY <1>5, <1>6 DEF NoBlock
<1>8. ASSUME NEW i \in DOMAIN t, FirstBlock(t, i) PROVE t[i].block = n + 1
  <2>1. CASE i \in DOMAIN q
    <3>1. FirstBlock(q, i) BY <1>3, <1>4, <1>8, <2>1 DEF FirstBlock
    <3>2. QED BY <1>3, <2>1, <3>1 DEF FollowOn
  <2>2. CASE i \notin DOMAIN q
    <3>1. NoBlock(q) BY <1>3, <1>4, <1>8, <2>2 DEF FirstBlock, NoBlock
    <3>2. n = 0 BY <3>1 DEF FollowOn
    <3>3. i = Len(q) + 1 BY <1>3, <1>5, <1>6, <1>8, <2>2 DEF FirstBlock
    <3>4. QED BY <1>3, <1>5, <1>6, <3>2, <3>3
  <2>3. QED BY <2>1, <2>2
<1>9. ASSUME NEW i \in DOMAIN t, LastBlock(t, i) PROVE t[i].block = NBlocks
  <2>1. i = Len(q) + NBlocks BY <1>1, <1>3, <1>5, <1>6, <1>9 DEF LastBlock
  <2>2. QED BY <1>1, <1>3, <1>5, <1>6, <2>1
<1>10. ASSUME NEW i \in DOMAIN t, NEW j \in DOMAIN t, NextBlock(t, i, j)
       PROVE  t[j].block = IF t[i].block = NBlocks THEN 1 ELSE t[i].block + 1
  <2>1. CASE j \in DOMAIN q
    <3>1. i \in DOMAIN q /\ NextBlock(q, i, j)
      BY <1>3, <1>4, <1>10, <2>1 DEF NextBlock
    <3>2. QED BY <1>3, <2>1, <3>1 DEF FollowOn
  <2>2. CASE j \notin DOMAIN q /\ i \in DOMAIN q
    <3>1. LastBlock(q, i) BY <1>3, <1>4, <1>10, <2>2 DEF NextBlock, LastBlock
    <3>2. t[i].block = NBlocks BY <1>3, <2>2, <3>1 DEF FollowOn
    <3>3. j = Len(q) + 1
      <4>1. SUFFICES ASSUME j # Len(q) + 1 PROVE FALSE OBVIOUS
      <4>2. i < Len(q) + 1 /\ Len(q) + 1 < j BY <1>1, <1>3, <2>2, <4>1
      <4>3. QED BY <1>5, <1>6, <1>10, <4>2 DEF NextBlock
    <3>4. QED BY <1>3, <1>5, <1>6, <3>2, <3>3
  <2>3. CASE j \notin DOMAIN q /\ i \notin DOMAIN q
    <3>1. t[i].block = i - Len(q) /\ t[j].block = j - Len(q) /\ i < j BY <1>5, <1>10, <2>3 DEF NextBlock
    <3>2. j = i + 1
      <4>1. SUFFICES ASSUME j # i + 1 PROVE FALSE OBVIOUS
      <4>2. i + 1 \in DOMAIN t /\ i + 1 \notin DOMAIN q /\ i + 1 < j BY <1>1, <1>3, <2>3, <3>1, <4>1
      <4>3. QED BY <1>3, <1>5, <1>10, <4>2 DEF NextBlock
    <3>3. QED BY <1>1, <1>3, <3>1, <3>2
  <2>4. QED BY <2>1, <2>2, <2>3
<1>11. FollowOn(t, n) BY <1>7, <1>8, <1>9, <1>10 DEF FollowOn
<1>12. QED BY <1>11 DEF t, s

(* A sequence that counts up to NBlocks is the whole name. *)
LEMMA CountedName ==
    ASSUME NEW q \in Seq(Blocks), Len(q) = NBlocks, \A i \in DOMAIN q : q[i] = i
    PROVE  q = RealName
<1>1. DOMAIN q = Blocks /\ q \in [Blocks -> Blocks] BY LoadAssumption DEF Blocks
<1>2. QED BY <1>1 DEF RealName

(* The steps that neither take nor add a block, set the name or fill the buffer. *)
LEMMA CyclicFrame ==
    ASSUME Types, Cyclic, [LNext]_lvars, UNCHANGED <<lost, late, name, buffer>>, exists => exists',
           \/ bus' = bus
           \/ \E s \in Seq(Replies) : NoBlock(s) /\ bus' = bus \o s
           \/ bus # <<>> /\ Head(bus).kind # "block" /\ bus' = Tail(bus)
    PROVE  Cyclic'
<1> SUFFICES ASSUME lost = 0, ~late
             PROVE  /\ WholeNames'
                    /\ ~exists' => NoBlock(bus')
                    /\ name = <<>> => /\ Len(buffer) < NBlocks /\ \A i \in DOMAIN buffer : buffer[i] = i
                                      /\ FollowOn(bus', Len(buffer))
  BY DEF Cyclic
<1>1. bus \in Seq(Replies) /\ Len(buffer) \in Nat
  BY DEF Types, ObjectTypes, OtherTypes
<1>2. WholeNames' BY WholeStep DEF Cyclic, WholeNames
<1>3. NoBlock(bus) => NoBlock(bus')
  <2>1. CASE bus' = bus BY <2>1
  <2>2. ASSUME NEW s \in Seq(Replies), NoBlock(s), bus' = bus \o s, NoBlock(bus) PROVE NoBlock(bus')
    BY SMTT(30), <1>1, <2>2, MoreReplies DEF NoBlock, Block
  <2>3. CASE bus # <<>> /\ bus' = Tail(bus) BY <1>1, <2>3, TailTyped DEF NoBlock, Block
  <2>4. QED BY <2>1, <2>2, <2>3
<1>4. ASSUME FollowOn(bus, Len(buffer)) PROVE FollowOn(bus', Len(buffer))
  <2>1. CASE bus' = bus BY <1>4, <2>1
  <2>2. CASE \E s \in Seq(Replies) : NoBlock(s) /\ bus' = bus \o s
    BY <1>1, <1>4, <2>2, FollowNoMore
  <2>3. CASE bus # <<>> /\ Head(bus).kind # "block" /\ bus' = Tail(bus)
    <3>1. ~Block(bus, 1) BY <1>1, <2>3 DEF Block
    <3>2. QED BY <1>1, <1>4, <2>3, <3>1, FollowOther
  <2>4. QED BY <2>1, <2>2, <2>3
<1>5. QED BY <1>2, <1>3, <1>4 DEF Cyclic

(* Without a loss the blocks stay in order and a name is whole. *)
LEMMA CyclicStep == ASSUME Types, Phases, Cyclic, [LNext]_lvars PROVE Cyclic'
<1>1. bus \in Seq(Replies) /\ buffer \in Seq(Blocks) /\ lost \in Nat /\ exists \in BOOLEAN
  BY DEF Types, ObjectTypes, OtherTypes
<1>2. Len(buffer) \in Nat /\ DOMAIN buffer = 1 .. Len(buffer) BY <1>1
<1>3. TypeReplies \in Seq(Replies) /\ NoBlock(TypeReplies)
  BY FewReplies DEF TypeReplies, TypeReply, SubReply, NoBlock, Block
<1>4. Asked \in Seq(Replies) /\ NoBlock(Asked) BY AskedTyped DEF NoBlock, Block
<1>5. CASE BeginScan BY <1>3, <1>5, CyclicFrame DEF BeginScan, module
<1>6. CASE ProbeOver BY <1>6, CyclicFrame DEF ProbeOver
<1>7. CASE ReadCache BY <1>7, CyclicFrame DEF ReadCache
<1>8. CASE Load
  <2> SUFFICES ASSUME lost' = 0, ~late' PROVE Cyclic' BY DEF Cyclic
  <2>1. lost = 0 /\ ~late /\ buffer' = buffer /\ exists /\ exists' = exists
    BY <1>8 DEF Load, Phases
  <2>2. WholeNames BY <2>1 DEF Cyclic
  <2>3. name' \in {<<>>, TypeName, RealName} BY <1>8, <2>2 DEF Load, WholeNames
  <2>4. WholeNames' BY <2>2, <2>3, WholeStep
  <2>5. ASSUME name' = <<>>
        PROVE  /\ Len(buffer) < NBlocks /\ \A i \in DOMAIN buffer : buffer[i] = i
               /\ FollowOn(bus', Len(buffer))
    <3> DEFINE bs == [b \in Blocks |-> BlockReply(b)]
    <3>1. name = <<>> /\ bus' = bus \o bs \o TypeReplies \o Asked
      <4>1. cached = <<>>
        <5>1. cached # <<>> => name' = cached[1].name BY <1>8 DEF Load
        <5>2. cached # <<>> => cached[1].name # <<>>
          BY DEF Types, StoreTypes, Files, Snaps
        <5>3. QED BY <2>5, <5>1, <5>2
      <4>2. QED BY <1>8, <2>5, <4>1 DEF Load
    <3>2. FollowOn(bus, Len(buffer)) BY <2>1, <3>1 DEF Cyclic
    <3>3. bs \in Seq(Replies) /\ FollowOn(bus \o bs, Len(buffer))
      BY <1>1, <1>2, <3>2, BlocksTyped, FollowAsked
    <3> HIDE DEF bs
    <3>4. bus \o bs \in Seq(Replies) BY <1>1, <3>3
    <3>5. FollowOn(bus \o bs \o TypeReplies, Len(buffer))
      BY <1>2, <1>3, <3>3, <3>4, FollowNoMore
    <3>6. FollowOn(bus', Len(buffer))
      <4>1. bus \o bs \o TypeReplies \in Seq(Replies) BY <1>3, <3>4
      <4>2. QED BY <1>2, <1>4, <3>1, <3>5, <4>1, FollowNoMore
    <3>7. QED BY <2>1, <3>1, <3>6 DEF Cyclic
  <2>6. QED BY <2>1, <2>4, <2>5 DEF Cyclic
<1>9. CASE CallbackReturns \/ LoadTimeout \/ EndScan
  BY <1>9, CyclicFrame DEF CallbackReturns, LoadTimeout, EndScan, module
<1>10. CASE PollingEnds \/ Conclude
  BY <1>10, CyclicFrame DEF PollingEnds, Conclude
<1>11. CASE HandleType
  <2>1. bus # <<>> /\ Head(bus).kind # "block" /\ bus' = Tail(bus) BY <1>11 DEF HandleType, Next1
  <2>2. QED BY <1>11, <2>1, CyclicFrame DEF HandleType, module
<1>12. CASE HandleSubtype
  <2>1. bus # <<>> /\ Head(bus).kind # "block" /\ bus' = Tail(bus) BY <1>12 DEF HandleSubtype, Next1
  <2>2. QED BY <1>12, <2>1, CyclicFrame DEF HandleSubtype
<1>13. CASE HandlePart
  <2>1. bus # <<>> /\ Head(bus).kind # "block" /\ bus' = Tail(bus) BY <1>13 DEF HandlePart, Next1
  <2>2. UNCHANGED <<lost, late, name, buffer, exists>> BY <1>13 DEF HandlePart
  <2>3. QED BY <2>1, <2>2, CyclicFrame
<1>14. CASE HandleBlock
  <2> SUFFICES ASSUME lost' = 0, ~late' PROVE Cyclic' BY DEF Cyclic
  <2> DEFINE b == Head(bus).block
             filled == IF b \in ToSet(buffer) THEN buffer ELSE Append(buffer, b)
  <2>1. /\ lost = 0 /\ ~late /\ exists' = exists /\ bus # <<>> /\ Head(bus).kind = "block" /\ bus' = Tail(bus)
    BY <1>14 DEF HandleBlock, Next1
  <2>2. Block(bus, 1) /\ ~NoBlock(bus) BY <1>1, <2>1, TailTyped DEF Block, NoBlock
  <2>3. exists BY <2>1, <2>2 DEF Cyclic
  <2>4. CASE name # <<>>
    <3>1. name' = name BY <1>14, <2>4 DEF HandleBlock
    <3>2. WholeNames' BY <2>1, <3>1, WholeStep DEF Cyclic, WholeNames
    <3>3. QED BY <2>1, <2>3, <2>4, <3>1, <3>2 DEF Cyclic
  <2>5. CASE name = <<>>
    <3>1. /\ Len(buffer) < NBlocks /\ \A i \in DOMAIN buffer : buffer[i] = i
          /\ FollowOn(bus, Len(buffer))
      BY <2>1, <2>5 DEF Cyclic
    <3>2. /\ b = Len(buffer) + 1
          /\ b # NBlocks => FollowOn(bus', b)
      BY <1>1, <1>2, <2>1, <2>2, <3>1, FollowTaken
    <3>3. b \in Blocks BY <1>2, <3>1, <3>2, LoadAssumption DEF Blocks
    <3>4. /\ filled = Append(buffer, b) /\ filled \in Seq(Blocks) /\ Len(filled) = b
          /\ \A i \in DOMAIN filled : filled[i] = i
      <4>1. b \notin ToSet(buffer) BY <1>2, <3>1, <3>2 DEF ToSet
      <4>2. filled = Append(buffer, b) BY <4>1
      <4> HIDE DEF filled
      <4>3. filled \in Seq(Blocks) /\ Len(filled) = b BY <1>1, <3>2, <3>3, <4>2
      <4>4. \A i \in DOMAIN filled : filled[i] = i BY <1>1, <1>2, <3>1, <3>2, <3>3, <4>2
      <4>5. QED BY <4>2, <4>3, <4>4
    <3>5. IF b >= NBlocks THEN name' = filled /\ buffer' = <<>> ELSE buffer' = filled /\ name' = name
      BY <1>14, <2>3, <2>5, <3>4 DEF HandleBlock, AllReceived
    <3> HIDE DEF filled
    <3>6. CASE b >= NBlocks
      <4>1. Len(filled) = NBlocks BY <1>2, <3>1, <3>2, <3>4, <3>6, LoadAssumption
      <4>2. name' = RealName BY <3>4, <3>5, <3>6, <4>1, CountedName
      <4>3. WholeNames' BY <2>1, <4>2, WholeStep DEF Cyclic
      <4>4. RealName # <<>> BY LoadAssumption DEF RealName, Blocks
      <4>5. QED BY <2>1, <2>3, <4>2, <4>3, <4>4 DEF Cyclic
    <3>7. CASE ~(b >= NBlocks)
      <4>1. WholeNames' BY <2>1, <2>5, <3>5, <3>7, WholeStep DEF Cyclic
      <4>2. b < NBlocks /\ FollowOn(bus', b) BY <1>2, <3>2, <3>7, LoadAssumption
      <4>3. QED BY <2>1, <2>3, <3>4, <3>5, <3>7, <4>1, <4>2 DEF Cyclic
    <3>8. QED BY <3>6, <3>7
  <2>6. QED BY <2>4, <2>5
<1>15. CASE CacheWritten
  BY <1>15, CyclicFrame DEF CacheWritten, module
<1>16. CASE LoseReply BY <1>1, <1>16 DEF LoseReply, Cyclic
<1>17. CASE Restart
  <2> SUFFICES ASSUME lost' = 0, ~late' PROVE Cyclic' BY DEF Cyclic
  <2>1. lost = 0 /\ ~late /\ bus' = <<>> /\ name' = <<>> /\ buffer' = <<>> BY <1>17 DEF Restart
  <2>2. WholeNames' BY <2>1, WholeStep DEF Cyclic
  <2>3. QED BY <2>1, <2>2, LoadAssumption DEF Cyclic, NoBlock, FollowOn
<1>18. CASE UNCHANGED lvars
  BY <1>18, CyclicFrame DEF lvars, module
<1>19. QED
  BY <1>5, <1>6, <1>7, <1>8, <1>9, <1>10, <1>11, <1>12, <1>13, <1>14, <1>15, <1>16, <1>17, <1>18
     DEF LNext, Scan, Handle
-----------------------------------------------------------------------------
(* The blocks in q come in their order, above those in the buffer. *)
Above(q, buf) ==
    /\ \A i, j \in DOMAIN q : (i < j /\ Block(q, i) /\ Block(q, j)) => q[i].block < q[j].block
    /\ name = <<>> => \A i \in DOMAIN buf, j \in DOMAIN q : Block(q, j) => buf[i] < q[j].block

(* The blocks still to come stay above those that came when a reply is taken
   that changes neither the buffer nor the name.                             *)
LEMMA AboveTail ==
    ASSUME bus \in Seq(Replies), bus # <<>>, Above(bus, buffer), bus' = Tail(bus),
           name' = <<>> => name = <<>>, buffer' = buffer
    PROVE  Above(bus, buffer)'
BY TailTyped DEF Above, Block

(* And when messages follow that are no blocks. *)
LEMMA AboveNoMore ==
    ASSUME NEW q \in Seq(Replies), NEW s \in Seq(Replies), Above(q, buffer), NoBlock(s)
    PROVE  Above(q \o s, buffer)
<1> DEFINE t == q \o s
<1>1. /\ DOMAIN q = 1 .. Len(q) /\ \A i \in DOMAIN q : t[i] = q[i]
      /\ \A i \in DOMAIN t : i \notin DOMAIN q => \E k \in DOMAIN s : t[i] = s[k]
  OBVIOUS
<1> HIDE DEF t
<1>2. \A i \in DOMAIN t : Block(t, i) => i \in DOMAIN q /\ t[i] = q[i] /\ Block(q, i)
  BY <1>1 DEF Block, NoBlock
<1>3. Above(t, buffer) BY <1>2 DEF Above
<1>4. QED BY <1>3 DEF t

(* The steps that set no name, fill no buffer and add no block. *)
LEMMA RisingFrame ==
    ASSUME Types, Rising, [LNext]_lvars, UNCHANGED <<name, buffer>>,
           ~late' => ~late, restarts' = 0 => restarts = 0, scans' <= 1 => scans <= 1,
           scans' <= 1 => (~LoadDone' => ~LoadDone),
           \/ bus' = bus
           \/ \E s \in Seq(Replies) : NoBlock(s) /\ bus' = bus \o s
           \/ bus # <<>> /\ bus' = Tail(bus)
    PROVE  Rising'
<1> SUFFICES ASSUME scans' <= 1, restarts' = 0, ~late' PROVE Rising' BY DEF Rising
<1>1. bus \in Seq(Replies) BY DEF Types, OtherTypes
<1>2. WholeNames' BY WholeStep DEF Rising, WholeNames
<1>3. NoBlock(bus) => NoBlock(bus')
  <2>1. CASE bus' = bus BY <2>1
  <2>2. ASSUME NEW s \in Seq(Replies), NoBlock(s), bus' = bus \o s, NoBlock(bus) PROVE NoBlock(bus')
    BY <1>1, <2>2, MoreReplies DEF NoBlock, Block
  <2>3. CASE bus # <<>> /\ bus' = Tail(bus) BY <1>1, <2>3, TailTyped DEF NoBlock, Block
  <2>4. QED BY <2>1, <2>2, <2>3
<1>4. Above(bus, buffer) BY DEF Rising, Above
<1>5. Above(bus, buffer)'
  <2>1. CASE bus' = bus BY <1>4, <2>1 DEF Above
  <2>2. CASE \E s \in Seq(Replies) : NoBlock(s) /\ bus' = bus \o s
    <3>1. Above(bus', buffer) BY <1>1, <1>4, <2>2, AboveNoMore
    <3>2. QED BY <3>1 DEF Above
  <2>3. CASE bus # <<>> /\ bus' = Tail(bus) BY <1>1, <1>4, <2>3, AboveTail
  <2>4. QED BY <2>1, <2>2, <2>3
<1>6. QED BY <1>2, <1>3, <1>5 DEF Rising, Above

(* Within one scan the blocks rise, whatever is lost, and a name is whole. *)
LEMMA RisingStep == ASSUME Types, Phases, Rising, [LNext]_lvars PROVE Rising'
<1>1. /\ bus \in Seq(Replies) /\ buffer \in Seq(Blocks) /\ restarts \in Nat /\ scans \in Nat
      /\ exists \in BOOLEAN /\ isLoading \in BOOLEAN
  BY DEF Types, ObjectTypes, OtherTypes
<1>2. /\ Len(buffer) \in Nat /\ DOMAIN buffer = 1 .. Len(buffer)
      /\ \A i \in DOMAIN buffer : buffer[i] \in 1 .. NBlocks
  <2>1. Len(buffer) \in Nat /\ DOMAIN buffer = 1 .. Len(buffer) BY <1>1, LenProperties
  <2>2. \A i \in DOMAIN buffer : buffer[i] \in Blocks BY <1>1, <2>1, ElementOfSeq
  <2>3. QED BY <2>1, <2>2 DEF Blocks
<1>3. TypeReplies \in Seq(Replies) /\ NoBlock(TypeReplies)
  BY FewReplies DEF TypeReplies, TypeReply, SubReply, NoBlock, Block
<1>4. Asked \in Seq(Replies) /\ NoBlock(Asked) BY AskedTyped DEF NoBlock, Block
<1>5. CASE BeginScan
  <2>1. /\ UNCHANGED <<name, buffer, late, restarts, exists, isLoading>> /\ scans' = scans + 1
        /\ bus' = bus \o TypeReplies
    BY <1>5 DEF BeginScan, module
  <2>2. (LoadDone' <=> LoadDone) /\ (scans' <= 1 => scans <= 1) BY <1>1, <2>1 DEF LoadDone
  <2>3. QED BY <1>3, <2>1, <2>2, RisingFrame
<1>6. CASE ProbeOver
  <2>1. scans' <= 1 => (~LoadDone' => ~LoadDone) BY <1>1, <1>6 DEF ProbeOver, Phases, LoadDone
  <2>2. QED BY <1>6, <2>1, RisingFrame DEF ProbeOver
<1>7. CASE ReadCache BY <1>7, RisingFrame DEF ReadCache, LoadDone
<1>8. CASE Load
  <2> SUFFICES ASSUME scans' <= 1, restarts' = 0, ~late' PROVE Rising' BY DEF Rising
  <2>1. /\ scans <= 1 /\ restarts = 0 /\ ~late /\ buffer' = buffer /\ exists' = exists /\ ~LoadDone
        /\ LoadDone'
    BY <1>8 DEF Load, Phases, LoadDone
  <2>2. WholeNames /\ buffer = <<>> /\ NoBlock(bus) BY <2>1 DEF Rising
  <2>3. name' \in {<<>>, TypeName, RealName} BY <1>8, <2>2 DEF Load, WholeNames
  <2>4. WholeNames' BY <2>2, <2>3, WholeStep
  <2>5. \A i, j \in DOMAIN bus' : (i < j /\ Block(bus', i) /\ Block(bus', j)) => bus'[i].block < bus'[j].block
    <3>1. CASE cached # <<>>
      <4>1. bus' = bus BY <1>8, <3>1 DEF Load
      <4>2. QED BY <2>2, <4>1 DEF NoBlock
    <3>2. CASE cached = <<>>
      <4> DEFINE bs == [b \in Blocks |-> BlockReply(b)]
                 more == bs \o TypeReplies \o Asked
                 t == bus \o bs
      <4>1. bs \in Seq(Replies) /\ Len(bs) = NBlocks /\ \A i \in 1 .. NBlocks : bs[i].block = i
        BY BlocksTyped DEF BlockReply, Blocks
      <4>2. bus' = t \o TypeReplies \o Asked BY <1>8, <3>2 DEF Load
      <4> HIDE DEF bs
      <4>3. /\ t \in Seq(Replies) /\ Len(bus) \in Nat
            /\ \A i \in DOMAIN t : \/ i \in DOMAIN bus /\ t[i] = bus[i]
                                   \/ i - Len(bus) \in 1 .. NBlocks /\ t[i] = bs[i - Len(bus)]
        BY <1>1, <4>1, LoadAssumption
      <4>4. \A i, j \in DOMAIN t : (i < j /\ Block(t, i) /\ Block(t, j)) => t[i].block < t[j].block
        <5>1. ASSUME NEW i \in DOMAIN t, Block(t, i) PROVE t[i].block = i - Len(bus)
          BY <2>2, <4>1, <4>3, <5>1 DEF NoBlock, Block
        <5>2. \A i \in DOMAIN t : i \in Nat BY <4>3
        <5>3. QED BY <4>3, <5>1, <5>2
      <4> HIDE DEF t
      <4>5. Above(t, <<>>) BY <4>4 DEF Above
      <4>6. Above(t \o TypeReplies, <<>>) BY <1>3, <2>2, <4>3, <4>5, AboveNoMore
      <4>7. Above(bus', <<>>)
        <5>1. t \o TypeReplies \in Seq(Replies) BY <1>3, <4>3
        <5>2. QED BY <1>4, <2>2, <4>2, <4>6, <5>1, AboveNoMore
      <4>8. QED BY <4>7 DEF Above
    <3>3. QED BY <3>1, <3>2
  <2>6. QED BY <2>1, <2>2, <2>4, <2>5, LoadAssumption DEF Rising
<1>9. CASE CallbackReturns \/ LoadTimeout \/ EndScan
  BY <1>9, RisingFrame DEF CallbackReturns, LoadTimeout, EndScan, module, LoadDone
<1>10. CASE PollingEnds \/ Conclude
  BY <1>10, RisingFrame DEF PollingEnds, Conclude, LoadDone
<1>11. CASE HandleType BY <1>11, RisingFrame DEF HandleType, Next1, module, LoadDone
<1>12. CASE HandleSubtype BY <1>12, RisingFrame DEF HandleSubtype, Next1, LoadDone
<1>13. CASE HandlePart
  <2>1. /\ UNCHANGED <<late, name, buffer, exists, isLoading, scans, restarts>>
        /\ bus # <<>> /\ bus' = Tail(bus)
    BY <1>13 DEF HandlePart, Next1
  <2>2. QED BY <2>1, RisingFrame DEF LoadDone
<1>14. CASE HandleBlock
  <2> SUFFICES ASSUME scans' <= 1, restarts' = 0, ~late' PROVE Rising' BY DEF Rising
  <2> DEFINE b == Head(bus).block
             filled == IF b \in ToSet(buffer) THEN buffer ELSE Append(buffer, b)
  <2>1. /\ scans <= 1 /\ restarts = 0 /\ ~late /\ LoadDone' = LoadDone /\ exists' = exists
        /\ bus # <<>> /\ Head(bus).kind = "block" /\ bus' = Tail(bus)
    BY <1>14 DEF HandleBlock, Next1, LoadDone
  <2>2. Block(bus, 1) /\ ~NoBlock(bus) /\ b = bus[1].block /\ 1 \in DOMAIN bus
    BY <1>1, <2>1, TailTyped DEF Block, NoBlock
  <2>3. LoadDone /\ exists BY <2>1, <2>2 DEF Rising, LoadDone
  <2>4. /\ \A i, j \in DOMAIN bus' : (i < j /\ Block(bus', i) /\ Block(bus', j)) => bus'[i].block < bus'[j].block
        /\ \A j \in DOMAIN bus' : Block(bus', j) =>
               /\ b < bus'[j].block
               /\ \E k \in DOMAIN bus : Block(bus, k) /\ bus'[j] = bus[k]
    <3>1. \A i \in DOMAIN bus' : i \in Nat \ {0} /\ i + 1 \in DOMAIN bus /\ bus'[i] = bus[i + 1]
      BY <1>1, <2>1, TailTyped
    <3>2. \A i, j \in DOMAIN bus : (i < j /\ Block(bus, i) /\ Block(bus, j)) => bus[i].block < bus[j].block
      BY <2>1 DEF Rising
    <3>3. \A i \in DOMAIN bus' : Block(bus', i) => Block(bus, i + 1) /\ 1 < i + 1 BY <3>1 DEF Block
    <3>4. QED BY <2>2, <3>1, <3>2, <3>3
  <2>5. CASE name # <<>>
    <3>1. name' = name BY <1>14, <2>5 DEF HandleBlock
    <3>2. WholeNames' BY <2>1, <3>1, WholeStep DEF Rising, WholeNames
    <3>3. QED BY <2>1, <2>3, <2>4, <2>5, <3>1, <3>2 DEF Rising
  <2>6. CASE name = <<>>
    <3>1. /\ Len(buffer) < NBlocks
          /\ \A i, j \in DOMAIN buffer : i < j => buffer[j] - buffer[i] >= j - i
          /\ \A i \in DOMAIN buffer, j \in DOMAIN bus : Block(bus, j) => buffer[i] < bus[j].block
      BY <2>1, <2>6 DEF Rising
    <3>2. b \in Blocks /\ b \in 1 .. NBlocks
      BY <1>1, <2>1, TailTyped DEF Replies, TypeReply, SubReply, BlockReply, Blocks
    <3>3. \A i \in DOMAIN buffer : buffer[i] < b BY <2>2, <3>1
    <3>4. /\ filled = Append(buffer, b) /\ filled \in Seq(Blocks) /\ Len(filled) = Len(buffer) + 1
          /\ DOMAIN filled = 1 .. Len(buffer) + 1
          /\ \A i \in DOMAIN buffer : filled[i] = buffer[i]
          /\ filled[Len(buffer) + 1] = b
      <4>1. b \notin ToSet(buffer) BY <1>2, <3>2, <3>3 DEF ToSet
      <4>2. filled = Append(buffer, b) BY <4>1
      <4> HIDE DEF filled
      <4>3. filled \in Seq(Blocks) /\ Len(filled) = Len(buffer) + 1 BY <1>1, <3>2, <4>2
      <4>4. QED BY <1>1, <3>2, <4>2, <4>3
    <3>5. \A i, j \in DOMAIN filled : i < j => filled[j] - filled[i] >= j - i
      <4> SUFFICES ASSUME NEW i \in DOMAIN filled, NEW j \in DOMAIN filled, i < j
                   PROVE  filled[j] - filled[i] >= j - i
        OBVIOUS
      <4> HIDE DEF filled
      <4>1. CASE j \in DOMAIN buffer
        <5>1. i \in DOMAIN buffer BY <1>2, <3>4, <4>1
        <5>2. QED BY <3>1, <3>4, <4>1, <5>1
      <4>2. CASE j \notin DOMAIN buffer
        <5>1. j = Len(buffer) + 1 /\ i \in DOMAIN buffer /\ Len(buffer) \in DOMAIN buffer BY <1>2, <3>4, <4>2
        <5>2. buffer[Len(buffer)] < b BY <3>3, <5>1
        <5>3. buffer[Len(buffer)] - buffer[i] >= Len(buffer) - i
          <6>1. CASE i = Len(buffer) BY <1>2, <5>1, <6>1
          <6>2. CASE i # Len(buffer) BY <1>2, <3>1, <5>1, <6>2
          <6>3. QED BY <6>1, <6>2
        <5>4. QED BY <1>2, <3>2, <3>4, <5>1, <5>2, <5>3
      <4>3. QED BY <4>1, <4>2
    <3>6. IF Len(filled) >= NBlocks THEN name' = filled /\ buffer' = <<>> ELSE buffer' = filled /\ name' = name
      BY <1>14, <2>3, <2>6 DEF HandleBlock, AllReceived
    <3>7. CASE Len(filled) >= NBlocks
      <4> HIDE DEF filled
      <4>1. Len(filled) = NBlocks BY <1>2, <3>1, <3>4, <3>7, LoadAssumption
      <4>2. \A i \in DOMAIN filled : filled[i] = i
        <5>1. /\ \A i \in 1 .. NBlocks : filled[i] \in 1 .. NBlocks
              /\ DOMAIN filled = 1 .. NBlocks /\ NBlocks \in Nat \ {0}
          BY <3>4, <4>1, LoadAssumption DEF Blocks
        <5>2. ASSUME NEW i \in 1 .. NBlocks PROVE filled[i] = i
          <6>1. filled[i] >= i
            <7>1. CASE i = 1 BY <5>1, <7>1
            <7>2. CASE i # 1
              <8>1. filled[i] - filled[1] >= i - 1
                <9>1. i \in DOMAIN filled /\ 1 \in DOMAIN filled /\ 1 < i BY <5>1, <7>2
                <9>2. QED BY <3>5, <9>1
              <8>2. QED BY <5>1, <8>1
            <7>3. QED BY <7>1, <7>2
          <6>2. filled[i] <= i
            <7>1. CASE i = NBlocks BY <5>1, <7>1
            <7>2. CASE i # NBlocks
              <8>1. filled[NBlocks] - filled[i] >= NBlocks - i
                <9>1. i \in DOMAIN filled /\ NBlocks \in DOMAIN filled /\ i < NBlocks BY <5>1, <7>2
                <9>2. QED BY <3>5, <9>1
              <8>2. QED BY <5>1, <8>1
            <7>3. QED BY <7>1, <7>2
          <6>3. QED BY <5>1, <6>1, <6>2
        <5>3. QED BY <5>1, <5>2
      <4>3. name' = RealName BY <3>4, <3>6, <3>7, <4>1, <4>2, CountedName
      <4>4. WholeNames' BY <2>1, <4>3, WholeStep DEF Rising
      <4>5. RealName # <<>> BY LoadAssumption DEF RealName, Blocks
      <4>6. QED BY <2>1, <2>3, <2>4, <4>3, <4>4, <4>5 DEF Rising
    <3>8. CASE ~(Len(filled) >= NBlocks)
      <4> HIDE DEF filled
      <4>1. name' = name /\ buffer' = filled BY <3>6, <3>8
      <4>2. WholeNames' BY <2>1, <2>6, <4>1, WholeStep DEF Rising
      <4>3. Len(filled) < NBlocks BY <1>2, <3>4, <3>8, LoadAssumption
      <4>4. \A i \in DOMAIN filled, j \in DOMAIN bus' : Block(bus', j) => filled[i] < bus'[j].block
        <5>1. ASSUME NEW i \in DOMAIN filled, NEW j \in DOMAIN bus', Block(bus', j)
              PROVE  filled[i] < bus'[j].block
          <6>1. CASE i \in DOMAIN buffer BY <2>4, <3>1, <3>4, <5>1, <6>1
          <6>2. CASE i \notin DOMAIN buffer
            <7>1. i = Len(buffer) + 1 BY <1>2, <3>4, <6>2
            <7>2. QED BY <2>4, <3>4, <5>1, <7>1
          <6>3. QED BY <6>1, <6>2
        <5>2. QED BY <5>1
      <4>5. QED BY <2>1, <2>3, <2>4, <3>5, <4>1, <4>2, <4>3, <4>4 DEF Rising
    <3>9. QED BY <3>7, <3>8
  <2>7. QED BY <2>5, <2>6
<1>15. CASE CacheWritten BY <1>15, RisingFrame DEF CacheWritten, module, LoadDone
<1>16. CASE LoseReply BY <1>16, RisingFrame DEF LoseReply, module, LoadDone
<1>17. CASE Restart BY <1>1, <1>17 DEF Restart, Rising
<1>18. CASE UNCHANGED lvars BY <1>18, RisingFrame DEF lvars, module, LoadDone
<1>19. QED
  BY <1>5, <1>6, <1>7, <1>8, <1>9, <1>10, <1>11, <1>12, <1>13, <1>14, <1>15, <1>16, <1>17, <1>18
     DEF LNext, Scan, Handle
-----------------------------------------------------------------------------
(* Every step of the program, the bus and the outside preserves the invariant. *)
LEMMA NextInv == LInv /\ [LNext]_lvars => LInv'
BY TypesStep, PhasesStep, WrittenStep, GrowingStep, CyclicStep, RisingStep DEF LInv

(* The invariant holds in every state of every execution. *)
THEOREM LoadInductive == LSpec => []LInv
<1>1. LInit => LInv BY InitInv
<1>2. LInv /\ [LNext]_lvars => LInv' BY NextInv
<1>3. QED BY <1>1, <1>2, PTL DEF LSpec

(* Module keeps its attributes, snapshots and replies within their kinds, and a
   file holds nothing but what to_cache() makes.                            *)
THEOREM LoadTypes == LSpec => [](StoreTypes /\ ObjectTypes /\ OtherTypes)
<1>1. LInv => StoreTypes /\ ObjectTypes /\ OtherTypes BY DEF LInv, Types
<1>2. QED BY <1>1, LoadInductive, PTL

(* However many tasks are inside _cache(), the writes land in the order of the
   snapshots: the file becomes the last one.                                *)
THEOREM LatestLands == LSpec => []FileIsLatest
<1>1. LInv => FileIsLatest BY DEF LInv, Types
<1>2. QED BY <1>1, LoadInductive, PTL

(* PacketHandler.scan() leaves a cache file for every module the first scan
   found, unless load() timed out.                                          *)
THEOREM FoundIsRepresented == LSpec => []Represented
<1>1. LInv => Represented
  BY DEF LInv, Types, FileIsLatest, WrittenInv, Represented
<1>2. QED BY <1>1, LoadInductive, PTL

(* _process_memory_data_block_message() sets _name to the whole name or not at all,
   within one scan whatever is lost, over several when nothing is.          *)
THEOREM NameIsWhole == LSpec => []NameWhole
<1>1. LInv => NameWhole
  BY DEF LInv, Cyclic, Rising, WholeNames, NameWhole
<1>2. QED BY <1>1, LoadInductive, PTL

(* No write of _cache() takes back what an earlier file said, over restarts,
   losses and timeouts of load().                                           *)
THEOREM FileKeeps == LSpec => Kept
<1>1. LInv /\ [LNext]_lvars => [scans' <= 1 /\ ~late => Retains(file, file')]_lvars
  BY KeptStep DEF LInv
<1>2. QED BY <1>1, LoadInductive, PTL DEF LSpec, Kept

=============================================================================
