---------------------------- MODULE BusScan_proofs ----------------------------
(***************************************************************************)
(* Proofs about BusScan, for any modules, sub-addresses and channels, and  *)
(* any number of frames lost.                                              *)
(*                                                                         *)
(* One scan walks the addresses at a time and leaves a module at every     *)
(* address behind it that had answered when it set out (Turns, Walk).  What *)
(* a module of the program knows of sub-addresses is so on the bus         *)
(* (Fitting).  And while no frame is lost or late, every module that was   *)
(* asked has its channels but the misplaced ones, or the message that      *)
(* cleans them up is on its way, before any other of that module           *)
(* (Orderly).                                                              *)
(***************************************************************************)
EXTENDS BusScan, FiniteSetTheorems, SequenceTheorems, WellFoundedInduction, TLAPS

Channels == UNION {Spec[m] : m \in Mains}
Dicts    == UNION {[K -> Int] : K \in SUBSET Int}
Modules  == [subs : Dicts, chans : SUBSET Channels, named : SUBSET Channels, loading : BOOLEAN,
             loaded : BOOLEAN, useCache : BOOLEAN]
Files    == {<<>>} \cup {<<d>> : d \in [subs : Dicts, chans : SUBSET Channels]}

TypeFrames == {TypeFrame(m) : m \in Mains}
SubFrames  == {SubFrame(m, o) : m \in {n \in Mains : DOMAIN Site[n] # {}}, o \in {0, 4}}
NameFrames == {NameFrame(m) : m \in Mains}
Frames     == TypeFrames \cup SubFrames \cup NameFrames

Known    == {"loading", "polling", "concluding"}
Walks    == {"visiting", "adding"} \cup Known
Scanning == {"draining", "sending", "sleeping"} \cup Walks

STypes ==
    /\ source \in {"bus", "vlp"} /\ pc \in [Scans -> {"off", "queued", "done"} \cup Scanning]
    /\ at \in [Scans -> Nat] /\ fullLock \in Seq(Scans) /\ found \subseteq Mains /\ due \subseteq Mains
    /\ DOMAIN mods \subseteq Mains /\ mods \in [DOMAIN mods -> Modules] /\ file \in [Mains -> Files]
    /\ bus \in Seq(Frames) /\ lost \in Nat /\ complete \in BOOLEAN

(* No sub-address that is known is the address of a module; over the bus the
   program knows none but those the module has.                              *)
Fits(d, m) ==
    /\ \A k \in DOMAIN d : d[k] \notin Mains
    /\ source = "bus" => \A k \in DOMAIN d : k \in Subs(m) /\ d[k] = Site[m][k]

Fitting == \A m \in Mains : /\ m \in DOMAIN mods => Fits(mods[m].subs, m)
                            /\ file[m] # <<>> => Fits(file[m][1].subs, m)

(* The scan that runs is the first in line, and the scan is not complete. *)
Turns == \A s \in Scans :
    /\ pc[s] \in Scanning => fullLock # <<>> /\ fullLock[1] = s /\ complete = FALSE
    /\ pc[s] = "queued" => \E i \in 1 .. Len(fullLock) : fullLock[i] = s

(* Behind it, all that had answered have their module. *)
Walk == \A s \in Scans :
    /\ pc[s] \in Walks => /\ at[s] >= 1 /\ at[s] <= MaxAddress + 1 /\ due \subseteq found
                          /\ \A a \in due : a < at[s] => a \in DOMAIN mods
    /\ pc[s] \in Walks \ {"visiting"} => at[s] \in Mains
    /\ pc[s] \in Known => at[s] \in DOMAIN mods

Calm == lost = 0 /\ ~late /\ source = "bus"

(* What cleanupSubChannels() leaves of the channels m has: all but the misplaced. *)
Kept(m) == Has[m] \ Misplaced(m)

(* The module is left with those channels, and will not lose one more. *)
Settled(m) == mods[m].chans = Kept(m) /\ (1 .. 3) \cap Subs(m) \subseteq DOMAIN mods[m].subs

SubOf(f, m) == f.kind = "sub" /\ f.from = m

(* It has all channels of its kind, and its first message is under way, before
   any other.                                                                *)
Expected(m) == /\ mods[m].chans = Spec[m]
               /\ \E i \in 1 .. Len(bus) : /\ bus[i] = SubFrame(m, 0) /\ DOMAIN Site[m] # {}
                                           /\ \A j \in 1 .. i - 1 : ~SubOf(bus[j], m)

Asked(m) == mods[m].chans # {} /\ m \notin cached /\ ~mods[m].loading

Behind(f, s) == f.kind = "sub" => f.from < at[s] \/ (f.from = at[s] /\ pc[s] \in {"polling", "concluding"})

Orderly ==
    /\ SubUnderWay => \E s \in Scans : pc[s] \in {"sending", "sleeping"} \cup Walks
    /\ \A s \in Scans : pc[s] \in Walks => \A i \in 1 .. Len(bus) : Behind(bus[i], s)
    /\ \A m \in DOMAIN mods : Asked(m) => Settled(m) \/ Expected(m)

SInv == STypes /\ Fitting /\ Turns /\ Walk /\ (Calm => Orderly)
-----------------------------------------------------------------------------
(* What the site's modules have are addresses of it, blocks and channels. *)
LEMMA SiteIs ==
    /\ MaxAddress \in Nat /\ Mains \subseteq 1 .. MaxAddress /\ Mains \subseteq Nat
    /\ \A m \in Mains : /\ Subs(m) \subseteq 1 .. 12
                        /\ \A k \in Subs(m) : Site[m][k] \in 1 .. 254 /\ Site[m][k] \notin Mains
                        /\ DOMAIN Site[m] = {} => Subs(m) = {}
                        /\ Spec[m] \subseteq Channels /\ \A c \in Spec[m] : c.block \in Nat
<1>1. MaxAddress \in Nat /\ Mains \subseteq 1 .. MaxAddress  BY ScanAssumption DEF Addresses
<1>2. \A m \in Mains : /\ Subs(m) \subseteq 1 .. 12
                       /\ \A k \in Subs(m) : Site[m][k] \in 1 .. 254 /\ Site[m][k] \notin Mains
                       /\ \A c \in Spec[m] : c.block \in Nat
    BY ScanAssumption DEF Subs
<1>3. \A m \in Mains : (DOMAIN Site[m] = {} => Subs(m) = {}) /\ Spec[m] \subseteq Channels
    BY DEF Subs, Channels
<1>4. QED  BY <1>1, <1>2, <1>3

(* Every frame comes from a module; one with sub-addresses tells them four at a time. *)
LEMMA FramesAre ==
    /\ \A m \in Mains : /\ TypeFrame(m) \in Frames /\ TypeFrame(m).kind = "type" /\ TypeFrame(m).from = m
                        /\ NameFrame(m) \in Frames /\ NameFrame(m).kind = "name" /\ NameFrame(m).from = m
                        /\ \A o \in {0, 4} : /\ SubFrame(m, o).kind = "sub" /\ SubFrame(m, o).from = m
                                             /\ DOMAIN Site[m] # {} => SubFrame(m, o) \in Frames
    /\ \A f \in Frames : /\ f.from \in Mains
                         /\ f.kind = "sub" => /\ DOMAIN Site[f.from] # {}
                                              /\ \E o \in {0, 4} : f = SubFrame(f.from, o) /\ f.offset = o
<1>1. ASSUME NEW m \in Mains
      PROVE  /\ TypeFrame(m) \in Frames /\ TypeFrame(m).kind = "type" /\ TypeFrame(m).from = m
             /\ NameFrame(m) \in Frames /\ NameFrame(m).kind = "name" /\ NameFrame(m).from = m
    BY DEF TypeFrame, NameFrame, Frames, TypeFrames, NameFrames
<1>2. ASSUME NEW m \in Mains, NEW o \in {0, 4}
      PROVE  /\ SubFrame(m, o).kind = "sub" /\ SubFrame(m, o).from = m /\ SubFrame(m, o).offset = o
             /\ DOMAIN Site[m] # {} => SubFrame(m, o) \in Frames
    <2>1. SubFrame(m, o).kind = "sub" /\ SubFrame(m, o).from = m /\ SubFrame(m, o).offset = o
        BY DEF SubFrame
    <2>2. DOMAIN Site[m] # {} => SubFrame(m, o) \in Frames  BY DEF Frames, SubFrames
    <2>3. QED  BY <2>1, <2>2
<1>3. ASSUME NEW f \in Frames
      PROVE  /\ f.from \in Mains
             /\ f.kind = "sub" => /\ DOMAIN Site[f.from] # {}
                                  /\ \E o \in {0, 4} : f = SubFrame(f.from, o) /\ f.offset = o
    <2>1. CASE f \in TypeFrames
        <3>1. PICK m \in Mains : f = TypeFrame(m)  BY <2>1 DEF TypeFrames
        <3>2. QED  BY <1>1, <3>1
    <2>2. CASE f \in NameFrames
        <3>1. PICK m \in Mains : f = NameFrame(m)  BY <2>2 DEF NameFrames
        <3>2. QED  BY <1>1, <3>1
    <2>3. CASE f \in SubFrames
        <3>1. PICK m \in Mains, o \in {0, 4} : f = SubFrame(m, o) /\ DOMAIN Site[m] # {}  BY <2>3 DEF SubFrames
        <3>2. QED  BY <1>2, <3>1
    <2>4. QED  BY <2>1, <2>2, <2>3 DEF Frames
<1>4. QED  BY <1>1, <1>2, <1>3

(* Taking over the entries of another dictionary. *)
LEMMA UpdatedIs ==
    ASSUME NEW d \in Dicts, NEW e \in Dicts, NEW m, Fits(d, m), Fits(e, m)
    PROVE  /\ Updated(d, e) \in Dicts /\ DOMAIN Updated(d, e) = DOMAIN d \cup DOMAIN e
           /\ Fits(Updated(d, e), m)
<1>1. PICK D \in SUBSET Int : d \in [D -> Int]  BY DEF Dicts
<1>2. PICK E \in SUBSET Int : e \in [E -> Int]  BY DEF Dicts
<1>3. D \cup E \in SUBSET Int /\ Updated(d, e) \in [D \cup E -> Int]  BY <1>1, <1>2 DEF Updated
<1>4. Updated(d, e) \in Dicts  BY <1>3 DEF Dicts
<1>5. Fits(Updated(d, e), m)  BY DEF Fits, Updated
<1>6. QED  BY <1>4, <1>5 DEF Updated

(* A module is found by its own address only as long as no sub-address is one. *)
LEMMA GetModuleIs ==
    ASSUME STypes, Fitting, NEW x \in Mains
    PROVE  /\ x \in DOMAIN mods => GetModule(x) = {x} /\ (CHOOSE m \in GetModule(x) : TRUE) = x
           /\ x \notin DOMAIN mods => GetModule(x) = {}
<1>1. CASE x \in DOMAIN mods  BY <1>1 DEF GetModule
<1>2. CASE x \notin DOMAIN mods
    <2>1. \A m \in DOMAIN mods : \A k \in DOMAIN mods[m].subs : mods[m].subs[k] # x
        BY DEF STypes, Fitting, Fits
    <2>2. QED  BY <1>2, <2>1 DEF GetModule
<1>3. QED  BY <1>1, <1>2

(* A module answers with its type, and then, if it is of a kind with
   sub-addresses, with these, the first four first.                          *)
LEMMA AnswerIs ==
    ASSUME NEW m \in Mains
    PROVE  /\ TypeAnswer(m) \in Seq(Frames) /\ Len(TypeAnswer(m)) >= 1 /\ TypeAnswer(m)[1] = TypeFrame(m)
           /\ \A i \in 1 .. Len(TypeAnswer(m)) : TypeAnswer(m)[i].from = m
           /\ DOMAIN Site[m] = {} => Len(TypeAnswer(m)) = 1
           /\ DOMAIN Site[m] # {} => Len(TypeAnswer(m)) >= 2 /\ TypeAnswer(m)[2] = SubFrame(m, 0)
<1> DEFINE t == TypeFrame(m)
           a == SubFrame(m, 0)
           b == SubFrame(m, 4)
<1>1. t \in Frames /\ t.from = m /\ a.from = m /\ b.from = m
    BY FramesAre
<1>2. DOMAIN Site[m] # {} => a \in Frames /\ b \in Frames  BY FramesAre
<1>3. TypeAnswer(m) = <<t>> \o (IF DOMAIN Site[m] = {} THEN <<>>
                                ELSE IF \E k \in DOMAIN Site[m] : k > 4 THEN <<a, b>> ELSE <<a>>)
    BY DEF TypeAnswer
<1> HIDE DEF t, a, b
<1>4. CASE DOMAIN Site[m] = {}
    <2>1. TypeAnswer(m) = <<t>>  BY <1>3, <1>4
    <2>2. QED  BY <1>1, <1>4, <2>1 DEF t
<1>5. CASE DOMAIN Site[m] # {}
    <2>1. CASE \E k \in DOMAIN Site[m] : k > 4
        <3>1. TypeAnswer(m) = <<t>> \o <<a, b>>  BY <1>3, <1>5, <2>1
        <3>2. <<t>> \in Seq(Frames) /\ <<a, b>> \in Seq(Frames)  BY <1>1, <1>2, <1>5
        <3>3. TypeAnswer(m) \in Seq(Frames) /\ Len(TypeAnswer(m)) = 3  BY <3>1, <3>2
        <3>4. TypeAnswer(m)[1] = t /\ TypeAnswer(m)[2] = a /\ TypeAnswer(m)[3] = b  BY <3>1, <3>2
        <3>5. QED  BY <1>1, <1>5, <3>3, <3>4 DEF t, a
    <2>2. CASE ~\E k \in DOMAIN Site[m] : k > 4
        <3>1. TypeAnswer(m) = <<t>> \o <<a>>  BY <1>3, <1>5, <2>2
        <3>2. <<t>> \in Seq(Frames) /\ <<a>> \in Seq(Frames)  BY <1>1, <1>2, <1>5
        <3>3. TypeAnswer(m) \in Seq(Frames) /\ Len(TypeAnswer(m)) = 2  BY <3>1, <3>2
        <3>4. TypeAnswer(m)[1] = t /\ TypeAnswer(m)[2] = a  BY <3>1, <3>2
        <3>5. QED  BY <1>1, <1>5, <3>3, <3>4 DEF t, a
    <2>3. QED  BY <2>1, <2>2
<1>6. QED  BY <1>4, <1>5
-----------------------------------------------------------------------------
(* A set of natural numbers has a least one: what is inherited along them can be
   proved from it.                                                           *)
LEMMA Least ==
    ASSUME NEW T \in SUBSET Nat, T # {}
    PROVE  \E n \in T : \A m \in T : n <= m
<1> DEFINE D == {1 .. n : n \in T}
           R == StrictSubsetOrdering(Nat)
           F == FiniteSubsetsOf(Nat)
<1>1. IsWellFoundedOn(R, F)  BY FS_StrictSubsetOrderingWellFounded
<1>2. D \subseteq F
    <2>1. ASSUME NEW n \in T PROVE IsFiniteSet(1 .. n) /\ 1 .. n \subseteq Nat
        <3>1. 1 \in Int /\ n \in Int  OBVIOUS
        <3>2. IsFiniteSet(1 .. n)  BY <3>1, FS_Interval, Zenon
        <3>3. QED  BY <3>2
    <2>2. QED  BY <2>1 DEF FiniteSubsetsOf
<1>3. D # {}  OBVIOUS
<1>4. PICK X \in D : \A Y \in D : <<Y, X>> \notin R
    <2> HIDE DEF D, R, F
    <2>1. QED  BY <1>1, <1>2, <1>3, WFMin
<1>5. PICK n \in T : X = 1 .. n  OBVIOUS
<1>6. ASSUME NEW m \in T, ~(n <= m) PROVE FALSE
    <2>1. 1 .. m \in D  OBVIOUS
    <2>2. 1 .. m \subseteq 1 .. n /\ n \in 1 .. n /\ n \notin 1 .. m  BY <1>6
    <2>3. <<1 .. m, X>> \in R  BY <1>5, <2>2 DEF StrictSubsetOrdering
    <2>4. QED  BY <1>4, <2>1, <2>3
<1>7. QED  BY <1>6

(* Sequences of frames, one after the other, are a sequence of frames. *)
LEMMA FlattenIs ==
    ASSUME NEW S, NEW s \in Seq(Seq(S))
    PROVE  FlattenSeq(s) \in Seq(S)
<1> DEFINE n == Len(s)
           Chain(f, k) == \A i \in 1 .. k : f[i] = IF i = 1 THEN s[i] ELSE f[i - 1] \o s[i]
           g == CHOOSE f : f = [i \in 1 .. n |-> IF i = 1 THEN s[i] ELSE f[i - 1] \o s[i]]
           Bad == {k \in 1 .. n : ~ \E f \in [1 .. k -> Seq(S)] : Chain(f, k)}
<1>1. n \in Nat /\ \A i \in 1 .. n : s[i] \in Seq(S)  OBVIOUS
<1>2. ASSUME n # 0 PROVE FlattenSeq(s) = g[n]  BY <1>2 DEF FlattenSeq
<1>3. ASSUME n = 0 PROVE FlattenSeq(s) \in Seq(S)
    <2>1. FlattenSeq(s) = s /\ s = <<>>  BY <1>3, EmptySeq DEF FlattenSeq
    <2>2. QED  BY <2>1
<1>4. ASSUME n # 0 PROVE g[n] \in Seq(S)
    <2>1. Bad = {}
        <3> SUFFICES ASSUME Bad # {} PROVE FALSE  OBVIOUS
        <3>1. PICK k \in Bad : \A m \in Bad : k <= m
            <4>1. Bad \in SUBSET Nat  OBVIOUS
            <4> HIDE DEF Bad
            <4>2. QED  BY <4>1, Least
        <3>2. k \in 1 .. n /\ ~ \E f \in [1 .. k -> Seq(S)] : Chain(f, k)  OBVIOUS
        <3>3. CASE k = 1
            <4>1. [i \in 1 .. k |-> s[i]] \in [1 .. k -> Seq(S)]  BY <1>1, <3>2
            <4>2. Chain([i \in 1 .. k |-> s[i]], k)  BY <3>3
            <4>3. QED  BY <3>2, <4>1, <4>2
        <3>4. CASE k # 1
            <4>1. k - 1 \in 1 .. n /\ k - 1 \notin Bad
                <5> HIDE DEF Bad, n, Chain
                <5>1. k - 1 \in 1 .. n /\ ~(k <= k - 1)  BY <1>1, <3>2, <3>4
                <5>2. QED  BY <3>1, <5>1
            <4>2. PICK f \in [1 .. k - 1 -> Seq(S)] : Chain(f, k - 1)  BY <4>1
            <4> DEFINE h == [i \in 1 .. k |-> IF i = k THEN f[k - 1] \o s[k] ELSE f[i]]
            <4>3. f[k - 1] \in Seq(S) /\ s[k] \in Seq(S) /\ f[k - 1] \o s[k] \in Seq(S)
                <5>1. k - 1 \in 1 .. k - 1  BY <4>1
                <5>2. f[k - 1] \in Seq(S)  BY <5>1
                <5>3. QED  BY <1>1, <3>2, <5>2
            <4>4. h \in [1 .. k -> Seq(S)]
                <5>1. \A i \in 1 .. k : i # k => i \in 1 .. k - 1  BY <3>2
                <5>2. \A i \in 1 .. k : i # k => f[i] \in Seq(S)  BY <5>1
                <5>3. QED  BY <4>3, <5>2
            <4>5. ASSUME NEW i \in 1 .. k PROVE h[i] = IF i = 1 THEN s[i] ELSE h[i - 1] \o s[i]
                <5>1. CASE i = k
                    <6>1. k - 1 \in 1 .. k /\ k - 1 # k  BY <3>2, <3>4
                    <6>2. h[k - 1] = f[k - 1]  BY <6>1
                    <6>3. QED  BY <3>4, <5>1, <6>2
                <5>2. CASE i # k
                    <6>1. i \in 1 .. k - 1  BY <3>2, <5>2
                    <6>2. h[i] = f[i] /\ f[i] = IF i = 1 THEN s[i] ELSE f[i - 1] \o s[i]  BY <4>2, <5>2, <6>1
                    <6>3. i # 1 => i - 1 \in 1 .. k /\ i - 1 # k  BY <3>2, <6>1
                    <6>4. i # 1 => h[i - 1] = f[i - 1]  BY <6>3
                    <6>5. QED  BY <6>2, <6>4
                <5>3. QED  BY <5>1, <5>2
            <4>6. Chain(h, k)  BY <4>5
            <4> HIDE DEF h, Chain
            <4>7. QED  BY <3>2, <4>4, <4>6
        <3>5. QED  BY <3>3, <3>4
    <2>2. PICK f \in [1 .. n -> Seq(S)] : Chain(f, n)
        <3>1. n \in 1 .. n /\ n \notin Bad
            <4> HIDE DEF Bad, n, Chain
            <4>1. QED  BY <1>1, <1>4, <2>1
        <3>2. QED  BY <3>1
    <2>3. f = [i \in 1 .. n |-> IF i = 1 THEN s[i] ELSE f[i - 1] \o s[i]]
        <3>1. \A i \in 1 .. n : f[i] = IF i = 1 THEN s[i] ELSE f[i - 1] \o s[i]  BY <2>2
        <3> HIDE DEF n
        <3>2. QED  BY <3>1
    <2>4. g = [i \in 1 .. n |-> IF i = 1 THEN s[i] ELSE g[i - 1] \o s[i]]
        <3> HIDE DEF n, Bad, Chain
        <3>1. QED  BY <2>3, Zenon
    <2>5. \A i \in 1 .. n : g[i] = IF i = 1 THEN s[i] ELSE g[i - 1] \o s[i]
        <3> HIDE DEF n, Bad, Chain, g
        <3>1. QED  BY <2>4
    <2> DEFINE Odd == {i \in 1 .. n : g[i] \notin Seq(S)}
    <2>6. Odd = {}
        <3> SUFFICES ASSUME Odd # {} PROVE FALSE  OBVIOUS
        <3> HIDE DEF g
        <3>1. Odd \in SUBSET Nat  OBVIOUS
        <3>2. PICK k \in Odd : \A m \in Odd : k <= m
            <4> HIDE DEF Odd
            <4>1. QED  BY <3>1, Least
        <3>3. k \in 1 .. n /\ g[k] \notin Seq(S) /\ s[k] \in Seq(S)  BY <1>1
        <3>4. k # 1  BY <2>5, <3>3
        <3>5. k - 1 \in 1 .. n /\ k - 1 \notin Odd  BY <1>1, <3>2, <3>3, <3>4
        <3>6. g[k - 1] \in Seq(S)  BY <3>5
        <3>7. g[k] = g[k - 1] \o s[k]  BY <2>5, <3>3, <3>4
        <3>8. QED  BY <3>3, <3>6, <3>7
    <2>7. n \in 1 .. n  BY <1>1, <1>4
    <2>8. QED
        <3> HIDE DEF g
        <3>1. QED  BY <2>6, <2>7
<1>5. QED  BY <1>2, <1>3, <1>4
-----------------------------------------------------------------------------
(* q is what add_submodules() makes of r with one message of module m. *)
Cleans(q, r, m, o) ==
    /\ q \in Modules /\ Fits(q.subs, m) /\ q.loading = r.loading
    /\ DOMAIN q.subs = DOMAIN r.subs \cup (Subs(m) \cap (o + 1 .. o + 4))
    /\ q.chans = {c \in r.chans : c.temperature \/ c.block \notin (1 .. 3) \ DOMAIN q.subs}

(* A subtype message registers sub-addresses of its module and cleans up the
   channels of the blocks it has none for.                                   *)
LEMMA AddIs ==
    ASSUME NEW m \in Mains, DOMAIN Site[m] # {}, NEW o \in {0, 4}, NEW r \in Modules, Fits(r.subs, m),
           NEW q, q = AddSubmodules(r, o, SubFrame(m, o).subs)
    PROVE  Cleans(q, r, m, o)
<1> DEFINE f == SubFrame(m, o).subs
           told == {k \in o + 1 .. o + 4 : f[k - o] # NoSub}
           new == [k \in told |-> f[k - o]]
           r1 == [r EXCEPT !.subs = Updated(@, new)]
<1>1. f = [k \in 1 .. 4 |-> IF o + k \in Subs(m) THEN Site[m][o + k] ELSE NoSub]  BY DEF SubFrame
<1>2. o \in Int  OBVIOUS
<1>3. \A k \in o + 1 .. o + 4 : f[k - o] = IF k \in Subs(m) THEN Site[m][k] ELSE NoSub
    <2>1. \A k \in o + 1 .. o + 4 : k - o \in 1 .. 4 /\ o + (k - o) = k  BY <1>2
    <2>2. QED  BY <1>1, <2>1
<1> HIDE DEF f
<1>4. \A k \in Subs(m) : Site[m][k] # NoSub /\ Site[m][k] \in Int /\ Site[m][k] \notin Mains
    <2> HIDE DEF told, new, r1
    <2>1. ASSUME NEW k \in Subs(m) PROVE Site[m][k] \in 1 .. 254 /\ Site[m][k] \notin Mains
        BY SiteIs, Zenon
    <2>2. \A x \in 1 .. 254 : x # NoSub /\ x \in Int  BY DEF NoSub
    <2>3. QED  BY <2>1, <2>2, Zenon
<1>5. told = Subs(m) \cap (o + 1 .. o + 4) /\ \A k \in told : new[k] = Site[m][k]
    BY <1>3, <1>4
<1>6. told \in SUBSET Int /\ DOMAIN new = told /\ \A k \in told : new[k] \in Int /\ new[k] = Site[m][k] /\ k \in Subs(m)
    BY <1>2, <1>4, <1>5
<1>7. new \in Dicts
    <2>1. new \in [told -> Int]  BY <1>6
    <2>2. QED  BY <1>6, <2>1 DEF Dicts
<1>8. Fits(new, m)  BY <1>4, <1>6 DEF Fits
<1> HIDE DEF new, told
<1>9. r.subs \in Dicts /\ r1 = [r EXCEPT !.subs = Updated(r.subs, new)]  BY DEF Modules
<1>10. /\ Updated(r.subs, new) \in Dicts /\ Fits(Updated(r.subs, new), m)
       /\ DOMAIN Updated(r.subs, new) = DOMAIN r.subs \cup told
    BY <1>6, <1>7, <1>8, <1>9, UpdatedIs
<1>11. /\ r1 \in Modules /\ r1.subs = Updated(r.subs, new) /\ r1.chans = r.chans /\ r1.loading = r.loading
    BY <1>9, <1>10 DEF Modules
<1>12. q = CleanedUp(r1)  BY DEF AddSubmodules, f, told, new
<1> HIDE DEF r1
<1>13. q = [r1 EXCEPT !.chans = {c \in r1.chans : c.temperature \/ c.block \notin (1 .. 3) \ DOMAIN r1.subs}]
    BY <1>11, <1>12 DEF CleanedUp, Modules
<1>14. /\ q.subs = r1.subs /\ q.loading = r1.loading
       /\ q.chans = {c \in r1.chans : c.temperature \/ c.block \notin (1 .. 3) \ DOMAIN r1.subs}
    BY <1>11, <1>13 DEF Modules
<1>15. q \in Modules
    <2>1. {c \in r1.chans : c.temperature \/ c.block \notin (1 .. 3) \ DOMAIN r1.subs} \in SUBSET Channels
        BY <1>11 DEF Modules
    <2>2. QED  BY <1>11, <1>13, <2>1 DEF Modules
<1>16. QED  BY <1>5, <1>10, <1>11, <1>14, <1>15 DEF Cleans

(* They are those of its kind that the code does not delete: what a module lacks
   is in a block it has no sub-address for.                                  *)
LEMMA KeptIs ==
    ASSUME NEW m \in Mains
    PROVE  /\ Kept(m) = {c \in Spec[m] : \/ DOMAIN Site[m] = {} \/ c.temperature
                                         \/ c.block \notin (1 .. 3) \ Subs(m)}
           /\ Kept(m) \subseteq Has[m] /\ Has[m] \ Kept(m) \subseteq Misplaced(m)
<1>1. /\ Has[m] \subseteq Spec[m]
      /\ \A c \in Spec[m] \ Has[m] : DOMAIN Site[m] # {} /\ ~c.temperature /\ c.block \in (1 .. 3) \ Subs(m)
    BY ScanAssumption
<1>2. QED  BY <1>1 DEF Kept, Misplaced

(* Over the bus the first message leaves a module with those channels, and no
   other message takes one away.                                             *)
LEMMA CleansRight ==
    ASSUME NEW m \in Mains, DOMAIN Site[m] # {}, source = "bus", NEW o \in {0, 4}, NEW r \in Modules,
           Fits(r.subs, m), NEW q, q = AddSubmodules(r, o, SubFrame(m, o).subs),
           \/ o = 0 /\ r.chans = Spec[m]
           \/ r.chans = Kept(m) /\ (1 .. 3) \cap Subs(m) \subseteq DOMAIN r.subs
    PROVE  q.chans = Kept(m) /\ (1 .. 3) \cap Subs(m) \subseteq DOMAIN q.subs
<1>1. Cleans(q, r, m, o)  BY AddIs
<1>2. /\ Fits(q.subs, m) /\ DOMAIN q.subs = DOMAIN r.subs \cup (Subs(m) \cap (o + 1 .. o + 4))
      /\ q.chans = {c \in r.chans : c.temperature \/ c.block \notin (1 .. 3) \ DOMAIN q.subs}
    BY <1>1 DEF Cleans
<1>3. DOMAIN q.subs \subseteq Subs(m)  BY <1>2 DEF Fits
<1>4. (1 .. 3) \cap Subs(m) \subseteq DOMAIN q.subs
    <2>1. CASE o = 0
        <3>1. 1 .. 3 \subseteq o + 1 .. o + 4  BY <2>1
        <3>2. QED  BY <1>2, <3>1
    <2>2. CASE o # 0  BY <1>2, <2>2
    <2>3. QED  BY <2>1, <2>2
<1>5. (1 .. 3) \ DOMAIN q.subs = (1 .. 3) \ Subs(m)  BY <1>3, <1>4
<1>6. Kept(m) = {c \in Spec[m] : c.temperature \/ c.block \notin (1 .. 3) \ Subs(m)}
    BY KeptIs
<1>7. QED  BY <1>2, <1>4, <1>5, <1>6
-----------------------------------------------------------------------------
(* One scan runs at a time. *)
LEMMA OneScans ==
    ASSUME Turns, NEW s \in Scans, NEW t \in Scans, pc[s] \in Scanning, pc[t] \in Scanning
    PROVE  s = t
BY DEF Turns

(* A scan that walks over the addresses is one that scans. *)
LEMMA WalksScan == Walks \subseteq Scanning /\ Known \subseteq Walks
BY DEF Scanning, Walks, Known

(* The scan that runs goes on. *)
LEMMA TurnsGoOn ==
    ASSUME STypes, Turns, NEW s \in Scans, pc[s] \in Scanning, NEW x \in Scanning,
           pc' = [pc EXCEPT ![s] = x], UNCHANGED <<fullLock, complete>>
    PROVE  Turns' /\ pc' \in [Scans -> {"off", "queued", "done"} \cup Scanning]
<1>1. pc \in [Scans -> {"off", "queued", "done"} \cup Scanning]  BY DEF STypes
<1>2. \A t \in Scans : pc'[t] = IF t = s THEN x ELSE pc[t]  BY <1>1
<1>3. x # "queued"  BY DEF Scanning, Walks, Known
<1>4. QED  BY <1>1, <1>2, <1>3 DEF Turns

(* A scan that has not begun to ask waits its turn. *)
LEMMA OrderlyOutside ==
    ASSUME STypes, Orderly, NEW s \in Scans, NEW x, pc' = [pc EXCEPT ![s] = x],
           pc[s] \notin {"sending", "sleeping"} \cup Walks, x \notin {"sending", "sleeping"} \cup Walks,
           UNCHANGED <<at, bus, mods, cached>>
    PROVE  Orderly'
<1>1. \A t \in Scans : pc'[t] = IF t = s THEN x ELSE pc[t]  BY DEF STypes
<1>2. SubUnderWay' => \E t \in Scans : pc'[t] \in {"sending", "sleeping"} \cup Walks
    BY <1>1 DEF Orderly, SubUnderWay
<1>3. \A t \in Scans : pc'[t] \in Walks => pc[t] = pc'[t]  BY <1>1
<1>4. \A t \in Scans : pc'[t] \in Walks => (\A i \in 1 .. Len(bus) : Behind(bus[i], t))'
    BY <1>3 DEF Orderly, Behind
<1>5. \A m \in DOMAIN mods : Asked(m)' => Settled(m)' \/ Expected(m)'
    BY DEF Orderly, Asked, Settled, Expected
<1>6. QED  BY <1>2, <1>4, <1>5 DEF Orderly

(* The scan that runs goes on, and nothing happens to the modules that are asked. *)
LEMMA OrderlyOn ==
    ASSUME STypes, Turns, Orderly, NEW s \in Scans, pc[s] \in Walks, NEW x \in Walks,
           pc' = [pc EXCEPT ![s] = x], at[s] \in Nat, at'[s] \in Nat,
           \/ at'[s] > at[s]
           \/ at'[s] = at[s] /\ (pc[s] \in {"polling", "concluding"} => x \in {"polling", "concluding"}),
           UNCHANGED bus,
           \A m \in DOMAIN mods' : Asked(m)' => /\ m \in DOMAIN mods /\ Asked(m) /\ mods'[m].chans = mods[m].chans
                                                /\ mods'[m].subs = mods[m].subs
    PROVE  Orderly'
<1>1. \A t \in Scans : pc'[t] = IF t = s THEN x ELSE pc[t]  BY DEF STypes
<1>2. \E t \in Scans : pc'[t] \in {"sending", "sleeping"} \cup Walks  BY <1>1
<1>3. \A t \in Scans : pc'[t] \in Walks => t = s  BY <1>1, OneScans, WalksScan
<1>4. ASSUME NEW i \in 1 .. Len(bus) PROVE Behind(bus[i], s)'
    <2>1. Behind(bus[i], s)  BY DEF Orderly
    <2>2. ASSUME bus[i].kind = "sub" PROVE bus[i].from \in Nat
        <3>1. bus[i] \in Frames  BY DEF STypes
        <3>2. QED  BY <3>1, FramesAre, SiteIs
    <2>3. pc'[s] = x  BY <1>1
    <2>4. QED  BY <2>1, <2>2, <2>3 DEF Behind
<1>5. \A t \in Scans : pc'[t] \in Walks => (\A i \in 1 .. Len(bus) : Behind(bus[i], t))'
    BY <1>3, <1>4
<1>6. ASSUME NEW m \in DOMAIN mods', Asked(m)' PROVE Settled(m)' \/ Expected(m)'
    <2>1. Settled(m) \/ Expected(m)  BY <1>6 DEF Orderly
    <2>2. QED  BY <1>6, <2>1 DEF Settled, Expected
<1>7. QED  BY <1>2, <1>5, <1>6 DEF Orderly

(* A frame that is not of sub-addresses is taken, or none is. *)
LEMMA OrderlyTaken ==
    ASSUME STypes, Orderly, UNCHANGED <<pc, at, cached>>,
           bus' = bus \/ (bus # <<>> /\ Head(bus).kind # "sub" /\ bus' = Tail(bus)),
           DOMAIN mods' = DOMAIN mods,
           \A m \in DOMAIN mods : /\ mods'[m].chans = mods[m].chans /\ mods'[m].subs = mods[m].subs
                                  /\ mods'[m].loading = mods[m].loading
    PROVE  Orderly'
<1>1. bus \in Seq(Frames)  BY DEF STypes
<1>2. PICK d \in {0, 1} : /\ d = 1 => bus # <<>> /\ bus[1].kind # "sub"
                          /\ Len(bus') = Len(bus) - d /\ \A i \in 1 .. Len(bus') : bus'[i] = bus[i + d]
    <2>1. CASE bus' = bus  BY <1>1, <2>1
    <2>2. CASE bus # <<>> /\ Head(bus).kind # "sub" /\ bus' = Tail(bus)
        <3>1. Len(bus') = Len(bus) - 1 /\ \A i \in 1 .. Len(bus') : bus'[i] = bus[i + 1]  BY <1>1, <2>2
        <3>2. bus[1].kind # "sub"  BY <1>1, <2>2
        <3>3. 1 \in {0, 1} /\ (1 = 1 => bus # <<>> /\ bus[1].kind # "sub")  BY <2>2, <3>2
        <3>4. QED  BY <3>1, <3>3
    <2>3. QED  BY <2>1, <2>2
<1>3. Len(bus) \in Nat /\ Len(bus') \in Nat /\ DOMAIN bus = 1 .. Len(bus) /\ DOMAIN bus' = 1 .. Len(bus')
    <2>1. bus' \in Seq(Frames)  BY <1>1
    <2>2. QED  BY <1>1, <2>1
<1>4. \A i \in 1 .. Len(bus') : i + d \in 1 .. Len(bus)  BY <1>2, <1>3
<1>5. SubUnderWay' => SubUnderWay  BY <1>2, <1>3, <1>4 DEF SubUnderWay
<1>6. \A t \in Scans : pc'[t] \in Walks => (\A i \in 1 .. Len(bus) : Behind(bus[i], t))'
    BY SMTT(30), <1>2, <1>3, <1>4 DEF Orderly, Behind
<1>7. ASSUME NEW m \in DOMAIN mods', Asked(m)' PROVE Settled(m)' \/ Expected(m)'
    <2>1. Settled(m) \/ Expected(m)  BY <1>7 DEF Orderly, Asked
    <2>2. Settled(m) => Settled(m)'  BY <1>7 DEF Settled
    <2>3. ASSUME Expected(m) PROVE Expected(m)'
        <3>1. PICK i \in 1 .. Len(bus) : /\ bus[i] = SubFrame(m, 0) /\ DOMAIN Site[m] # {}
                                         /\ \A j \in 1 .. i - 1 : ~SubOf(bus[j], m)
            BY <2>3 DEF Expected
        <3>2. m \in Mains  BY <1>7 DEF STypes
        <3>3. bus[i].kind = "sub"  BY <3>1, <3>2, FramesAre
        <3>4. i - d \in 1 .. Len(bus') /\ bus'[i - d] = bus[i]
            <4>1. d = 1 => i # 1  BY <1>2, <3>3
            <4>2. i - d \in 1 .. Len(bus') /\ (i - d) + d = i  BY <1>2, <1>3, <4>1
            <4>3. QED  BY <1>2, <4>2
        <3>5. ASSUME NEW j \in 1 .. (i - d) - 1 PROVE ~SubOf(bus'[j], m)
            <4>1. i \in Int /\ d \in Int /\ d >= 0 /\ Len(bus') \in Int
                <5>1. i \in Int /\ Len(bus') \in Int
                    <6>1. i \in Int  OBVIOUS
                    <6>2. Len(bus') \in Nat  BY <1>3
                    <6>3. QED  BY <6>1, <6>2
                <5>2. d = 0 \/ d = 1  OBVIOUS
                <5>3. d \in Int /\ d >= 0  BY <5>2
                <5>4. QED  BY <5>1, <5>3
            <4>2. j \in Int /\ j >= 1 /\ j < i - d /\ i - d <= Len(bus')  BY <3>4, <4>1
            <4>3. j \in 1 .. Len(bus') /\ j + d \in 1 .. i - 1  BY <4>1, <4>2
            <4>4. QED  BY <1>2, <3>1, <4>3
        <3>6. QED  BY <1>7, <2>3, <3>1, <3>4, <3>5 DEF Expected
    <2>4. QED  BY <2>1, <2>2, <2>3
<1>8. QED  BY <1>5, <1>6, <1>7 DEF Orderly
-----------------------------------------------------------------------------
(* A scan is asked for. *)
LEMMA AskStep ==
    ASSUME SInv, NEW s \in Scans, Ask(s)
    PROVE  SInv'
<1>1. STypes /\ Fitting /\ Turns /\ Walk /\ (Calm => Orderly)  BY DEF SInv
<1>2. /\ pc[s] = "off" /\ fullLock' = Append(fullLock, s)
      /\ UNCHANGED <<at, found, due, mods, file, bus, cached, source, lost, late>>
    BY DEF Ask, world
<1>3. fullLock \in Seq(Scans) /\ pc \in [Scans -> {"off", "queued", "done"} \cup Scanning]  BY <1>1 DEF STypes
<1>4. /\ fullLock' \in Seq(Scans) /\ Len(fullLock') = Len(fullLock) + 1 /\ Len(fullLock) \in Nat
      /\ fullLock'[Len(fullLock) + 1] = s /\ \A i \in 1 .. Len(fullLock) : fullLock'[i] = fullLock[i]
      /\ fullLock' # <<>>
    BY <1>2, <1>3
<1>5. CASE fullLock = <<>>
    <2>1. pc' = [pc EXCEPT ![s] = "draining"] /\ complete' = FALSE  BY <1>5 DEF Ask
    <2>2. \A t \in Scans : pc[t] \notin Scanning /\ pc[t] # "queued"
        <3>1. Len(fullLock) = 0  BY <1>5
        <3>2. QED  BY <1>1, <1>5, <3>1 DEF Turns
    <2>3. \A t \in Scans : pc'[t] = IF t = s THEN "draining" ELSE pc[t]  BY <1>3, <2>1
    <2>4. Turns'
        <3>1. fullLock'[1] = s  BY <1>4, <1>5
        <3>2. QED  BY <1>4, <2>1, <2>2, <2>3, <3>1 DEF Turns
    <2>5. "draining" \in Scanning /\ "draining" \notin {"sending", "sleeping"} \cup Walks /\ "draining" \notin Known
        BY DEF Scanning, Walks, Known
    <2>6. pc' \in [Scans -> {"off", "queued", "done"} \cup Scanning]  BY <1>3, <2>1, <2>5
    <2>7. STypes'  BY <1>1, <1>2, <1>4, <2>1, <2>6 DEF STypes
    <2>8. Walk'  BY <1>1, <1>2, <2>3, <2>5 DEF Walk
    <2>9. pc[s] \notin {"sending", "sleeping"} \cup Walks  BY <1>2 DEF Walks, Known
    <2>10. Calm' => Orderly'  BY <1>1, <1>2, <2>1, <2>5, <2>9, OrderlyOutside DEF Calm
    <2>11. Fitting'  BY <1>1, <1>2 DEF Fitting, Fits
    <2>12. QED  BY <2>4, <2>7, <2>8, <2>10, <2>11 DEF SInv
<1>6. CASE fullLock # <<>>
    <2>1. pc' = [pc EXCEPT ![s] = "queued"] /\ complete' = complete  BY <1>6 DEF Ask
    <2>2. \A t \in Scans : pc'[t] = IF t = s THEN "queued" ELSE pc[t]  BY <1>3, <2>1
    <2>3. "queued" \notin Scanning /\ "queued" \notin {"sending", "sleeping"} \cup Walks /\ "queued" \notin Known
        BY DEF Scanning, Walks, Known
    <2>4. Turns'
        <3>1. 1 \in 1 .. Len(fullLock)  BY <1>3, <1>6
        <3>2. fullLock'[1] = fullLock[1]  BY <1>4, <3>1
        <3>3. ASSUME NEW t \in Scans, pc'[t] = "queued" PROVE \E i \in 1 .. Len(fullLock') : fullLock'[i] = t
            <4>1. CASE t = s
                <5>1. Len(fullLock) + 1 \in 1 .. Len(fullLock')  BY <1>4
                <5>2. QED  BY <1>4, <4>1, <5>1
            <4>2. CASE t # s
                <5>1. PICK i \in 1 .. Len(fullLock) : fullLock[i] = t  BY <1>1, <2>2, <3>3, <4>2 DEF Turns
                <5>2. i \in 1 .. Len(fullLock') /\ fullLock'[i] = t  BY <1>4, <5>1
                <5>3. QED  BY <5>2
            <4>3. QED  BY <4>1, <4>2
        <3>4. ASSUME NEW t \in Scans, pc'[t] \in Scanning
              PROVE  fullLock' # <<>> /\ fullLock'[1] = t /\ complete' = FALSE
            BY <1>1, <1>4, <2>1, <2>2, <2>3, <3>2, <3>4 DEF Turns
        <3>5. QED  BY <3>3, <3>4 DEF Turns
    <2>5. pc' \in [Scans -> {"off", "queued", "done"} \cup Scanning]  BY <1>3, <2>1
    <2>6. STypes'  BY <1>1, <1>2, <1>4, <2>1, <2>5 DEF STypes
    <2>7. Walk'  BY <1>1, <1>2, <2>2, <2>3 DEF Walk
    <2>8. pc[s] \notin {"sending", "sleeping"} \cup Walks  BY <1>2 DEF Walks, Known
    <2>9. Calm' => Orderly'  BY <1>1, <1>2, <2>1, <2>3, <2>8, OrderlyOutside DEF Calm
    <2>10. Fitting'  BY <1>1, <1>2 DEF Fitting, Fits
    <2>11. QED  BY <2>4, <2>6, <2>7, <2>9, <2>10 DEF SInv
<1>7. QED  BY <1>5, <1>6

(* The next scan in line has the lock. *)
LEMMA AcquireStep ==
    ASSUME SInv, NEW s \in Scans, Acquire(s)
    PROVE  SInv'
<1>1. STypes /\ Fitting /\ Turns /\ Walk /\ (Calm => Orderly)  BY DEF SInv
<1>2. /\ pc[s] = "queued" /\ Head(fullLock) = s /\ pc' = [pc EXCEPT ![s] = "draining"] /\ complete' = FALSE
      /\ UNCHANGED <<at, fullLock, found, due, mods, file, bus, cached, source, lost, late>>
    BY DEF Acquire, world
<1>3. fullLock \in Seq(Scans) /\ pc \in [Scans -> {"off", "queued", "done"} \cup Scanning]  BY <1>1 DEF STypes
<1>4. \A t \in Scans : pc'[t] = IF t = s THEN "draining" ELSE pc[t]  BY <1>2, <1>3
<1>5. fullLock # <<>> /\ fullLock[1] = s
    <2>1. PICK i \in 1 .. Len(fullLock) : fullLock[i] = s  BY <1>1, <1>2 DEF Turns
    <2>2. fullLock # <<>>  BY <2>1
    <2>3. QED  BY <1>2, <1>3, <2>2
<1>6. Turns'  BY <1>1, <1>2, <1>4, <1>5 DEF Turns
<1>7. "draining" \in Scanning /\ "draining" \notin {"sending", "sleeping"} \cup Walks /\ "draining" \notin Known
    BY DEF Scanning, Walks, Known
<1>8. pc' \in [Scans -> {"off", "queued", "done"} \cup Scanning]  BY <1>2, <1>3, <1>7
<1>9. STypes'  BY <1>1, <1>2, <1>8 DEF STypes
<1>10. Walk'  BY <1>1, <1>2, <1>4, <1>7 DEF Walk
<1>11. pc[s] \notin {"sending", "sleeping"} \cup Walks  BY <1>2 DEF Walks, Known
<1>12. Calm' => Orderly'  BY <1>1, <1>2, <1>7, <1>11, OrderlyOutside DEF Calm
<1>13. Fitting'  BY <1>1, <1>2 DEF Fitting, Fits
<1>14. QED  BY <1>6, <1>9, <1>10, <1>12, <1>13 DEF SInv

(* Every address is asked for its type; the service has removed the files. *)
LEMMA ProbeStep ==
    ASSUME SInv, NEW s \in Scans, Probe(s)
    PROVE  SInv'
<1>1. STypes /\ Fitting /\ Turns /\ Walk /\ (Calm => Orderly)  BY DEF SInv
<1> DEFINE answers == [i \in 1 .. MaxAddress |-> IF i \in Mains THEN TypeAnswer(i) ELSE <<>>]
           x == FlattenSeq(answers)
<1>2. /\ pc[s] = "draining" /\ pc' = [pc EXCEPT ![s] = "sending"] /\ found' = {} /\ bus' = bus \o x
      /\ file' = (IF s = "service" THEN [m \in Mains |-> <<>>] ELSE file)
      /\ UNCHANGED <<at, fullLock, complete, due, mods, cached, source, lost, late>>
    BY DEF Probe, world
<1>3. x \in Seq(Frames)
    <2>1. \A i \in 1 .. MaxAddress : answers[i] \in Seq(Frames)  BY AnswerIs
    <2>2. answers \in Seq(Seq(Frames))
        <3>1. MaxAddress \in Nat  BY SiteIs
        <3>2. QED  BY <2>1, <3>1
    <2> HIDE DEF answers
    <2>3. QED  BY <2>2, FlattenIs
<1> HIDE DEF x
<1>4. bus \in Seq(Frames) /\ pc \in [Scans -> {"off", "queued", "done"} \cup Scanning]  BY <1>1 DEF STypes
<1>5. /\ bus' \in Seq(Frames) /\ Len(bus) \in Nat /\ Len(bus') >= Len(bus) /\ Len(bus') \in Nat
      /\ \A i \in 1 .. Len(bus) : bus'[i] = bus[i]
    BY <1>2, <1>3, <1>4
<1>6. "draining" \in Scanning /\ "sending" \in Scanning /\ "sending" \notin Walks /\ Known \subseteq Walks
    BY DEF Scanning, Walks, Known
<1>7. Turns' /\ pc' \in [Scans -> {"off", "queued", "done"} \cup Scanning]
    BY <1>1, <1>2, <1>6, TurnsGoOn
<1>8. \A t \in Scans : pc'[t] = IF t = s THEN "sending" ELSE pc[t]  BY <1>2, <1>4
<1>9. \A t \in Scans : pc'[t] \notin Walks
    <2>1. \A t \in Scans : pc[t] \in Walks => t = s  BY <1>1, <1>2, <1>6, OneScans, WalksScan
    <2>2. QED  BY <1>6, <1>8, <2>1
<1>10. Walk'  BY <1>6, <1>9 DEF Walk
<1>11. file' \in [Mains -> Files]
    <2>1. <<>> \in Files /\ file \in [Mains -> Files]  BY <1>1 DEF STypes, Files
    <2>2. QED  BY <1>2, <2>1
<1>12. STypes'  BY <1>1, <1>2, <1>5, <1>7, <1>11 DEF STypes
<1>13. Fitting'
    <2>1. \A m \in Mains : file'[m] # <<>> => file'[m] = file[m]  BY <1>2
    <2>2. QED  BY <1>1, <1>2, <2>1 DEF Fitting, Fits
<1>14. ASSUME Calm' PROVE Orderly'
    <2>1. Orderly  BY <1>1, <1>2, <1>14 DEF Calm
    <2>2. \E t \in Scans : pc'[t] \in {"sending", "sleeping"} \cup Walks  BY <1>8
    <2>3. ASSUME NEW m \in DOMAIN mods', Asked(m)' PROVE Settled(m)' \/ Expected(m)'
        <3>1. Settled(m) \/ Expected(m)  BY <1>2, <2>1, <2>3 DEF Orderly, Asked
        <3>2. Settled(m) => Settled(m)'  BY <1>2 DEF Settled
        <3>3. ASSUME Expected(m) PROVE Expected(m)'
            <4>1. PICK i \in 1 .. Len(bus) : /\ bus[i] = SubFrame(m, 0) /\ DOMAIN Site[m] # {}
                                             /\ \A j \in 1 .. i - 1 : ~SubOf(bus[j], m)
                BY <3>3 DEF Expected
            <4>2. i \in 1 .. Len(bus') /\ bus'[i] = SubFrame(m, 0)  BY <1>5, <4>1
            <4>3. \A j \in 1 .. i - 1 : ~SubOf(bus'[j], m)
                <5>1. \A j \in 1 .. i - 1 : j \in 1 .. Len(bus)  BY <1>5
                <5>2. QED  BY <1>5, <4>1, <5>1
            <4>4. QED  BY <1>2, <3>3, <4>1, <4>2, <4>3 DEF Expected
        <3>4. QED  BY <3>1, <3>2, <3>3
    <2>4. QED  BY <1>9, <2>2, <2>3 DEF Orderly
<1>15. QED  BY <1>7, <1>10, <1>12, <1>13, <1>14 DEF SInv

(* The requests were sent: the time for the answers begins. *)
LEMMA SentStep ==
    ASSUME SInv, NEW s \in Scans, Sent(s)
    PROVE  SInv'
<1>1. STypes /\ Fitting /\ Turns /\ Walk /\ (Calm => Orderly)  BY DEF SInv
<1>2. /\ pc[s] = "sending" /\ pc' = [pc EXCEPT ![s] = "sleeping"]
      /\ UNCHANGED <<at, fullLock, found, complete, due, mods, file, bus, cached, source, lost, late>>
    BY DEF Sent, world
<1>3. "sending" \in Scanning /\ "sleeping" \in Scanning /\ "sleeping" \notin Walks
    BY DEF Scanning, Walks, Known
<1>4. Turns' /\ pc' \in [Scans -> {"off", "queued", "done"} \cup Scanning]  BY <1>1, <1>2, <1>3, TurnsGoOn
<1>5. \A t \in Scans : pc'[t] = IF t = s THEN "sleeping" ELSE pc[t]  BY <1>1, <1>2 DEF STypes
<1>6. \A t \in Scans : pc'[t] \in Walks => pc'[t] = pc[t]  BY <1>3, <1>5
<1>7. Walk'
    <2>1. \A t \in Scans : pc'[t] \in Known => pc'[t] \in Walks  BY WalksScan
    <2>2. QED  BY <1>1, <1>2, <1>6, <2>1 DEF Walk
<1>8. STypes'  BY <1>1, <1>2, <1>4 DEF STypes
<1>9. Fitting'  BY <1>1, <1>2 DEF Fitting, Fits
<1>10. ASSUME Calm' PROVE Orderly'
    <2>1. Orderly  BY <1>1, <1>2, <1>10 DEF Calm
    <2>2. \E t \in Scans : pc'[t] \in {"sending", "sleeping"} \cup Walks  BY <1>5
    <2>3. \A t \in Scans : pc'[t] \in Walks => (\A i \in 1 .. Len(bus) : Behind(bus[i], t))'
        BY <1>2, <1>6, <2>1 DEF Orderly, Behind
    <2>4. \A m \in DOMAIN mods : Asked(m)' => Settled(m)' \/ Expected(m)'
        BY <1>2, <2>1 DEF Orderly, Asked, Settled, Expected
    <2>5. QED  BY <1>2, <2>2, <2>3, <2>4 DEF Orderly
<1>11. QED  BY <1>4, <1>7, <1>8, <1>9, <1>10 DEF SInv
-----------------------------------------------------------------------------
(* The address a scan is at, when a module is there, is that module's own. *)
LEMMA VisitedIs ==
    ASSUME STypes, Fitting, Walk, NEW s \in Scans, pc[s] \in Known
    PROVE  at[s] \in Mains /\ at[s] \in DOMAIN mods /\ Visited(s) = at[s]
<1>1. at[s] \in DOMAIN mods /\ at[s] \in Mains  BY DEF Walk, STypes
<1>2. QED  BY <1>1, GetModuleIs DEF Visited

(* The next address, when the one that is left needs nothing any more. *)
LEMMA WalkNext ==
    ASSUME STypes, Turns, Walk, NEW s \in Scans, pc[s] \in Walks, at[s] \in 1 .. MaxAddress,
           at[s] \in due => at[s] \in DOMAIN mods, NextAddress(s, "visiting"),
           DOMAIN mods \subseteq DOMAIN mods', UNCHANGED <<found, due, fullLock, complete>>
    PROVE  /\ Walk' /\ Turns' /\ at' \in [Scans -> Nat] /\ at'[s] > at[s] /\ at[s] \in Nat /\ at'[s] \in Nat
           /\ pc' = [pc EXCEPT ![s] = "visiting"]
           /\ pc' \in [Scans -> {"off", "queued", "done"} \cup Scanning]
<1>1. at \in [Scans -> Nat] /\ pc \in [Scans -> {"off", "queued", "done"} \cup Scanning] /\ due \subseteq Mains
    BY DEF STypes
<1>2. /\ at' = [at EXCEPT ![s] = at[s] + 1] /\ pc' = [pc EXCEPT ![s] = "visiting"]
    BY DEF NextAddress
<1>3. at' \in [Scans -> Nat] /\ at'[s] = at[s] + 1 /\ at[s] \in Nat  BY <1>1, <1>2
<1>4. \A t \in Scans : pc'[t] = IF t = s THEN "visiting" ELSE pc[t]  BY <1>1, <1>2
<1>5. pc[s] \in Scanning /\ "visiting" \in Scanning /\ "visiting" \notin Known /\ Known \subseteq Walks
    BY WalksScan DEF Scanning, Walks, Known
<1>6. Turns' /\ pc' \in [Scans -> {"off", "queued", "done"} \cup Scanning]  BY <1>2, <1>5, TurnsGoOn
<1>7. \A t \in Scans : pc'[t] \in Walks => t = s  BY <1>4, <1>5, OneScans, WalksScan
<1>8. at'[s] >= 1 /\ at'[s] <= MaxAddress + 1  BY <1>3, SiteIs
<1>9. due' \subseteq found'  BY DEF Walk
<1>10. ASSUME NEW a \in due', a < at'[s] PROVE a \in DOMAIN mods'
    <2>1. a \in Nat /\ a \in due  BY <1>1, SiteIs
    <2>2. CASE a = at[s]  BY <2>1, <2>2
    <2>3. CASE a # at[s]
        <3>1. a < at[s]  BY <1>3, <1>10, <2>1, <2>3
        <3>2. QED  BY <2>1, <3>1 DEF Walk
    <2>4. QED  BY <2>2, <2>3
<1>11. Walk'  BY <1>4, <1>5, <1>7, <1>8, <1>9, <1>10 DEF Walk
<1>12. QED  BY <1>2, <1>3, <1>6, <1>11

(* The same address, a step further. *)
LEMMA WalkOn ==
    ASSUME STypes, Turns, Walk, NEW s \in Scans, pc[s] \in Walks, NEW x \in Walks,
           pc' = [pc EXCEPT ![s] = x], DOMAIN mods \subseteq DOMAIN mods', at[s] \in Mains,
           x \in Known => at[s] \in DOMAIN mods', UNCHANGED <<at, found, due, fullLock, complete>>
    PROVE  /\ Walk' /\ Turns' /\ at[s] \in Nat
           /\ pc' \in [Scans -> {"off", "queued", "done"} \cup Scanning]
<1>1. at \in [Scans -> Nat] /\ pc \in [Scans -> {"off", "queued", "done"} \cup Scanning]  BY DEF STypes
<1>2. \A t \in Scans : pc'[t] = IF t = s THEN x ELSE pc[t]  BY <1>1
<1>3. Turns' /\ pc' \in [Scans -> {"off", "queued", "done"} \cup Scanning]  BY TurnsGoOn, WalksScan
<1>4. \A t \in Scans : pc'[t] \in Walks => t = s  BY <1>2, OneScans, WalksScan
<1>5. \A t \in Scans : pc'[t] \in Known => pc'[t] \in Walks  BY WalksScan
<1>6. Walk'  BY <1>2, <1>4, <1>5 DEF Walk
<1>7. QED  BY <1>1, <1>3, <1>6

(* _cache(): the file of a module says what the module knows. *)
LEMMA CachedIs ==
    ASSUME NEW f \in [Mains -> Files], NEW m \in Mains, NEW r \in Modules, Fits(r.subs, m),
           \A n \in Mains : f[n] # <<>> => Fits(f[n][1].subs, n)
    PROVE  /\ Cached(f, m, r) \in [Mains -> Files]
           /\ \A n \in Mains : Cached(f, m, r)[n] # <<>> => Fits(Cached(f, m, r)[n][1].subs, n)
<1> DEFINE d == [subs |-> r.subs, chans |-> r.chans]
<1>1. Snapshot(r) = <<d>> /\ d \in [subs : Dicts, chans : SUBSET Channels] /\ d.subs = r.subs
    BY DEF Snapshot, Modules
<1> HIDE DEF d
<1>2. <<d>> \in Files /\ <<d>>[1] = d  BY <1>1 DEF Files
<1>3. CASE Cached(f, m, r) = f  BY <1>3
<1>4. CASE Cached(f, m, r) = [f EXCEPT ![m] = <<d>>]
    <2>1. \A n \in Mains : Cached(f, m, r)[n] = IF n = m THEN <<d>> ELSE f[n]  BY <1>4
    <2>2. Cached(f, m, r) \in [Mains -> Files]  BY <1>2, <1>4
    <2>3. QED  BY <1>1, <1>2, <2>1, <2>2
<1>5. QED  BY <1>1, <1>3, <1>4 DEF Cached

(* The time for the answers is over: the walk begins. *)
LEMMA SleepOverStep ==
    ASSUME SInv, NEW s \in Scans, SleepOver(s)
    PROVE  SInv'
<1>1. STypes /\ Fitting /\ Turns /\ Walk /\ (Calm => Orderly)  BY DEF SInv
<1>2. /\ pc[s] = "sleeping" /\ pc' = [pc EXCEPT ![s] = "visiting"] /\ at' = [at EXCEPT ![s] = 1]
      /\ due' = found /\ (late' <=> late \/ SubUnderWay)
      /\ UNCHANGED <<fullLock, found, complete, mods, file, bus, cached, source, lost>>
    BY DEF SleepOver
<1>3. pc[s] \in Scanning /\ "visiting" \in Scanning /\ "visiting" \in Walks /\ "visiting" \notin Known
    BY <1>2 DEF Scanning, Walks, Known
<1>4. Turns' /\ pc' \in [Scans -> {"off", "queued", "done"} \cup Scanning]  BY <1>1, <1>2, <1>3, TurnsGoOn
<1>5. \A t \in Scans : pc'[t] = IF t = s THEN "visiting" ELSE pc[t]  BY <1>1, <1>2 DEF STypes
<1>6. \A t \in Scans : pc'[t] \in Walks => t = s  BY <1>1, <1>3, <1>5, OneScans, WalksScan
<1>7. at' \in [Scans -> Nat] /\ at'[s] = 1
    <2>1. at \in [Scans -> Nat] /\ 1 \in Nat  BY <1>1 DEF STypes
    <2>2. QED  BY <1>2, <2>1
<1>8. Walk'
    <2>1. \A a \in due' : ~(a < at'[s])  BY <1>1, <1>2, <1>7, SiteIs DEF STypes
    <2>2. at'[s] >= 1 /\ at'[s] <= MaxAddress + 1  BY <1>7, SiteIs
    <2>3. QED  BY <1>2, <1>3, <1>5, <1>6, <2>1, <2>2, WalksScan DEF Walk
<1>9. STypes'  BY <1>1, <1>2, <1>4, <1>7 DEF STypes
<1>10. Fitting'  BY <1>1, <1>2 DEF Fitting, Fits
<1>11. ASSUME Calm' PROVE Orderly'
    <2>1. Orderly /\ ~SubUnderWay  BY <1>1, <1>2, <1>11 DEF Calm
    <2>2. ~SubUnderWay'  BY <1>2, <2>1 DEF SubUnderWay
    <2>3. \A i \in 1 .. Len(bus) : bus'[i].kind # "sub"  BY <1>1, <1>2, <2>1 DEF SubUnderWay, STypes
    <2>4. \A t \in Scans : (\A i \in 1 .. Len(bus) : Behind(bus[i], t))'  BY <1>2, <2>3 DEF Behind
    <2>5. \A m \in DOMAIN mods : Asked(m)' => Settled(m)' \/ Expected(m)'
        BY <1>2, <2>1 DEF Orderly, Asked, Settled, Expected
    <2>6. QED  BY <1>2, <2>2, <2>4, <2>5 DEF Orderly
<1>12. QED  BY <1>4, <1>8, <1>9, <1>10, <1>11 DEF SInv

(* The next address: skipped, or its module is made, or loaded. *)
LEMMA VisitStep ==
    ASSUME SInv, NEW s \in Scans, Visit(s)
    PROVE  SInv'
<1>1. STypes /\ Fitting /\ Turns /\ Walk /\ (Calm => Orderly)  BY DEF SInv
<1>2. /\ pc[s] = "visiting" /\ at[s] \in 1 .. MaxAddress
      /\ UNCHANGED <<fullLock, found, complete, due, mods, file, bus, cached, source, lost, late>>
    BY DEF Visit, Addresses, world
<1>3. pc[s] \in Walks /\ pc[s] \notin {"polling", "concluding"}  BY <1>2 DEF Walks
<1>4. at[s] \in Nat /\ at \in [Scans -> Nat]  BY <1>1 DEF STypes
<1>5. Fitting'  BY <1>1, <1>2 DEF Fitting, Fits
<1>6. \A m \in DOMAIN mods' : Asked(m)' => /\ m \in DOMAIN mods /\ Asked(m) /\ mods'[m].chans = mods[m].chans
                                           /\ mods'[m].subs = mods[m].subs
    BY <1>2 DEF Asked
<1>7. CASE at[s] \notin found
    <2>1. NextAddress(s, "visiting")  BY <1>7 DEF Visit
    <2>2. at[s] \notin due  BY <1>1, <1>3, <1>7 DEF Walk
    <2>3. /\ Walk' /\ Turns' /\ at' \in [Scans -> Nat] /\ at'[s] > at[s] /\ at'[s] \in Nat
          /\ pc' = [pc EXCEPT ![s] = "visiting"]
          /\ pc' \in [Scans -> {"off", "queued", "done"} \cup Scanning]
        BY <1>1, <1>2, <1>3, <2>1, <2>2, WalkNext
    <2>4. STypes'  BY <1>1, <1>2, <2>3 DEF STypes
    <2>5. "visiting" \in Walks  BY DEF Walks
    <2>6. ASSUME Calm' PROVE Orderly'
        <3>1. Orderly  BY <1>1, <1>2, <2>6 DEF Calm
        <3>2. QED  BY <1>1, <1>2, <1>3, <1>4, <1>6, <2>3, <2>5, <3>1, OrderlyOn
    <2>7. QED  BY <1>5, <2>3, <2>4, <2>6 DEF SInv
<1>8. CASE at[s] \in found
    <2>1. PICK x \in {"adding", "loading"} :
             /\ pc' = [pc EXCEPT ![s] = x] /\ at' = at /\ (x = "loading" => GetModule(at[s]) # {})
        BY <1>8 DEF Visit
    <2>2. at[s] \in Mains  BY <1>1, <1>8 DEF STypes
    <2>3. x \in Walks /\ (x \in Known => at[s] \in DOMAIN mods')
        <3>1. x \in Walks /\ (x \in Known => x = "loading")  BY DEF Walks, Known
        <3>2. QED  BY <1>1, <1>2, <2>1, <2>2, <3>1, GetModuleIs
    <2>4. Walk' /\ Turns' /\ pc' \in [Scans -> {"off", "queued", "done"} \cup Scanning]
        BY <1>1, <1>2, <1>3, <2>1, <2>2, <2>3, WalkOn
    <2>5. STypes'  BY <1>1, <1>2, <2>1, <2>4 DEF STypes
    <2>6. ASSUME Calm' PROVE Orderly'
        <3>1. Orderly  BY <1>1, <1>2, <2>6 DEF Calm
        <3>2. QED  BY <1>1, <1>2, <1>3, <1>4, <1>6, <2>1, <2>3, <3>1, OrderlyOn
    <2>7. QED  BY <1>5, <2>4, <2>5, <2>6 DEF SInv
<1>9. QED  BY <1>7, <1>8

(* A new module has no channels and no sub-addresses. *)
LEMMA NewModuleIs ==
    /\ NewModule \in Modules /\ NewModule.chans = {} /\ NewModule.subs = <<>>
    /\ \A m : Fits(NewModule.subs, m)
<1>1. <<>> \in Dicts
    <2>1. <<>> \in [{} -> Int] /\ {} \in SUBSET Int  OBVIOUS
    <2>2. QED  BY <2>1 DEF Dicts
<1>2. NewModule \in Modules  BY <1>1 DEF NewModule, Modules
<1>3. NewModule.chans = {} /\ NewModule.subs = <<>>  BY DEF NewModule
<1>4. DOMAIN <<>> = {}  OBVIOUS
<1>5. QED  BY <1>2, <1>3, <1>4 DEF Fits

(* A module is made. *)
LEMMA AddedStep ==
    ASSUME SInv, NEW s \in Scans, Added(s)
    PROVE  SInv'
<1>1. STypes /\ Fitting /\ Turns /\ Walk /\ (Calm => Orderly)  BY DEF SInv
<1>2. /\ pc[s] = "adding" /\ pc' = [pc EXCEPT ![s] = "loading"]
      /\ mods' = [m \in DOMAIN mods \cup {at[s]} |-> IF m = at[s] THEN NewModule ELSE mods[m]]
      /\ UNCHANGED <<at, fullLock, found, complete, due, file, bus, cached, source, lost, late>>
    BY DEF Added, world
<1>3. pc[s] \in Walks /\ pc[s] \in Walks \ {"visiting"} /\ pc[s] \notin {"polling", "concluding"}
      /\ "loading" \in Walks
    BY <1>2 DEF Walks, Known
<1>4. at[s] \in Mains /\ at[s] \in Nat /\ at \in [Scans -> Nat]  BY <1>1, <1>3 DEF Walk, STypes
<1>5. DOMAIN mods' = DOMAIN mods \cup {at[s]}  BY <1>2
<1>6. Walk' /\ Turns' /\ pc' \in [Scans -> {"off", "queued", "done"} \cup Scanning]
    BY <1>1, <1>2, <1>3, <1>4, <1>5, WalkOn
<1>7. \A m \in DOMAIN mods' : mods'[m] = IF m = at[s] THEN NewModule ELSE mods[m]  BY <1>2
<1>8. mods' \in [DOMAIN mods' -> Modules] /\ DOMAIN mods' \subseteq Mains
    <2>1. \A m \in DOMAIN mods' : mods'[m] \in Modules  BY <1>1, <1>5, <1>7, NewModuleIs DEF STypes
    <2>2. mods' = [m \in DOMAIN mods' |-> mods'[m]]  BY <1>2
    <2>3. QED  BY <1>1, <1>4, <1>5, <2>1, <2>2 DEF STypes
<1>9. STypes'  BY <1>1, <1>2, <1>6, <1>8 DEF STypes
<1>10. Fitting'
    <2>1. ASSUME NEW m \in Mains, m \in DOMAIN mods' PROVE Fits(mods'[m].subs, m)
        BY <1>1, <1>5, <1>7, <2>1, NewModuleIs DEF Fitting
    <2>2. \A m \in Mains : file'[m] # <<>> => Fits(file'[m][1].subs, m)  BY <1>1, <1>2 DEF Fitting
    <2>3. QED  BY <1>2, <2>1, <2>2 DEF Fitting, Fits
<1>11. \A m \in DOMAIN mods' : Asked(m)' => /\ m \in DOMAIN mods /\ Asked(m) /\ mods'[m].chans = mods[m].chans
                                            /\ mods'[m].subs = mods[m].subs
    BY <1>2, <1>5, <1>7, NewModuleIs DEF Asked
<1>12. ASSUME Calm' PROVE Orderly'
    <2>1. Orderly  BY <1>1, <1>2, <1>12 DEF Calm
    <2>2. QED  BY <1>1, <1>2, <1>3, <1>4, <1>11, <2>1, OrderlyOn
<1>13. QED  BY <1>6, <1>9, <1>10, <1>12 DEF SInv

(* The load takes too long. *)
LEMMA LoadTimeoutStep ==
    ASSUME SInv, NEW s \in Scans, LoadTimeout(s)
    PROVE  SInv'
<1>1. STypes /\ Fitting /\ Turns /\ Walk /\ (Calm => Orderly)  BY DEF SInv
<1>2. /\ pc[s] = "loading" /\ NextAddress(s, "visiting")
      /\ mods' = [mods EXCEPT ![Visited(s)].loading = TRUE]
      /\ UNCHANGED <<fullLock, found, complete, due, file, bus, cached, source, lost, late>>
    BY DEF LoadTimeout, world
<1>3. pc[s] \in Known /\ pc[s] \in Walks /\ "visiting" \in Walks  BY <1>2 DEF Walks, Known
<1>4. at[s] \in Mains /\ at[s] \in DOMAIN mods /\ Visited(s) = at[s]  BY <1>1, <1>3, VisitedIs
<1>5. mods \in [DOMAIN mods -> Modules] /\ DOMAIN mods \subseteq Mains  BY <1>1 DEF STypes
<1>6. DOMAIN mods' = DOMAIN mods  BY <1>2
<1>7. \A m \in DOMAIN mods : mods'[m] = IF m = at[s] THEN [mods[m] EXCEPT !.loading = TRUE] ELSE mods[m]
    BY <1>2, <1>4, <1>5
<1>8. \A m \in DOMAIN mods : /\ mods'[m] \in Modules /\ mods'[m].subs = mods[m].subs
                             /\ mods'[m].chans = mods[m].chans
                             /\ mods'[m].loading = FALSE => mods[m].loading = FALSE
    <2>1. ASSUME NEW m \in DOMAIN mods
          PROVE  /\ mods'[m] \in Modules /\ mods'[m].subs = mods[m].subs /\ mods'[m].chans = mods[m].chans
                 /\ mods'[m].loading = FALSE => mods[m].loading = FALSE
        <3>1. mods[m] \in Modules  BY <1>5
        <3>2. mods'[m] = mods[m] \/ mods'[m] = [mods[m] EXCEPT !.loading = TRUE]  BY <1>7
        <3>3. QED  BY <3>1, <3>2 DEF Modules
    <2>2. QED  BY <2>1
<1>9. mods' \in [DOMAIN mods' -> Modules]
    <2>1. mods' = [m \in DOMAIN mods' |-> mods'[m]]  BY <1>2, <1>5
    <2>2. QED  BY <1>6, <1>8, <2>1
<1>10. /\ Walk' /\ Turns' /\ at' \in [Scans -> Nat] /\ at'[s] > at[s] /\ at[s] \in Nat /\ at'[s] \in Nat
       /\ pc' = [pc EXCEPT ![s] = "visiting"]
       /\ pc' \in [Scans -> {"off", "queued", "done"} \cup Scanning]
    <2>1. at[s] \in 1 .. MaxAddress  BY <1>4, SiteIs
    <2>2. QED  BY <1>1, <1>2, <1>3, <1>4, <1>6, <2>1, WalkNext
<1>11. STypes'  BY <1>1, <1>2, <1>5, <1>6, <1>9, <1>10 DEF STypes
<1>12. Fitting'  BY <1>1, <1>2, <1>6, <1>8 DEF Fitting, Fits
<1>13. \A m \in DOMAIN mods' : Asked(m)' => /\ m \in DOMAIN mods /\ Asked(m) /\ mods'[m].chans = mods[m].chans
                                            /\ mods'[m].subs = mods[m].subs
    <2>1. \A m \in DOMAIN mods : mods[m].loading \in BOOLEAN /\ mods'[m].loading \in BOOLEAN
        BY <1>5, <1>8 DEF Modules
    <2>2. QED  BY <1>2, <1>6, <1>8, <2>1 DEF Asked
<1>14. ASSUME Calm' PROVE Orderly'
    <2>1. Orderly  BY <1>1, <1>2, <1>14 DEF Calm
    <2>2. QED  BY <1>1, <1>2, <1>3, <1>10, <1>13, <2>1, OrderlyOn
<1>15. QED  BY <1>10, <1>11, <1>12, <1>14 DEF SInv

(* More frames behind those that are under way change nothing for a module. *)
LEMMA ExpectedStays ==
    ASSUME NEW m, Expected(m), Len(bus) \in Nat, Len(bus') \in Nat, Len(bus') >= Len(bus),
           \A i \in 1 .. Len(bus) : bus'[i] = bus[i], mods'[m].chans = mods[m].chans
    PROVE  Expected(m)'
<1>1. PICK i \in 1 .. Len(bus) : /\ bus[i] = SubFrame(m, 0) /\ DOMAIN Site[m] # {}
                                 /\ \A j \in 1 .. i - 1 : ~SubOf(bus[j], m)
    BY DEF Expected
<1>2. i \in 1 .. Len(bus') /\ bus'[i] = SubFrame(m, 0)  BY <1>1
<1>3. \A j \in 1 .. i - 1 : j \in 1 .. Len(bus)  OBVIOUS
<1>4. \A j \in 1 .. i - 1 : ~SubOf(bus'[j], m)  BY <1>1, <1>3
<1>5. QED  BY <1>1, <1>2, <1>4 DEF Expected

(* A module gets all channels of its kind: its answers are on their way, or it is
   in its file.                                                              *)
LEMMA LoadStep ==
    ASSUME SInv, NEW s \in Scans, Load(s)
    PROVE  SInv'
<1>0. PICK m : m = at[s]  OBVIOUS
<1>1. STypes /\ Fitting /\ Turns /\ Walk /\ (Calm => Orderly)  BY DEF SInv
<1>2. /\ pc[s] = "loading" /\ pc' = [pc EXCEPT ![s] = "polling"]
      /\ UNCHANGED <<at, fullLock, found, complete, due, file, source, lost, late>>
    BY DEF Load, world
<1>3. pc[s] \in Known /\ pc[s] \in Walks /\ "polling" \in Walks /\ pc[s] \notin {"polling", "concluding"}
    BY <1>2 DEF Walks, Known
<1>4. m \in Mains /\ m \in DOMAIN mods /\ Visited(s) = m /\ m \in Nat
    <2>1. m \in Nat  BY <1>0, <1>1 DEF STypes
    <2>2. QED  BY <1>0, <1>1, <1>3, <2>1, VisitedIs
<1>5. mods \in [DOMAIN mods -> Modules] /\ DOMAIN mods \subseteq Mains /\ file[m] \in Files
      /\ bus \in Seq(Frames) /\ pc \in [Scans -> {"off", "queued", "done"} \cup Scanning]
    BY <1>1, <1>4 DEF STypes
<1>6. Spec[m] \in SUBSET Channels  BY <1>4, SiteIs
<1>7. mods[m] \in Modules /\ Fits(mods[m].subs, m)  BY <1>1, <1>4, <1>5 DEF Fitting
<1>8. PICK q : /\ mods' = [mods EXCEPT ![m] = q]
               /\ q \in Modules /\ Fits(q.subs, m) /\ q.chans = Spec[m] /\ q.loading = FALSE
               /\ \/ file[m] = <<>> /\ bus' = bus \o Append(TypeAnswer(m), NameFrame(m)) /\ cached' = cached \ {m}
                  \/ bus' = bus /\ cached' = cached \cup {m}
    <2>1. CASE file[m] = <<>>
        <3> DEFINE q == [mods[m] EXCEPT !.chans = Spec[m], !.named = {}, !.loading = FALSE]
        <3>1. /\ mods' = [mods EXCEPT ![m] = q]
              /\ bus' = bus \o Append(TypeAnswer(m), NameFrame(m)) /\ cached' = cached \ {m}
            BY <1>4, <2>1 DEF Load
        <3>2. q \in Modules /\ q.subs = mods[m].subs /\ q.chans = Spec[m] /\ q.loading = FALSE
            BY <1>6, <1>7 DEF Modules
        <3>3. Fits(q.subs, m)  BY <1>7, <3>2
        <3> HIDE DEF q
        <3>4. QED  BY <2>1, <3>1, <3>2, <3>3
    <2>2. CASE file[m] # <<>>
        <3> DEFINE d == file[m][1]
                   u == Updated(mods[m].subs, d.subs)
                   q == [mods[m] EXCEPT !.chans = Spec[m], !.named = d.chans, !.loading = FALSE, !.subs = u]
        <3>1. mods' = [mods EXCEPT ![m] = q] /\ bus' = bus /\ cached' = cached \cup {m}
            BY <1>4, <2>2 DEF Load
        <3>2. d \in [subs : Dicts, chans : SUBSET Channels]  BY <1>5, <2>2 DEF Files
        <3>3. d.subs \in Dicts /\ d.chans \in SUBSET Channels  BY <3>2
        <3>4. Fits(d.subs, m)  BY <1>1, <1>4, <2>2 DEF Fitting
        <3>5. mods[m].subs \in Dicts  BY <1>7 DEF Modules
        <3>6. u \in Dicts /\ Fits(u, m)  BY <1>7, <3>3, <3>4, <3>5, UpdatedIs
        <3> HIDE DEF d, u
        <3>7. q \in Modules /\ q.subs = u /\ q.chans = Spec[m] /\ q.loading = FALSE
            BY <1>6, <1>7, <3>3, <3>6 DEF Modules
        <3>8. Fits(q.subs, m)  BY <3>6, <3>7
        <3> HIDE DEF q
        <3>9. QED  BY <3>1, <3>7, <3>8
    <2>3. QED  BY <2>1, <2>2
<1>9. DOMAIN mods' = DOMAIN mods /\ \A n \in DOMAIN mods : mods'[n] = IF n = m THEN q ELSE mods[n]
    BY <1>4, <1>5, <1>8
<1>10. Walk' /\ Turns' /\ pc' \in [Scans -> {"off", "queued", "done"} \cup Scanning]
    BY <1>0, <1>1, <1>2, <1>3, <1>4, <1>9, WalkOn
<1>11. mods' \in [DOMAIN mods' -> Modules]  BY <1>5, <1>8, <1>9
<1> DEFINE y == Append(TypeAnswer(m), NameFrame(m))
<1>12. /\ y \in Seq(Frames) /\ y[1] = TypeFrame(m) /\ \A i \in 1 .. Len(y) : y[i].from = m
       /\ DOMAIN Site[m] # {} => Len(y) >= 2 /\ y[2] = SubFrame(m, 0)
    <2> DEFINE a == TypeAnswer(m)
               z == NameFrame(m)
    <2>1. /\ a \in Seq(Frames) /\ Len(a) >= 1 /\ a[1] = TypeFrame(m)
          /\ \A i \in 1 .. Len(a) : a[i].from = m
          /\ DOMAIN Site[m] # {} => Len(a) >= 2 /\ a[2] = SubFrame(m, 0)
        BY <1>4, AnswerIs
    <2>2. z \in Frames /\ z.from = m  BY <1>4, FramesAre
    <2> HIDE DEF a, z
    <2>3. /\ Append(a, z) \in Seq(Frames) /\ Len(Append(a, z)) = Len(a) + 1 /\ Len(a) \in Nat
          /\ \A i \in 1 .. Len(a) : Append(a, z)[i] = a[i]
          /\ Append(a, z)[Len(a) + 1] = z
        BY <2>1, <2>2
    <2>4. y = Append(a, z)  BY DEF a, z
    <2> HIDE DEF y
    <2>5. \A i \in 1 .. Len(y) : i \in 1 .. Len(a) \/ i = Len(a) + 1  BY <2>3, <2>4
    <2>6. 1 \in 1 .. Len(a) /\ (Len(a) >= 2 => 2 \in 1 .. Len(a))  BY <2>1, <2>3
    <2>7. \A i \in 1 .. Len(y) : y[i].from = m  BY <2>1, <2>2, <2>3, <2>4, <2>5
    <2>8. QED  BY <2>1, <2>3, <2>4, <2>6, <2>7
<1> HIDE DEF y
<1>13. bus' \in Seq(Frames)
    <2>1. bus' = bus \o y \/ bus' = bus  BY <1>8 DEF y
    <2>2. bus \in Seq(Frames) /\ y \in Seq(Frames)  BY <1>5, <1>12
    <2>3. bus \o y \in Seq(Frames)  BY <2>2
    <2>4. QED  BY <2>1, <2>2, <2>3
<1>14. STypes'  BY <1>1, <1>2, <1>5, <1>9, <1>10, <1>11, <1>13 DEF STypes
<1>15. Fitting'
    <2>1. \A n \in Mains : n \in DOMAIN mods' => Fits(mods'[n].subs, n)
        BY <1>1, <1>8, <1>9 DEF Fitting
    <2>2. \A n \in Mains : file'[n] # <<>> => Fits(file'[n][1].subs, n)  BY <1>1, <1>2 DEF Fitting
    <2>3. QED  BY <1>2, <2>1, <2>2 DEF Fitting, Fits
<1>16. ASSUME Calm' PROVE Orderly'
    <2>1. Orderly  BY <1>1, <1>2, <1>16 DEF Calm
    <2>2. CASE bus' = bus /\ cached' = cached \cup {m}
        <3>1. \A n \in DOMAIN mods' : Asked(n)' => /\ n \in DOMAIN mods /\ Asked(n) /\ mods'[n].chans = mods[n].chans
                                                   /\ mods'[n].subs = mods[n].subs
            BY <1>9, <2>2 DEF Asked
        <3>2. QED  BY <1>1, <1>2, <1>3, <1>4, <2>1, <2>2, <3>1, <1>0, OrderlyOn
    <2>3. CASE bus' = bus \o y /\ cached' = cached \ {m}
        <3>1. /\ Len(bus) \in Nat /\ Len(y) \in Nat /\ Len(bus') = Len(bus) + Len(y)
              /\ \A i \in 1 .. Len(bus) : bus'[i] = bus[i]
              /\ \A i \in Len(bus) + 1 .. Len(bus') : bus'[i] = y[i - Len(bus)]
              /\ \A i \in 1 .. Len(y) : bus'[Len(bus) + i] = y[i]
            BY <1>5, <1>12, <2>3
        <3>2. \A t \in Scans : pc'[t] = IF t = s THEN "polling" ELSE pc[t]  BY <1>2, <1>5
        <3>3. \E t \in Scans : pc'[t] \in {"sending", "sleeping"} \cup Walks  BY <1>3, <3>2
        <3>4. \A t \in Scans : pc'[t] \in Walks => t = s  BY <1>1, <1>3, <3>2, OneScans, WalksScan
        <3>5. \A i \in 1 .. Len(bus) : bus[i].kind = "sub" => bus[i].from < m
            BY <1>0, <1>2, <1>3, <2>1 DEF Orderly, Behind
        <3>6. ASSUME NEW i \in 1 .. Len(bus') PROVE Behind(bus[i], s)'
            <4>1. CASE i \in 1 .. Len(bus)  BY <1>0, <1>2, <3>1, <3>5, <4>1 DEF Behind
            <4>2. CASE i \notin 1 .. Len(bus)
                <5>1. i \in Len(bus) + 1 .. Len(bus') /\ i - Len(bus) \in 1 .. Len(y)  BY <3>1, <4>2
                <5>2. bus'[i].from = m  BY <1>12, <3>1, <5>1
                <5>3. QED  BY <1>0, <1>2, <3>2, <5>2 DEF Behind
            <4>3. QED  BY <4>1, <4>2
        <3>7. ASSUME NEW n \in DOMAIN mods', Asked(n)', n # m PROVE Settled(n)' \/ Expected(n)'
            <4>1. mods'[n] = mods[n] /\ n \in DOMAIN mods  BY <1>9, <3>7
            <4>2. Asked(n)  BY <2>3, <3>7, <4>1 DEF Asked
            <4>3. Settled(n) \/ Expected(n)  BY <2>1, <4>1, <4>2 DEF Orderly
            <4>4. Settled(n) => Settled(n)'  BY <4>1 DEF Settled
            <4>5. Len(bus') \in Nat /\ Len(bus') >= Len(bus)  BY <3>1
            <4>6. Expected(n) => Expected(n)'  BY <3>1, <4>1, <4>5, ExpectedStays
            <4>7. QED  BY <4>3, <4>4, <4>6
        <3>8. m \in DOMAIN mods' => Settled(m)' \/ Expected(m)'
            <4>1. mods'[m].chans = Spec[m]  BY <1>4, <1>8, <1>9
            <4>2. CASE DOMAIN Site[m] = {}
                <5>1. Kept(m) = Spec[m] /\ Subs(m) = {}  BY <1>4, <4>2, KeptIs DEF Subs
                <5>2. QED  BY <4>1, <5>1 DEF Settled
            <4>3. CASE DOMAIN Site[m] # {}
                <5>1. Len(bus) + 2 \in 1 .. Len(bus') /\ bus'[Len(bus) + 2] = SubFrame(m, 0)
                    <6>1. 2 \in 1 .. Len(y)  BY <1>12, <3>1, <4>3
                    <6>2. bus'[Len(bus) + 2] = y[2] /\ y[2] = SubFrame(m, 0)  BY <1>12, <3>1, <4>3, <6>1
                    <6>3. Len(bus) + 2 \in 1 .. Len(bus')  BY <3>1, <6>1
                    <6>4. QED  BY <6>2, <6>3
                <5>2. ASSUME NEW j \in 1 .. (Len(bus) + 2) - 1 PROVE ~SubOf(bus'[j], m)
                    <6>1. CASE j \in 1 .. Len(bus)
                        <7>1. bus'[j].kind = "sub" => bus'[j].from < m  BY <3>1, <3>5, <6>1
                        <7>2. QED  BY <1>4, <7>1 DEF SubOf
                    <6>2. CASE j \notin 1 .. Len(bus)
                        <7>1. j = Len(bus) + 1  BY <3>1, <6>2
                        <7>2. 1 \in 1 .. Len(y)  BY <1>12, <3>1, <4>3
                        <7>3. bus'[j] = TypeFrame(m)  BY <1>12, <3>1, <7>1, <7>2
                        <7>4. QED  BY <1>4, <7>3, FramesAre DEF SubOf
                    <6>3. QED  BY <6>1, <6>2
                <5>3. QED  BY <4>1, <4>3, <5>1, <5>2 DEF Expected
            <4>4. QED  BY <4>2, <4>3
        <3>9. \A t \in Scans : pc'[t] \in Walks => (\A i \in 1 .. Len(bus) : Behind(bus[i], t))'
            BY <3>4, <3>6
        <3>10. QED  BY <3>3, <3>7, <3>8, <3>9 DEF Orderly
    <2>4. QED  BY <1>8, <2>2, <2>3 DEF y
<1>17. QED  BY <1>10, <1>14, <1>15, <1>16 DEF SInv

(* A module is found to be loaded, or not yet. *)
LEMMA LoadedIs ==
    ASSUME STypes, Fitting, NEW m \in DOMAIN mods, UNCHANGED source,
           mods' = [mods EXCEPT ![m].loaded = IsLoaded(mods[m])],
           file' = file \/ file' = Cached(file, m, mods[m])
    PROVE  /\ DOMAIN mods' = DOMAIN mods /\ mods' \in [DOMAIN mods' -> Modules]
           /\ \A n \in DOMAIN mods : /\ mods'[n].subs = mods[n].subs /\ mods'[n].chans = mods[n].chans
                                     /\ mods'[n].loading = mods[n].loading
           /\ file' \in [Mains -> Files] /\ Fitting'
<1>1. mods \in [DOMAIN mods -> Modules] /\ file \in [Mains -> Files] /\ m \in Mains /\ mods[m] \in Modules
    BY DEF STypes
<1>2. mods[m].loaded \in BOOLEAN  BY <1>1 DEF Modules
<1>3. IsLoaded(mods[m]) \in BOOLEAN  BY <1>2, Zenon DEF IsLoaded
<1>4. PICK b \in BOOLEAN : b = IsLoaded(mods[m])  BY <1>3, Zenon
<1>5. mods' = [mods EXCEPT ![m].loaded = b]  BY <1>4, Zenon
<1>6. DOMAIN mods' = DOMAIN mods  BY <1>5
<1>7. \A n \in DOMAIN mods : mods'[n] = IF n = m THEN [mods[m] EXCEPT !.loaded = b] ELSE mods[n]
    BY <1>1, <1>5
<1>8. \A n \in DOMAIN mods : /\ mods'[n] \in Modules /\ mods'[n].subs = mods[n].subs
                             /\ mods'[n].chans = mods[n].chans /\ mods'[n].loading = mods[n].loading
    BY <1>1, <1>7 DEF Modules
<1>9. mods' \in [DOMAIN mods' -> Modules]
    <2>1. mods' = [n \in DOMAIN mods' |-> mods'[n]]  BY <1>1, <1>5
    <2>2. QED  BY <1>6, <1>8, <2>1
<1>10. Fits(mods[m].subs, m) /\ \A n \in Mains : file[n] # <<>> => Fits(file[n][1].subs, n)
    BY <1>1 DEF Fitting
<1>11. file' \in [Mains -> Files] /\ \A n \in Mains : file'[n] # <<>> => Fits(file'[n][1].subs, n)
    <2>1. CASE file' = file  BY <1>1, <1>10, <2>1
    <2>2. CASE file' = Cached(file, m, mods[m])  BY <1>1, <1>10, <2>2, CachedIs
    <2>3. QED  BY <2>1, <2>2
<1>12. Fitting'
    <2>1. \A n \in Mains : n \in DOMAIN mods' => Fits(mods'[n].subs, n)  BY <1>6, <1>8 DEF Fitting
    <2>2. QED  BY <1>11, <2>1 DEF Fitting, Fits
<1>13. QED  BY <1>6, <1>8, <1>9, <1>11, <1>12

(* The program waits for a module, a while at most. *)
LEMMA PollStep ==
    ASSUME SInv, NEW s \in Scans, Poll(s)
    PROVE  SInv'
<1>1. STypes /\ Fitting /\ Turns /\ Walk /\ (Calm => Orderly)  BY DEF SInv
<1>2. /\ pc[s] = "polling" /\ Noted(Visited(s))
      /\ UNCHANGED <<at, fullLock, found, complete, due, bus, cached, source, lost, late>>
    BY DEF Poll, world
<1>3. pc \in [Scans -> {"off", "queued", "done"} \cup Scanning]  BY <1>1 DEF STypes
<1>4. PICK x \in {"polling", "concluding"} : pc' = [pc EXCEPT ![s] = x]
    <2>1. CASE pc' = pc
        <3>1. pc' = [pc EXCEPT ![s] = "polling"]  BY <1>2, <1>3, <2>1
        <3>2. QED  BY <3>1
    <2>2. CASE pc' = [pc EXCEPT ![s] = "concluding"]  BY <2>2
    <2>3. QED  BY <2>1, <2>2 DEF Poll
<1>5. pc[s] \in Known /\ pc[s] \in Walks /\ x \in Walks /\ x \in Known  BY <1>2 DEF Walks, Known
<1>6. at[s] \in Mains /\ at[s] \in DOMAIN mods /\ Visited(s) = at[s]  BY <1>1, <1>5, VisitedIs
<1>7. /\ DOMAIN mods' = DOMAIN mods /\ mods' \in [DOMAIN mods' -> Modules]
      /\ \A n \in DOMAIN mods : /\ mods'[n].subs = mods[n].subs /\ mods'[n].chans = mods[n].chans
                                /\ mods'[n].loading = mods[n].loading
      /\ file' \in [Mains -> Files] /\ Fitting'
    <2>1. /\ mods' = [mods EXCEPT ![at[s]].loaded = IsLoaded(mods[at[s]])]
          /\ file' = file \/ file' = Cached(file, at[s], mods[at[s]])
        BY <1>2, <1>6, Zenon DEF Noted
    <2>2. QED  BY <1>1, <1>2, <1>6, <2>1, LoadedIs
<1>8. Walk' /\ Turns' /\ at[s] \in Nat /\ pc' \in [Scans -> {"off", "queued", "done"} \cup Scanning]
    BY <1>1, <1>2, <1>4, <1>5, <1>6, <1>7, WalkOn
<1>9. STypes'  BY <1>1, <1>2, <1>7, <1>8 DEF STypes
<1>10. ASSUME Calm' PROVE Orderly'
    <2>1. Orderly  BY <1>1, <1>2, <1>10 DEF Calm
    <2>2. \A m \in DOMAIN mods' : Asked(m)' => /\ m \in DOMAIN mods /\ Asked(m) /\ mods'[m].chans = mods[m].chans
                                               /\ mods'[m].subs = mods[m].subs
        BY <1>2, <1>7 DEF Asked
    <2>3. QED  BY <1>1, <1>2, <1>4, <1>5, <1>8, <2>1, <2>2, OrderlyOn
<1>11. QED  BY <1>7, <1>8, <1>9, <1>10 DEF SInv

(* The module is done with, loaded or not. *)
LEMMA ConcludeStep ==
    ASSUME SInv, NEW s \in Scans, Conclude(s)
    PROVE  SInv'
<1>1. STypes /\ Fitting /\ Turns /\ Walk /\ (Calm => Orderly)  BY DEF SInv
<1>2. /\ pc[s] = "concluding" /\ NextAddress(s, "visiting")
      /\ UNCHANGED <<fullLock, found, complete, due, bus, cached, source, lost, late>>
    BY DEF Conclude, world
<1>3. pc[s] \in Known /\ pc[s] \in Walks /\ "visiting" \in Walks  BY <1>2 DEF Walks, Known
<1>4. at[s] \in Mains /\ at[s] \in DOMAIN mods /\ Visited(s) = at[s]  BY <1>1, <1>3, VisitedIs
<1>5. /\ DOMAIN mods' = DOMAIN mods /\ mods' \in [DOMAIN mods' -> Modules]
      /\ \A n \in DOMAIN mods : /\ mods'[n].subs = mods[n].subs /\ mods'[n].chans = mods[n].chans
                                /\ mods'[n].loading = mods[n].loading
      /\ file' \in [Mains -> Files] /\ Fitting'
    <2>1. /\ mods' = [mods EXCEPT ![at[s]].loaded = IsLoaded(mods[at[s]])]
          /\ file' = file \/ file' = Cached(file, at[s], mods[at[s]])
        BY <1>4, Zenon DEF Conclude
    <2>2. QED  BY <1>1, <1>2, <1>4, <2>1, LoadedIs
<1>6. /\ Walk' /\ Turns' /\ at' \in [Scans -> Nat] /\ at'[s] > at[s] /\ at[s] \in Nat /\ at'[s] \in Nat
      /\ pc' = [pc EXCEPT ![s] = "visiting"]
      /\ pc' \in [Scans -> {"off", "queued", "done"} \cup Scanning]
    <2>1. at[s] \in 1 .. MaxAddress  BY <1>4, SiteIs
    <2>2. QED  BY <1>1, <1>2, <1>3, <1>4, <1>5, <2>1, WalkNext
<1>7. STypes'  BY <1>1, <1>2, <1>5, <1>6 DEF STypes
<1>8. ASSUME Calm' PROVE Orderly'
    <2>1. Orderly  BY <1>1, <1>2, <1>8 DEF Calm
    <2>2. \A m \in DOMAIN mods' : Asked(m)' => /\ m \in DOMAIN mods /\ Asked(m) /\ mods'[m].chans = mods[m].chans
                                               /\ mods'[m].subs = mods[m].subs
        BY <1>2, <1>5 DEF Asked
    <2>3. QED  BY <1>1, <1>2, <1>3, <1>6, <2>1, <2>2, OrderlyOn
<1>9. QED  BY <1>5, <1>6, <1>7, <1>8 DEF SInv

(* The last address is behind: the next scan in line has the lock. *)
LEMMA FinishStep ==
    ASSUME SInv, NEW s \in Scans, Finish(s)
    PROVE  SInv'
<1>1. STypes /\ Fitting /\ Turns /\ Walk /\ (Calm => Orderly)  BY DEF SInv
<1>2. /\ pc[s] = "visiting" /\ pc' = [pc EXCEPT ![s] = "done"] /\ fullLock' = Tail(fullLock)
      /\ complete' = TRUE /\ (late' <=> late \/ SubUnderWay)
      /\ UNCHANGED <<at, found, due, mods, file, bus, cached, source, lost>>
    BY DEF Finish
<1>3. /\ pc[s] \in Scanning /\ pc[s] \in Walks /\ "done" \notin Scanning /\ "done" \notin Walks
      /\ "done" \notin Known /\ "done" # "queued" /\ pc[s] # "queued"
    BY <1>2 DEF Scanning, Walks, Known
<1>4. pc \in [Scans -> {"off", "queued", "done"} \cup Scanning] /\ fullLock \in Seq(Scans)  BY <1>1 DEF STypes
<1>5. \A t \in Scans : pc'[t] = IF t = s THEN "done" ELSE pc[t]  BY <1>2, <1>4
<1>6. \A t \in Scans : pc'[t] \notin Scanning /\ pc'[t] \notin Walks /\ pc'[t] \notin Known
    BY <1>1, <1>3, <1>5, OneScans, WalksScan
<1>7. fullLock # <<>> /\ fullLock[1] = s  BY <1>1, <1>3 DEF Turns
<1>8. /\ fullLock' \in Seq(Scans) /\ Len(fullLock') = Len(fullLock) - 1 /\ Len(fullLock) \in Nat
      /\ \A i \in 1 .. Len(fullLock') : fullLock'[i] = fullLock[i + 1]
    BY <1>2, <1>4, <1>7
<1>9. Turns'
    <2>1. ASSUME NEW t \in Scans, pc'[t] = "queued" PROVE \E i \in 1 .. Len(fullLock') : fullLock'[i] = t
        <3>1. t # s /\ pc[t] = "queued"  BY <1>5, <2>1
        <3>2. PICK i \in 1 .. Len(fullLock) : fullLock[i] = t  BY <1>1, <3>1 DEF Turns
        <3>3. i # 1  BY <1>7, <3>1, <3>2
        <3>4. i - 1 \in 1 .. Len(fullLock') /\ (i - 1) + 1 = i  BY <1>8, <3>3
        <3>5. QED  BY <1>8, <3>2, <3>4
    <2>2. QED  BY <1>6, <2>1 DEF Turns
<1>10. pc' \in [Scans -> {"off", "queued", "done"} \cup Scanning]  BY <1>2, <1>4
<1>11. complete' \in BOOLEAN  BY <1>2
<1>12. STypes'  BY <1>1, <1>2, <1>8, <1>10, <1>11 DEF STypes
<1>13. Walk'  BY <1>3, <1>6, WalksScan DEF Walk
<1>14. Fitting'  BY <1>1, <1>2 DEF Fitting, Fits
<1>15. ASSUME Calm' PROVE Orderly'
    <2>1. Orderly /\ ~SubUnderWay  BY <1>1, <1>2, <1>15 DEF Calm
    <2>2. ~SubUnderWay'  BY <1>2, <2>1 DEF SubUnderWay
    <2>3. \A m \in DOMAIN mods : Asked(m)' => Settled(m)' \/ Expected(m)'
        BY <1>2, <2>1 DEF Orderly, Asked, Settled, Expected
    <2>4. QED  BY <1>2, <1>6, <2>2, <2>3 DEF Orderly
<1>16. QED  BY <1>9, <1>12, <1>13, <1>14, <1>15 DEF SInv
-----------------------------------------------------------------------------
(* The scans stand where they stood. *)
LEMMA WalkStays ==
    ASSUME Turns, Walk, UNCHANGED <<pc, at, fullLock, complete, due>>, found \subseteq found',
           DOMAIN mods \subseteq DOMAIN mods'
    PROVE  Turns' /\ Walk'
<1>1. Turns'  BY DEF Turns
<1>2. Walk'
    <2>1. \A s \in Scans : pc[s] \in Known => at[s] \in DOMAIN mods'  BY DEF Walk
    <2>2. \A s \in Scans : pc[s] \in Walks => /\ at[s] >= 1 /\ at[s] <= MaxAddress + 1 /\ due \subseteq found'
                                              /\ \A a \in due : a < at[s] => a \in DOMAIN mods'
        BY DEF Walk
    <2>3. QED  BY <2>1, <2>2 DEF Walk
<1>3. QED  BY <1>1, <1>2

(* The first frame under way, and those behind it. *)
LEMMA FrameIs ==
    ASSUME STypes, bus # <<>>, bus' = Tail(bus)
    PROVE  /\ Head(bus) \in Frames /\ Head(bus) = bus[1] /\ Head(bus).from \in Mains
           /\ bus' \in Seq(Frames) /\ Len(bus) \in Nat /\ Len(bus) >= 1 /\ Len(bus') = Len(bus) - 1
           /\ \A i \in 1 .. Len(bus') : bus'[i] = bus[i + 1]
<1>1. bus \in Seq(Frames)  BY DEF STypes
<1>2. Head(bus) \in Frames /\ Head(bus) = bus[1]  BY <1>1
<1>3. bus' \in Seq(Frames) /\ Len(bus) \in Nat /\ Len(bus) >= 1 /\ Len(bus') = Len(bus) - 1
    BY <1>1
<1>4. \A i \in 1 .. Len(bus') : bus'[i] = bus[i + 1]  BY <1>1
<1>5. QED  BY <1>2, <1>3, <1>4, FramesAre

(* A module has answered. *)
LEMMA HandleTypeStep ==
    ASSUME SInv, HandleType
    PROVE  SInv'
<1>1. STypes /\ Fitting /\ Turns /\ Walk /\ (Calm => Orderly)  BY DEF SInv
<1>2. /\ bus # <<>> /\ Head(bus).kind = "type" /\ bus' = Tail(bus)
      /\ found' = found \/ found' = found \cup {Head(bus).from}
      /\ UNCHANGED <<pc, at, fullLock, complete, due, mods, file, cached, source, lost, late>>
    BY DEF HandleType, Frame, world
<1>3. Head(bus).from \in Mains /\ bus' \in Seq(Frames)  BY <1>1, <1>2, FrameIs
<1>4. found \subseteq found' /\ found' \subseteq Mains  BY <1>1, <1>2, <1>3 DEF STypes
<1>5. Turns' /\ Walk'  BY <1>1, <1>2, <1>4, WalkStays
<1>6. STypes'  BY <1>1, <1>2, <1>3, <1>4 DEF STypes
<1>7. Fitting'  BY <1>1, <1>2 DEF Fitting, Fits
<1>8. ASSUME Calm' PROVE Orderly'
    <2>1. Orderly  BY <1>1, <1>2, <1>8 DEF Calm
    <2>2. Head(bus).kind # "sub"  BY <1>2
    <2>3. QED  BY <1>1, <1>2, <2>1, <2>2, OrderlyTaken
<1>9. QED  BY <1>5, <1>6, <1>7, <1>8 DEF SInv

(* A module tells its names. *)
LEMMA NamesStep ==
    ASSUME SInv, NEW m \in Mains, NamesOf(m),
           bus' = bus \/ (bus # <<>> /\ Head(bus).kind # "sub" /\ bus' = Tail(bus))
    PROVE  SInv'
<1>1. STypes /\ Fitting /\ Turns /\ Walk /\ (Calm => Orderly)  BY DEF SInv
<1>2. UNCHANGED <<pc, at, fullLock, found, complete, due, cached, source, lost, late>>
    BY DEF NamesOf, world
<1>3. bus' \in Seq(Frames)
    <2>1. CASE bus' = bus  BY <1>1, <2>1 DEF STypes
    <2>2. ASSUME bus # <<>>, bus' = Tail(bus) PROVE bus' \in Seq(Frames)
        <3>1. bus \in Seq(Frames)  BY <1>1 DEF STypes
        <3>2. QED  BY <2>2, <3>1
    <2>3. QED  BY <2>1, <2>2
<1>4. mods \in [DOMAIN mods -> Modules] /\ DOMAIN mods \subseteq Mains /\ file \in [Mains -> Files]
    BY <1>1 DEF STypes
<1>5. /\ DOMAIN mods' = DOMAIN mods /\ mods' \in [DOMAIN mods' -> Modules]
      /\ \A n \in DOMAIN mods : /\ mods'[n].chans = mods[n].chans /\ mods'[n].subs = mods[n].subs
                                /\ mods'[n].loading = mods[n].loading
      /\ file' \in [Mains -> Files] /\ \A n \in Mains : file'[n] # <<>> => Fits(file'[n][1].subs, n)
    <2>1. CASE m \notin DOMAIN mods
        <3>1. mods' = mods /\ file' = file  BY <2>1 DEF NamesOf
        <3>2. QED  BY <1>1, <1>4, <3>1 DEF Fitting
    <2>2. CASE m \in DOMAIN mods
        <3> DEFINE r == [mods[m] EXCEPT !.named = @ \cup (mods[m].chans \cap Has[m])]
        <3>1. mods' = [mods EXCEPT ![m] = r] /\ file' = Cached(file, m, r)  BY <2>2 DEF NamesOf
        <3>2. mods[m] \in Modules /\ Fits(mods[m].subs, m)  BY <1>1, <1>4, <2>2 DEF Fitting
        <3>3. mods[m].named \cup (mods[m].chans \cap Has[m]) \in SUBSET Channels
            BY <3>2 DEF Modules
        <3>4. r = [mods[m] EXCEPT !.named = mods[m].named \cup (mods[m].chans \cap Has[m])]
            BY <3>2 DEF Modules
        <3>5. /\ r \in Modules /\ r.subs = mods[m].subs /\ r.chans = mods[m].chans
              /\ r.loading = mods[m].loading
            BY <3>2, <3>3, <3>4 DEF Modules
        <3> HIDE DEF r
        <3>6. Fits(r.subs, m)  BY <3>2, <3>5
        <3>7. file' \in [Mains -> Files] /\ \A n \in Mains : file'[n] # <<>> => Fits(file'[n][1].subs, n)
            BY <1>1, <1>4, <3>1, <3>5, <3>6, CachedIs DEF Fitting
        <3>8. DOMAIN mods' = DOMAIN mods /\ \A n \in DOMAIN mods : mods'[n] = IF n = m THEN r ELSE mods[n]
            BY <1>4, <2>2, <3>1
        <3>9. mods' \in [DOMAIN mods' -> Modules]  BY <1>4, <3>1, <3>5, <3>8
        <3>10. QED  BY <3>5, <3>7, <3>8, <3>9
    <2>3. QED  BY <2>1, <2>2
<1>6. Turns' /\ Walk'  BY <1>1, <1>2, <1>5, WalkStays
<1>7. STypes'  BY <1>1, <1>2, <1>3, <1>4, <1>5 DEF STypes
<1>8. Fitting'
    <2>1. \A n \in Mains : n \in DOMAIN mods' => Fits(mods'[n].subs, n)  BY <1>1, <1>5 DEF Fitting
    <2>2. QED  BY <1>2, <1>5, <2>1 DEF Fitting, Fits
<1>9. ASSUME Calm' PROVE Orderly'
    <2>1. Orderly  BY <1>1, <1>2, <1>9 DEF Calm
    <2>2. QED  BY <1>1, <1>2, <1>5, <2>1, OrderlyTaken
<1>10. QED  BY <1>6, <1>7, <1>8, <1>9 DEF SInv

(* A name that arrives keeps the invariant. *)
LEMMA HandleNameStep ==
    ASSUME SInv, HandleName
    PROVE  SInv'
<1>1. /\ bus # <<>> /\ Head(bus).kind = "name" /\ bus' = Tail(bus) /\ NamesOf(Head(bus).from)
    BY DEF HandleName, Frame
<1>2. Head(bus).from \in Mains  BY <1>1, FrameIs DEF SInv
<1>3. Head(bus).kind # "sub"  BY <1>1
<1>4. QED  BY <1>1, <1>2, <1>3, NamesStep

(* Another program that asks for names keeps the invariant. *)
LEMMA ForeignStep ==
    ASSUME SInv, Foreign
    PROVE  SInv'
<1>1. PICK m \in DOMAIN mods : NamesOf(m) /\ bus' = bus  BY DEF Foreign
<1>2. m \in Mains  BY DEF SInv, STypes
<1>3. QED  BY <1>1, <1>2, NamesStep

(* A frame is lost. *)
LEMMA LoseStep ==
    ASSUME SInv, Lose
    PROVE  SInv'
<1>1. STypes /\ Fitting /\ Turns /\ Walk  BY DEF SInv
<1>2. /\ bus # <<>> /\ bus' = Tail(bus) /\ lost' = lost + 1
      /\ UNCHANGED <<pc, at, fullLock, found, complete, due, mods, file, cached, source>>
    BY DEF Lose, scan
<1>3. bus' \in Seq(Frames)  BY <1>1, <1>2, FrameIs
<1>4. lost' \in Nat /\ lost' # 0  BY <1>1, <1>2 DEF STypes
<1>5. Turns' /\ Walk'  BY <1>1, <1>2, WalkStays
<1>6. STypes'  BY <1>1, <1>2, <1>3, <1>4 DEF STypes
<1>7. Fitting'  BY <1>1, <1>2 DEF Fitting, Fits
<1>8. ~Calm'  BY <1>4 DEF Calm
<1>9. QED  BY <1>5, <1>6, <1>7, <1>8 DEF SInv

(* A module tells four of its sub-addresses. *)
LEMMA HandleSubtypeStep ==
    ASSUME SInv, HandleSubtype
    PROVE  SInv'
<1>1. STypes /\ Fitting /\ Turns /\ Walk /\ (Calm => Orderly)  BY DEF SInv
<1>2. /\ bus # <<>> /\ Head(bus).kind = "sub" /\ bus' = Tail(bus)
      /\ UNCHANGED <<pc, at, fullLock, found, complete, due, file, cached, source, lost, late>>
    BY DEF HandleSubtype, Frame, world
<1>3. /\ Head(bus) \in Frames /\ Head(bus) = bus[1] /\ bus' \in Seq(Frames) /\ Len(bus) \in Nat
      /\ Len(bus) >= 1 /\ Len(bus') = Len(bus) - 1 /\ \A i \in 1 .. Len(bus') : bus'[i] = bus[i + 1]
    BY <1>1, <1>2, FrameIs
<1>4. PICK a \in Mains, o \in {0, 4} : /\ DOMAIN Site[a] # {} /\ Head(bus).from = a
                                       /\ Head(bus) = SubFrame(a, o) /\ Head(bus).offset = o
    BY <1>2, <1>3, FramesAre
<1>5. mods \in [DOMAIN mods -> Modules] /\ DOMAIN mods \subseteq Mains /\ complete \in BOOLEAN
    BY <1>1 DEF STypes
<1> DEFINE q == AddSubmodules(mods[a], o, SubFrame(a, o).subs)
<1>6. a \in DOMAIN mods => mods[a] \in Modules /\ Fits(mods[a].subs, a)  BY <1>1, <1>5 DEF Fitting
<1>7. a \in DOMAIN mods => Cleans(q, mods[a], a, o)  BY <1>4, <1>6, AddIs
<1>8. DOMAIN mods' = DOMAIN mods /\ \A n \in DOMAIN mods : \/ mods'[n] = mods[n] /\ (complete = FALSE => n # a)
                                                           \/ n = a /\ mods'[n] = q
    <2>1. CASE complete
        <3>1. mods' = mods  BY <2>1 DEF HandleSubtype
        <3>2. QED  BY <2>1, <3>1
    <2>2. CASE ~complete
        <3>1. mods' = [n \in DOMAIN mods |-> IF n \in GetModule(a) THEN q ELSE mods[n]]
            <4>1. mods' = [n \in DOMAIN mods |-> IF n \in GetModule(a)
                              THEN AddSubmodules(mods[n], o, SubFrame(a, o).subs) ELSE mods[n]]
                BY <1>4, <2>2 DEF HandleSubtype
            <4>2. \A n \in GetModule(a) : n = a  BY <1>1, <1>4, GetModuleIs
            <4>3. QED  BY <4>1, <4>2
        <3>2. a \in DOMAIN mods => GetModule(a) = {a}  BY <1>1, <1>4, GetModuleIs
        <3>3. a \notin DOMAIN mods => GetModule(a) = {}  BY <1>1, <1>4, GetModuleIs
        <3> HIDE DEF q
        <3>4. QED  BY <3>1, <3>2, <3>3
    <2>3. QED  BY <2>1, <2>2
<1> HIDE DEF q
<1>9. \A n \in DOMAIN mods : mods'[n] \in Modules /\ Fits(mods'[n].subs, n)
    BY <1>1, <1>5, <1>7, <1>8 DEF Cleans, Fitting
<1>10. mods' \in [DOMAIN mods' -> Modules]
    <2>1. mods' = [n \in DOMAIN mods' |-> mods'[n]]
        BY <1>5 DEF HandleSubtype
    <2>2. QED  BY <1>8, <1>9, <2>1
<1>11. STypes'  BY <1>1, <1>2, <1>3, <1>5, <1>8, <1>10 DEF STypes
<1>12. Fitting'
    <2>1. \A n \in Mains : n \in DOMAIN mods' => Fits(mods'[n].subs, n)  BY <1>8, <1>9
    <2>2. \A n \in Mains : file'[n] # <<>> => Fits(file'[n][1].subs, n)  BY <1>1, <1>2 DEF Fitting
    <2>3. QED  BY <1>2, <2>1, <2>2 DEF Fitting, Fits
<1>13. Turns' /\ Walk'  BY <1>1, <1>2, <1>8, WalkStays
<1>14. ASSUME Calm' PROVE Orderly'
    <2>1. Orderly /\ source = "bus"  BY <1>1, <1>2, <1>14 DEF Calm
    <2>2. DOMAIN bus = 1 .. Len(bus) /\ DOMAIN bus' = 1 .. Len(bus')  BY <1>1, <1>3 DEF STypes
    <2>3. SubUnderWay
        <3>1. 1 \in DOMAIN bus /\ bus[1].kind = "sub"  BY <1>2, <1>3, <2>2
        <3>2. QED  BY <3>1 DEF SubUnderWay
    <2>4. PICK t \in Scans : pc[t] \in {"sending", "sleeping"} \cup Walks  BY <2>1, <2>3 DEF Orderly
    <2>5. complete = FALSE
        <3>1. pc[t] \in Scanning  BY <2>4 DEF Scanning
        <3>2. QED  BY <1>1, <3>1 DEF Turns
    <2>6. \A i \in 1 .. Len(bus') : i + 1 \in 1 .. Len(bus)  BY <1>3
    <2>7. ASSUME NEW u \in Scans, pc'[u] \in Walks, NEW i \in 1 .. Len(bus') PROVE Behind(bus[i], u)'
        <3>1. Behind(bus[i + 1], u)  BY <1>2, <2>1, <2>6, <2>7 DEF Orderly
        <3>2. bus'[i] = bus[i + 1]  BY <1>3
        <3>3. QED  BY <1>2, <3>1, <3>2 DEF Behind
    <2>8. ASSUME NEW n \in DOMAIN mods, Asked(n)', n # a PROVE Settled(n)' \/ Expected(n)'
        <3>1. mods'[n] = mods[n]  BY <1>8, <2>8
        <3>2. Settled(n) \/ Expected(n)  BY <1>2, <2>1, <2>8, <3>1 DEF Orderly, Asked
        <3>3. Settled(n) => Settled(n)'  BY <3>1 DEF Settled
        <3>4. ASSUME Expected(n) PROVE Expected(n)'
            <4>1. PICK i \in 1 .. Len(bus) : /\ bus[i] = SubFrame(n, 0) /\ DOMAIN Site[n] # {}
                                             /\ \A j \in 1 .. i - 1 : ~SubOf(bus[j], n)
                BY <3>4 DEF Expected
            <4>2. n \in Mains /\ bus[i].from = n  BY <1>5, <4>1, FramesAre
            <4>3. i # 1  BY <1>3, <1>4, <2>8, <4>2
            <4>4. i - 1 \in 1 .. Len(bus') /\ (i - 1) + 1 = i  BY <1>3, <4>3
            <4>5. bus'[i - 1] = SubFrame(n, 0)  BY <1>3, <4>1, <4>4
            <4>6. ASSUME NEW j \in 1 .. (i - 1) - 1 PROVE ~SubOf(bus'[j], n)
                <5>1. j + 1 \in 1 .. i - 1 /\ j \in 1 .. Len(bus')  BY <1>3
                <5>2. QED  BY <1>3, <4>1, <5>1
            <4>7. QED  BY <3>1, <3>4, <4>1, <4>4, <4>5, <4>6 DEF Expected
        <3>5. QED  BY <3>2, <3>3, <3>4
    <2>9. ASSUME a \in DOMAIN mods, Asked(a)' PROVE Settled(a)'
        <3>1. mods'[a] = q  BY <1>8, <2>5, <2>9
        <3>2. q.loading = mods[a].loading /\ q.chans \subseteq mods[a].chans  BY <1>7, <2>9 DEF Cleans
        <3>3. Settled(a) \/ Expected(a)
            <4>1. Asked(a)  BY <1>2, <2>9, <3>1, <3>2 DEF Asked
            <4>2. QED  BY <2>1, <2>9, <4>1 DEF Orderly
        <3>4. Expected(a) => o = 0 /\ mods[a].chans = Spec[a]
            <4>1. ASSUME Expected(a) PROVE o = 0 /\ mods[a].chans = Spec[a]
                <5>1. PICK i \in 1 .. Len(bus) : /\ bus[i] = SubFrame(a, 0)
                                                 /\ \A j \in 1 .. i - 1 : ~SubOf(bus[j], a)
                    BY <4>1 DEF Expected
                <5>2. SubOf(bus[1], a)  BY <1>2, <1>3, <1>4 DEF SubOf
                <5>3. i = 1
                    <6>1. i # 1 => 1 \in 1 .. i - 1  OBVIOUS
                    <6>2. QED  BY <5>1, <5>2, <6>1
                <5>4. Head(bus).offset = 0  BY <1>3, <5>1, <5>3 DEF SubFrame
                <5>5. QED  BY <1>4, <4>1, <5>4 DEF Expected
            <4>2. QED  BY <4>1
        <3>5. q.chans = Kept(a) /\ (1 .. 3) \cap Subs(a) \subseteq DOMAIN q.subs
            <4>1. \/ o = 0 /\ mods[a].chans = Spec[a]
                  \/ mods[a].chans = Kept(a) /\ (1 .. 3) \cap Subs(a) \subseteq DOMAIN mods[a].subs
                BY <3>3, <3>4 DEF Settled
            <4>2. mods[a] \in Modules /\ Fits(mods[a].subs, a)  BY <1>6, <2>9
            <4>3. q = AddSubmodules(mods[a], o, SubFrame(a, o).subs)  BY DEF q
            <4>4. QED  BY <1>4, <2>1, <4>1, <4>2, <4>3, CleansRight
        <3>6. QED  BY <3>1, <3>5 DEF Settled
    <2>10. SubUnderWay' => \E u \in Scans : pc'[u] \in {"sending", "sleeping"} \cup Walks  BY <1>2, <2>4
    <2>11. \A n \in DOMAIN mods' : Asked(n)' => Settled(n)' \/ Expected(n)'
        <3>1. SUFFICES ASSUME NEW n \in DOMAIN mods, Asked(n)' PROVE Settled(n)' \/ Expected(n)'
            BY <1>8
        <3>2. CASE n = a  BY <2>9, <3>1, <3>2
        <3>3. CASE n # a  BY <2>8, <3>1, <3>3
        <3>4. QED  BY <3>2, <3>3
    <2>12. \A u \in Scans : pc'[u] \in Walks => (\A i \in 1 .. Len(bus) : Behind(bus[i], u))'
        BY <2>7
    <2>13. QED  BY <2>10, <2>11, <2>12 DEF Orderly
<1>15. QED  BY <1>11, <1>12, <1>13, <1>14 DEF SInv

(* The modules are made from the VLP file. *)
LEMMA StartVlpStep ==
    ASSUME SInv, StartVlp
    PROVE  SInv'
<1>1. STypes /\ Fitting /\ Turns /\ Walk  BY DEF SInv
<1> DEFINE rank(m, k) == Cardinality({j \in Subs(m) : j < k})
           keys(m) == {rank(m, k) : k \in Subs(m)}
           d(m) == [i \in keys(m) |-> Digits(Site[m][CHOOSE k \in Subs(m) : rank(m, k) = i])]
           r(m) == [NewModule EXCEPT !.subs = d(m), !.chans = Spec[m], !.named = Spec[m],
                                     !.loaded = TRUE, !.useCache = FALSE]
<1>2. /\ source = "vlp" /\ pc["start"] = "off" /\ pc' = [pc EXCEPT !["start"] = "done"]
      /\ UNCHANGED <<at, fullLock, found, complete, due, file, bus, cached, source, lost, late>>
    BY Zenon DEF StartVlp, world
<1>3. mods' = [m \in Mains |-> r(m)]  BY Zenon DEF StartVlp
<1>4. ASSUME NEW m \in Mains PROVE d(m) \in Dicts /\ \A i \in DOMAIN d(m) : d(m)[i] \notin Mains
    <2>1. IsFiniteSet(Subs(m)) /\ \A k \in Subs(m) : Site[m][k] \in 1 .. 254
        <3>1. Subs(m) \subseteq 1 .. 12 /\ \A k \in Subs(m) : Site[m][k] \in 1 .. 254  BY SiteIs
        <3>2. 1 \in Int /\ 12 \in Int  OBVIOUS
        <3>3. IsFiniteSet(1 .. 12)  BY <3>2, FS_Interval, Zenon
        <3>4. IsFiniteSet(Subs(m))  BY <3>1, <3>3, FS_Subset
        <3>5. QED  BY <3>1, <3>4
    <2>2. ASSUME NEW k \in Subs(m) PROVE rank(m, k) \in Nat
        <3> DEFINE below == {j \in Subs(m) : j < k}
        <3>1. below \subseteq Subs(m)  OBVIOUS
        <3> HIDE DEF below
        <3>2. IsFiniteSet(below)  BY <2>1, <3>1, FS_Subset
        <3>3. Cardinality(below) \in Nat  BY <3>2, FS_CardinalityType
        <3>4. QED  BY <3>3 DEF below
    <2> HIDE DEF rank
    <2>3. keys(m) \in SUBSET Int  BY <2>2
    <2>4. ASSUME NEW i \in keys(m) PROVE d(m)[i] \in Int /\ d(m)[i] < 0
        <3>1. PICK k \in Subs(m) : k = CHOOSE j \in Subs(m) : rank(m, j) = i  OBVIOUS
        <3>2. d(m)[i] = Digits(Site[m][k])  BY <3>1
        <3>3. Site[m][k] \in 1 .. 254  BY <2>1
        <3> HIDE DEF d
        <3>4. PICK x \in 1 .. 254 : x = Site[m][k]  BY <3>3
        <3>5. d(m)[i] = -x  BY <3>2, <3>4 DEF Digits
        <3>6. -x \in Int /\ -x < 0  OBVIOUS
        <3>7. QED  BY <3>5, <3>6
    <2>5. DOMAIN d(m) = keys(m) /\ d(m) \in [keys(m) -> Int]  BY <2>4
    <2> HIDE DEF d, keys
    <2>6. d(m) \in Dicts  BY <2>3, <2>5 DEF Dicts
    <2>7. \A i \in DOMAIN d(m) : d(m)[i] \notin Mains  BY <2>4, <2>5, SiteIs
    <2>8. QED  BY <2>6, <2>7
<1> HIDE DEF d
<1>5. ASSUME NEW m \in Mains PROVE r(m) \in Modules /\ r(m).subs = d(m)
    <2>1. Spec[m] \in SUBSET Channels  BY SiteIs
    <2>2. QED  BY <1>4, <2>1, NewModuleIs DEF Modules
<1> HIDE DEF r
<1>6. DOMAIN mods' = Mains /\ mods' \in [Mains -> Modules]  BY <1>3, <1>5
<1>7. pc \in [Scans -> {"off", "queued", "done"} \cup Scanning] /\ "start" \in Scans
    BY <1>1 DEF STypes, Scans
<1>8. \A t \in Scans : pc'[t] = IF t = "start" THEN "done" ELSE pc[t]  BY <1>2, <1>7
<1>9. "done" \notin Scanning /\ "done" \notin Walks /\ "done" \notin Known /\ "done" # "queued"
    BY DEF Scanning, Walks, Known
<1>10. Turns'  BY <1>1, <1>2, <1>8, <1>9 DEF Turns
<1>11. DOMAIN mods \subseteq DOMAIN mods'  BY <1>1, <1>6 DEF STypes
<1>12. Walk'
    <2>1. \A s \in Scans : pc'[s] \in Walks => pc'[s] = pc[s]  BY <1>8, <1>9
    <2>2. \A s \in Scans : pc'[s] \in Known => pc'[s] = pc[s]  BY <1>8, <1>9
    <2>3. QED  BY <1>1, <1>2, <1>11, <2>1, <2>2 DEF Walk
<1>13. pc' \in [Scans -> {"off", "queued", "done"} \cup Scanning]  BY <1>2, <1>7
<1>14. STypes'  BY <1>1, <1>2, <1>6, <1>13 DEF STypes
<1>15. Fitting'
    <2>1. \A m \in Mains : mods'[m].subs = d(m)  BY <1>3, <1>5
    <2>2. \A m \in Mains : \A i \in DOMAIN mods'[m].subs : mods'[m].subs[i] \notin Mains  BY <1>4, <2>1
    <2>3. QED  BY <1>1, <1>2, <2>2 DEF Fitting, Fits
<1>16. ~Calm'  BY <1>2 DEF Calm
<1>17. QED  BY <1>10, <1>12, <1>14, <1>15, <1>16 DEF SInv

(* The invariant holds when the program starts. *)
LEMMA SInvInit == SInit => SInv
<1> SUFFICES ASSUME SInit PROVE SInv  OBVIOUS
<1>1. /\ source \in {"bus", "vlp"} /\ pc = [s \in Scans |-> "off"] /\ at = [s \in Scans |-> 0]
      /\ fullLock = <<>> /\ found = {} /\ complete = FALSE /\ mods = <<>> /\ bus = <<>> /\ due = {} /\ lost = 0
    BY ScanAssumption DEF SInit
<1>2. "off" \notin Scanning /\ "off" \notin Walks /\ "off" \notin Known  BY DEF Scanning, Walks, Known
<1>3. DOMAIN mods = {} /\ mods \in [DOMAIN mods -> Modules]  BY <1>1
<1>4. ASSUME NEW m \in Mains PROVE <<Left(m)>> \in Files /\ Fits(Left(m).subs, m)
    <2> DEFINE e == [k \in Subs(m) |-> Site[m][k]]
    <2>1. Left(m).subs = e /\ Left(m) = [subs |-> e, chans |-> Kept(m)]  BY DEF Left, Kept
    <2>2. Subs(m) \in SUBSET Int /\ \A k \in Subs(m) : Site[m][k] \in Int /\ Site[m][k] \notin Mains
        <3>1. Subs(m) \subseteq 1 .. 12  BY SiteIs
        <3>2. \A k \in Subs(m) : Site[m][k] \in 1 .. 254 /\ Site[m][k] \notin Mains  BY SiteIs
        <3>3. QED  BY <3>1, <3>2
    <2>3. e \in [Subs(m) -> Int]  BY <2>2
    <2>4. e \in Dicts  BY <2>2, <2>3 DEF Dicts
    <2>5. Kept(m) \in SUBSET Channels  BY SiteIs, KeptIs
    <2>6. Fits(e, m)  BY <2>2 DEF Fits
    <2> HIDE DEF e
    <2>7. QED  BY <2>1, <2>4, <2>5, <2>6 DEF Files
<1>5. file \in [Mains -> Files] /\ \A m \in Mains : file[m] # <<>> => Fits(file[m][1].subs, m)
    <2>1. CASE file \in [Mains -> {<<>>}]  BY <2>1 DEF Files
    <2>2. CASE file = [m \in Mains |-> <<Left(m)>>]  BY <1>4, <2>2
    <2>3. QED  BY <2>1, <2>2 DEF SInit
<1>6. at \in [Scans -> Nat] /\ fullLock \in Seq(Scans) /\ bus \in Seq(Frames)  BY <1>1
<1>7. pc \in [Scans -> {"off", "queued", "done"} \cup Scanning]  BY <1>1
<1>8. STypes  BY <1>1, <1>3, <1>5, <1>6, <1>7 DEF STypes
<1>9. Fitting  BY <1>3, <1>5 DEF Fitting
<1>10. Turns /\ Walk  BY <1>1, <1>2, WalksScan DEF Turns, Walk
<1>11. Orderly
    <2>1. DOMAIN bus = {}  BY <1>1
    <2>2. ~SubUnderWay  BY <2>1 DEF SubUnderWay
    <2>3. \A s \in Scans : pc[s] \notin Walks  BY <1>1, <1>2
    <2>4. QED  BY <1>3, <2>2, <2>3 DEF Orderly
<1>12. QED  BY <1>8, <1>9, <1>10, <1>11 DEF SInv

(* Every step keeps the invariant. *)
LEMMA SInvNext == SInv /\ [SNext]_svars => SInv'
<1> SUFFICES ASSUME SInv, [SNext]_svars PROVE SInv'  OBVIOUS
<1>1. ASSUME NEW s \in Scans, Steps(s) PROVE SInv'
    BY <1>1, AskStep, AcquireStep, ProbeStep, SentStep, SleepOverStep, VisitStep, AddedStep, LoadStep,
       LoadTimeoutStep, PollStep, ConcludeStep, FinishStep DEF Steps
<1>2. CASE StartVlp  BY <1>2, StartVlpStep
<1>3. CASE Handle  BY <1>3, HandleTypeStep, HandleSubtypeStep, HandleNameStep DEF Handle
<1>4. CASE Lose  BY <1>4, LoseStep
<1>5. CASE Foreign  BY <1>5, ForeignStep
<1>6. CASE Clog \/ UNCHANGED svars
    <2>1. UNCHANGED <<pc, at, fullLock, found, complete, due, mods, file, bus, cached, source, lost, late>>
        BY <1>6 DEF Clog, svars, scan
    <2>2. STypes' /\ Turns' /\ Walk'  BY <2>1 DEF SInv, STypes, Turns, Walk
    <2>3. Fitting'  BY <2>1 DEF SInv, Fitting, Fits
    <2>4. Calm' => Orderly'
        BY <2>1 DEF SInv, Calm, Orderly, SubUnderWay, Behind, Asked, Settled, Expected
    <2>5. QED  BY <2>2, <2>3, <2>4 DEF SInv
<1>7. QED  BY <1>1, <1>2, <1>3, <1>4, <1>5, <1>6 DEF SNext

(* The invariant of the scan holds, whatever frames come, are lost or are late, and
   however two scans are asked for.                                          *)
THEOREM ScanInductive == SSpec => []SInv
BY SInvInit, SInvNext, PTL DEF SSpec
-----------------------------------------------------------------------------
(* RightRoute: GetModule and ChannelOffset give a frame to the module, and the
   block, whose address it comes from, or to none.                           *)
THEOREM RouteIsRight == SSpec => []RightRoute
<1>1. SInv => RightRoute
    <2> SUFFICES ASSUME SInv, source = "bus", NEW x \in Addresses \cup SubAddresses, Route(x) # None
                 PROVE  \/ Route(x).main = x /\ Route(x).offset = 0
                        \/ /\ Route(x).offset \in Subs(Route(x).main)
                           /\ Site[Route(x).main][Route(x).offset] = x
        BY DEF RightRoute
    <2>1. STypes /\ Fitting  BY DEF SInv
    <2>2. GetModule(x) # {}  BY DEF Route
    <2>3. PICK m \in GetModule(x) : m = CHOOSE n \in GetModule(x) : TRUE  BY <2>2
    <2>4. Route(x).main = m /\ Route(x).offset = ChannelOffset(m, x)  BY <2>2, <2>3 DEF Route
    <2>5. CASE x \in DOMAIN mods
        <3>1. m = x  BY <2>3, <2>5 DEF GetModule
        <3>2. QED  BY <2>4, <3>1 DEF ChannelOffset
    <2>6. CASE x \notin DOMAIN mods
        <3>1. m \in DOMAIN mods /\ \E k \in DOMAIN mods[m].subs : mods[m].subs[k] = x
            <4>1. GetModule(x) = {n \in DOMAIN mods : \E k \in DOMAIN mods[n].subs : mods[n].subs[k] = x}
                BY <2>6, Zenon DEF GetModule
            <4>2. QED  BY <4>1
        <3>2. m \in Mains /\ Fits(mods[m].subs, m)  BY <2>1, <3>1 DEF STypes, Fitting
        <3>3. x # m  BY <2>6, <3>1
        <3> DEFINE hits == {k \in DOMAIN mods[m].subs : mods[m].subs[k] = x}
        <3>4. hits # {}  BY <3>1
        <3>5. ChannelOffset(m, x) = CHOOSE k \in hits : TRUE  BY <3>3, <3>4 DEF ChannelOffset
        <3>6. ChannelOffset(m, x) \in hits  BY <3>4, <3>5
        <3>7. ChannelOffset(m, x) \in Subs(m) /\ Site[m][ChannelOffset(m, x)] = x
            BY <3>2, <3>6 DEF Fits
        <3>8. QED  BY <2>4, <3>7
    <2>7. QED  BY <2>5, <2>6
<1>2. QED  BY <1>1, ScanInductive, PTL

(* ChannelsRight: once every answer is in, cleanupSubChannels() has left a module
   none that it lacks, and taken none that it has but the misplaced.         *)
THEOREM ChannelsAreRight == SSpec => []ChannelsRight
<1>1. SInv => ChannelsRight
    <2> SUFFICES ASSUME SInv, bus = <<>>, Calm, NEW m \in DOMAIN mods, Asked(m)
                 PROVE  mods[m].chans \subseteq Has[m] /\ Has[m] \ mods[m].chans \subseteq Misplaced(m)
        BY DEF ChannelsRight, Calm, Asked
    <2>1. Settled(m) \/ Expected(m)  BY DEF SInv, Orderly
    <2>2. ~Expected(m)
        <3>1. Len(bus) = 0  OBVIOUS
        <3>2. QED  BY <3>1 DEF Expected
    <2>3. m \in Mains  BY DEF SInv, STypes
    <2>4. QED  BY <2>1, <2>2, <2>3, KeptIs DEF Settled
<1>2. QED  BY <1>1, ScanInductive, PTL

(* ScanIsWhole: a scan that ends has made a module for every address that had
   answered when it began to load them.                                      *)
THEOREM EveryoneFound == SSpec => ScanIsWhole
<1>1. SInv /\ [SNext]_svars => [\A s \in Scans : pc[s] = "visiting" /\ pc'[s] = "done" =>
                                   \A a \in due : GetModule(a) # {}]_svars
    <2> SUFFICES ASSUME SInv, SNext, NEW s \in Scans, pc[s] = "visiting", pc'[s] = "done", NEW a \in due
                 PROVE  GetModule(a) # {}
        OBVIOUS
    <2>1. STypes /\ Fitting /\ Walk  BY DEF SInv
    <2>2. pc \in [Scans -> {"off", "queued", "done"} \cup Scanning]  BY <2>1 DEF STypes
    <2>3. pc' # pc /\ pc'[s] # pc[s]  OBVIOUS
    <2>4. ~StartVlp
        <3>1. ASSUME StartVlp PROVE FALSE
            <4>1. pc' = [pc EXCEPT !["start"] = "done"] /\ pc["start"] = "off"  BY <3>1, Zenon DEF StartVlp
            <4>2. QED  BY <2>2, <2>3, <4>1
        <3>2. QED  BY <3>1
    <2>5. ~Handle /\ ~Lose /\ ~Clog /\ ~Foreign
        BY <2>3 DEF Handle, HandleType, HandleSubtype, HandleName, NamesOf, Lose, Clog, Foreign, scan
    <2>6. PICK t \in Scans : Steps(t)  BY <2>4, <2>5 DEF SNext
    <2>7. Finish(t)
        <3>1. ~Ask(t)  BY <2>2, <2>3 DEF Ask
        <3>2. ~Acquire(t) /\ ~Probe(t) /\ ~Sent(t) /\ ~SleepOver(t) /\ ~Added(t) /\ ~Load(t)
            BY <2>2, <2>3 DEF Acquire, Probe, Sent, SleepOver, Added, Load
        <3>3. ~Visit(t) /\ ~LoadTimeout(t) /\ ~Conclude(t)
            BY <2>2, <2>3 DEF Visit, LoadTimeout, Conclude, NextAddress
        <3>4. ~Poll(t)  BY <2>2, <2>3 DEF Poll
        <3>5. QED  BY <2>6, <3>1, <3>2, <3>3, <3>4 DEF Steps
    <2>8. s = t
        <3>1. pc' = [pc EXCEPT ![t] = "done"]  BY <2>7 DEF Finish
        <3>2. QED  BY <2>2, <2>3, <3>1
    <2>9. at[s] \notin Addresses /\ pc[s] \in Walks  BY <2>7, <2>8 DEF Finish, Walks
    <2>10. at[s] >= 1 /\ at[s] <= MaxAddress + 1 /\ at[s] \in Nat  BY <2>1, <2>9 DEF Walk, STypes
    <2>11. at[s] = MaxAddress + 1  BY <2>9, <2>10, SiteIs DEF Addresses
    <2>12. a \in Mains /\ a < at[s]  BY <2>1, <2>11, SiteIs DEF STypes
    <2>13. a \in DOMAIN mods  BY <2>1, <2>9, <2>12 DEF Walk
    <2>14. QED  BY <2>1, <2>12, <2>13, GetModuleIs
<1>2. QED  BY <1>1, ScanInductive, PTL DEF SSpec, ScanIsWhole

=============================================================================
