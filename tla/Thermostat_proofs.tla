-------------------------- MODULE Thermostat_proofs --------------------------
(***************************************************************************)
(* Proofs about Thermostat, for any temperatures, presets, targets and     *)
(* precisions of which one divides the other, and any number of calls and  *)
(* messages.                                                               *)
(*                                                                         *)
(* What was asked for travels: it is in the last command under way, or in  *)
(* the module when none is (Heeds); in every status message that knows of  *)
(* all calls (Confirms); and in the object while the last status handled   *)
(* knew of all calls (Holds), so that the next command, made of the object,*)
(* repeats it.  What the module is like travels back: it is in the last    *)
(* status under way, or in the object when none is (Reflects).  And since  *)
(* the module told of its temperature, every message is current (Hears).   *)
(***************************************************************************)
EXTENDS Thermostat, SequenceTheorems, TLAPS

-----------------------------------------------------------------------------
(* Rounding down goes below by less than a step. *)
LEMMA FloorBounds ==
    ASSUME NEW t \in Int, NEW p \in Nat \ {0}
    PROVE  /\ t \div p \in Int /\ Floor(t, p) \in Int
           /\ Floor(t, p) <= t /\ t < Floor(t, p) + p
BY DEF Floor

(* Different multiples of p are at least p apart. *)
LEMMA Apart ==
    ASSUME NEW a \in Int, NEW b \in Int, NEW p \in Nat \ {0}, a < b
    PROVE  a * p + p <= b * p
BY SMTT(20)

(* A number rounds down to the one multiple of p that is less than p below it. *)
LEMMA FloorUnique ==
    ASSUME NEW t \in Int, NEW p \in Nat \ {0}, NEW q \in Int, q * p <= t, t < q * p + p
    PROVE  Floor(t, p) = q * p
<1>1. t \div p \in Int /\ (t \div p) * p <= t /\ t < (t \div p) * p + p
    BY FloorBounds DEF Floor
<1>2. ~(t \div p < q) /\ ~(q < t \div p)  BY <1>1, Apart
<1>3. t \div p = q  BY <1>1, <1>2
<1>4. QED  BY <1>3 DEF Floor

(* What is rounded down stays when it is rounded down again. *)
LEMMA FloorOnce ==
    ASSUME NEW t \in Int, NEW p \in Nat \ {0}
    PROVE  Floor(Floor(t, p), p) = Floor(t, p)
<1>1. t \div p \in Int /\ Floor(t, p) = (t \div p) * p /\ Floor(t, p) \in Int  BY FloorBounds DEF Floor
<1>2. QED  BY <1>1, FloorUnique

(* A step below a multiple of p, finer than p, rounds down to the multiple before. *)
LEMMA FloorBelow ==
    ASSUME NEW t \in Int, NEW p \in Nat \ {0}, NEW e \in 1 .. p
    PROVE  Floor(Floor(t, p) - e, p) = Floor(t, p) - p
<1> DEFINE k == t \div p
<1>1. k \in Int /\ Floor(t, p) = k * p /\ Floor(t, p) \in Int  BY FloorBounds DEF Floor
<1>2. (k - 1) * p = k * p - p  BY <1>1, SMTT(20)
<1>3. k - 1 \in Int /\ Floor(t, p) - e \in Int  BY <1>1
<1> HIDE DEF k
<1>4. (k - 1) * p <= Floor(t, p) - e /\ Floor(t, p) - e < (k - 1) * p + p  BY <1>1, <1>2
<1>5. Floor(Floor(t, p) - e, p) = (k - 1) * p  BY <1>3, <1>4, FloorUnique
<1>6. QED  BY <1>1, <1>2, <1>5

(* The multiples of p that are less than two steps apart are neighbours. *)
LEMMA FloorNeighbours ==
    ASSUME NEW s \in Int, NEW t \in Int, NEW p \in Nat \ {0},
           Floor(s, p) - p <= Floor(t, p), Floor(t, p) < Floor(s, p)
    PROVE  Floor(t, p) = Floor(s, p) - p
<1> DEFINE k == s \div p
           l == t \div p
<1>1. k \in Int /\ l \in Int /\ Floor(s, p) = k * p /\ Floor(t, p) = l * p
        /\ Floor(s, p) \in Int /\ Floor(t, p) \in Int  BY FloorBounds DEF Floor
<1> HIDE DEF k, l
<1>2. l < k
    <2>1. CASE l = k  BY <1>1, <2>1
    <2>2. CASE k < l  BY <1>1, <2>2, Apart
    <2>3. QED  BY <1>1, <2>1, <2>2
<1>3. Floor(t, p) + p <= Floor(s, p)  BY <1>1, <1>2, Apart
<1>4. QED  BY <1>1, <1>3

(* Rounding down to fine steps first makes no difference to coarse ones. *)
LEMMA FloorCoarser ==
    ASSUME NEW t \in Int, NEW f \in Nat \ {0}, NEW p \in Nat \ {0}, p % f = 0
    PROVE  Floor(Floor(t, f), p) = Floor(t, p)
<1> DEFINE k == t \div p
           l == t \div f
           n == p \div f
<1>1. k \in Int /\ Floor(t, p) = k * p /\ Floor(t, p) \in Int /\ k * p <= t /\ t < k * p + p
    BY FloorBounds DEF Floor
<1>2. l \in Int /\ Floor(t, f) = l * f /\ Floor(t, f) \in Int /\ l * f <= t /\ t < l * f + f
    BY FloorBounds DEF Floor
<1>3. n \in Int /\ p = n * f  BY SMTT(20)
<1> HIDE DEF k, l, n
<1>4. k * n \in Int /\ k * p = (k * n) * f  BY <1>1, <1>3, SMTT(20)
<1>5. ~(l < k * n)
    <2>1. ASSUME l < k * n PROVE FALSE
        <3>1. l * f + f <= (k * n) * f  BY <1>2, <1>4, <2>1, Apart
        <3>2. QED  BY <1>1, <1>2, <1>4, <3>1
    <2>2. QED  BY <2>1
<1>6. k * p <= l * f
    <2>1. CASE l = k * n  BY <1>1, <1>2, <1>4, <2>1
    <2>2. CASE k * n < l
        <3>1. (k * n) * f + f <= l * f  BY <1>2, <1>4, <2>2, Apart
        <3>2. l * f \in Int /\ (k * n) * f \in Int  BY <1>2, <1>4
        <3>3. QED  BY <1>4, <3>1, <3>2
    <2>3. QED  BY <1>2, <1>4, <1>5, <2>1, <2>2
<1>7. l * f < k * p + p  BY <1>1, <1>2
<1>8. k * p <= Floor(t, f) /\ Floor(t, f) < k * p + p  BY <1>2, <1>6, <1>7
<1>9. Floor(Floor(t, f), p) = k * p  BY <1>1, <1>2, <1>8, FloorUnique
<1>10. QED  BY <1>1, <1>9
-----------------------------------------------------------------------------
Precisions == {NoPrecision, Fine, Coarse}
Statuses   == {"run", "manual", "sleep"}
Held       == Targets \cup {0}

Devices  == {d \in [mode : Presets, status : Statuses, timer : 0 .. Manual, target : Held] :
                 d.status = StatusFor(d.timer)}
Channels == [cur : Int, cur_precision : Precisions, target : Held,
             cmode : Presets, cstatus : Statuses, sleep_timer : 0 .. Manual]
Asked    == [preset : Presets \cup {Any}, mode : Statuses \cup {Any}]
Commands == [mode : Presets, sleep : 0 .. Manual] \cup [target : Targets]
Frames   == [kind : {"temperature"}, raw : Int]
                \cup [kind : {"status"}, device : Devices, cur : Int, seen : Nat]

ObjectTypes == /\ chan \in Channels /\ asked \in Asked /\ calls \in Nat
               /\ late \in BOOLEAN /\ muddled \in BOOLEAN
BusTypes    == toModule \in Seq(Commands) /\ fromModule \in Seq(Frames)
ModuleTypes == /\ device \in Devices /\ real \in Int /\ real \in Temperatures /\ taken \in Nat /\ reports \in Nat
               /\ told \in {"no", "coarse", "fine"}
THTypes     == ObjectTypes /\ BusTypes /\ ModuleTypes

(* Every call is a command that the module has seen or will see. *)
Counted == taken + Len(toModule) = calls

(* The frames know of no command the module has not seen. *)
Known(q, n) == \A i \in 1 .. Len(q) : q[i].kind = "status" => q[i].seen <= n

(* A mode and a status are what a asks for. *)
Suits(a, mode, status) == a.preset \in {Any, mode} /\ a.mode \in {Any, status}

SwitchesMode(m) == "target" \notin DOMAIN m

(* The last command of q, or the module d if none touches it, is what a asks for. *)
Heeds(q, d, a) ==
    \/ \E i \in 1 .. Len(q) :
          /\ SwitchesMode(q[i]) /\ Suits(a, q[i].mode, StatusFor(q[i].sleep))
          /\ \A j \in i + 1 .. Len(q) : ~SwitchesMode(q[j])
    \/ (\A i \in 1 .. Len(q) : ~SwitchesMode(q[i])) /\ Suits(a, d.mode, d.status)

(* The status messages of q that know of all n calls have what a asks for. *)
Confirms(q, n, a) ==
    \A i \in 1 .. Len(q) : q[i].kind = "status" /\ q[i].seen = n
                               => Suits(a, q[i].device.mode, q[i].device.status)

(* A command made of c repeats what a asks for. *)
Holds(c, a) == Suits(a, c.cmode, StatusFor(SleepOf(c)))

Shows(c, d) == c.cmode = d.mode /\ c.cstatus = d.status /\ c.target = d.target

(* The last status of q, or the channel c if there is none, shows the module d. *)
Reflects(q, c, d) ==
    \/ \E i \in 1 .. Len(q) : /\ q[i].kind = "status" /\ q[i].device = d
                              /\ \A j \in i + 1 .. Len(q) : q[j].kind = "temperature"
    \/ (\A i \in 1 .. Len(q) : q[i].kind = "temperature") /\ Shows(c, d)

(* A message tells the temperature t, in its precision; a fine one only does
   when w says so.                                                          *)
Current(f, t, w) ==
    IF f.kind = "temperature" THEN w = "fine" /\ f.raw = TwoBytes(Floor(t, Fine))
    ELSE f.cur = Floor(t, Coarse)

(* The channel's temperature c is t as well as the word w says; what a fine
   message says of a t below zero is a degree too much.                     *)
Fits(c, t, w) ==
    /\ w = "fine" /\ t >= 0 => Floor(c, Fine) = Floor(t, Fine)
    /\ \/ Floor(c, Coarse) = Floor(t, Coarse)
       \/ w = "fine" /\ t < 0 /\ Floor(c, Fine) = Floor(t, Fine) + Degree

(* From place i on the messages of q are current and the first of them, or the
   channel, tells t as well as w says.                                      *)
HearsFrom(q, i, c, t, w) ==
    /\ \A j \in 1 .. Len(q) : i <= j => Current(q[j], t, w)
    /\ IF i = 0 THEN Fits(c, t, w) ELSE w = "fine" => q[i].kind = "temperature"

Hears(q, c, t, w) == w # "no" => \E i \in 0 .. Len(q) : HearsFrom(q, i, c, t, w)

AskedInv == ~muddled => /\ Heeds(toModule, device, asked)
                        /\ Confirms(fromModule, calls, asked)
                        /\ ~late => Holds(chan, asked)
ShownInv == toModule = <<>> => Reflects(fromModule, chan, device)
HeardInv == Hears(fromModule, chan.cur, real, told)

THInv == THTypes /\ Counted /\ Known(fromModule, taken) /\ AskedInv /\ ShownInv /\ HeardInv
-----------------------------------------------------------------------------
(* What heads the commands comes to be what the module does. *)
LEMMA HeedsTail ==
    ASSUME NEW S, NEW q \in Seq(S), q # <<>>, NEW a, NEW d, NEW e, Heeds(q, d, a),
           IF SwitchesMode(q[1]) THEN e.mode = q[1].mode /\ e.status = StatusFor(q[1].sleep)
                                 ELSE e.mode = d.mode /\ e.status = d.status
    PROVE  Heeds(Tail(q), e, a)
<1> DEFINE r == Tail(q)
<1>1. /\ Len(r) = Len(q) - 1 /\ Len(q) >= 1 /\ Len(q) \in Nat
      /\ \A i \in 1 .. Len(r) : r[i] = q[i + 1]
    OBVIOUS
<1> HIDE DEF r
<1>2. ASSUME NEW i \in 1 .. Len(q), SwitchesMode(q[i]), Suits(a, q[i].mode, StatusFor(q[i].sleep)),
             \A j \in i + 1 .. Len(q) : ~SwitchesMode(q[j])
      PROVE  Heeds(r, e, a)
    <2>1. CASE i = 1
        <3>1. \A j \in 1 .. Len(r) : ~SwitchesMode(r[j])  BY <1>1, <1>2, <2>1
        <3>2. Suits(a, e.mode, e.status)  BY <1>2, <2>1
        <3>3. QED  BY <3>1, <3>2 DEF Heeds
    <2>2. CASE i # 1
        <3>1. i - 1 \in 1 .. Len(r) /\ r[i - 1] = q[i]  BY <1>1, <2>2
        <3>2. ASSUME NEW j \in (i - 1) + 1 .. Len(r) PROVE ~SwitchesMode(r[j])
            <4>1. j \in 1 .. Len(r) /\ j + 1 \in i + 1 .. Len(q)  BY <1>1, <2>2
            <4>2. r[j] = q[j + 1]  BY <1>1, <4>1
            <4>3. QED  BY <1>2, <4>1, <4>2
        <3>3. QED  BY <1>2, <3>1, <3>2 DEF Heeds
    <2>3. QED  BY <2>1, <2>2
<1>3. ASSUME \A i \in 1 .. Len(q) : ~SwitchesMode(q[i]), Suits(a, d.mode, d.status)
      PROVE  Heeds(r, e, a)
    <2>1. 1 \in 1 .. Len(q) /\ \A j \in 1 .. Len(r) : j + 1 \in 1 .. Len(q) /\ r[j] = q[j + 1]
        BY <1>1
    <2>2. ~SwitchesMode(q[1]) /\ \A j \in 1 .. Len(r) : ~SwitchesMode(r[j])  BY <1>3, <2>1
    <2>3. QED  BY <1>3, <2>2 DEF Heeds
<1>4. QED  BY <1>2, <1>3 DEF Heeds, r

(* A command that asks for it at the end will have it done; another changes nothing. *)
LEMMA HeedsAppend ==
    ASSUME NEW S, NEW q \in Seq(S), NEW m \in S, NEW a, NEW d,
           IF SwitchesMode(m) THEN Suits(a, m.mode, StatusFor(m.sleep)) ELSE Heeds(q, d, a)
    PROVE  Heeds(Append(q, m), d, a)
<1> DEFINE r == Append(q, m)
<1>1. /\ Len(r) = Len(q) + 1 /\ Len(q) \in Nat /\ r[Len(q) + 1] = m
      /\ \A i \in 1 .. Len(q) : r[i] = q[i]
    OBVIOUS
<1> HIDE DEF r
<1>2. CASE SwitchesMode(m)
    <2>1. Len(q) + 1 \in 1 .. Len(r) /\ \A j \in (Len(q) + 1) + 1 .. Len(r) : ~SwitchesMode(r[j])  BY <1>1
    <2>2. QED  BY <1>1, <1>2, <2>1 DEF Heeds, r
<1>3. CASE ~SwitchesMode(m)
    <2>1. Heeds(q, d, a)  BY <1>3
    <2>2. ASSUME NEW i \in 1 .. Len(q), SwitchesMode(q[i]), Suits(a, q[i].mode, StatusFor(q[i].sleep)),
                 \A j \in i + 1 .. Len(q) : ~SwitchesMode(q[j])
          PROVE  Heeds(r, d, a)
        <3>1. i \in 1 .. Len(r) /\ r[i] = q[i]  BY <1>1
        <3>2. \A j \in i + 1 .. Len(r) : ~SwitchesMode(r[j])  BY <1>1, <1>3, <2>2
        <3>3. QED  BY <2>2, <3>1, <3>2 DEF Heeds
    <2>3. ASSUME \A i \in 1 .. Len(q) : ~SwitchesMode(q[i]), Suits(a, d.mode, d.status)
          PROVE  Heeds(r, d, a)
        <3>1. \A j \in 1 .. Len(r) : ~SwitchesMode(r[j])  BY <1>1, <1>3, <2>3
        <3>2. QED  BY <2>3, <3>1 DEF Heeds
    <2>4. QED  BY <2>1, <2>2, <2>3 DEF Heeds, r
<1>4. QED  BY <1>2, <1>3

(* The same of another module or another wish, if what suits the one suits the other. *)
LEMMA HeedsOther ==
    ASSUME NEW S, NEW q \in Seq(S), NEW a, NEW b, NEW d, NEW e, Heeds(q, d, a),
           \A p, s : Suits(a, p, s) => Suits(b, p, s),
           Suits(a, d.mode, d.status) => Suits(b, e.mode, e.status)
    PROVE  Heeds(q, e, b)
BY DEF Heeds

(* A status the channel has handled is what it shows. *)
LEMMA ReflectsTail ==
    ASSUME NEW S, NEW q \in Seq(S), q # <<>>, NEW c, NEW d, NEW b, Reflects(q, c, d),
           IF q[1].kind = "status" THEN Shows(b, q[1].device) ELSE Shows(c, d) => Shows(b, d),
           q[1].kind \in {"status", "temperature"}
    PROVE  Reflects(Tail(q), b, d)
<1> DEFINE r == Tail(q)
<1>1. /\ Len(r) = Len(q) - 1 /\ Len(q) >= 1 /\ Len(q) \in Nat
      /\ \A i \in 1 .. Len(r) : r[i] = q[i + 1]
    OBVIOUS
<1> HIDE DEF r
<1>2. ASSUME NEW i \in 1 .. Len(q), q[i].kind = "status", q[i].device = d,
             \A j \in i + 1 .. Len(q) : q[j].kind = "temperature"
      PROVE  Reflects(r, b, d)
    <2>1. CASE i = 1
        <3>1. \A j \in 1 .. Len(r) : r[j].kind = "temperature"  BY <1>1, <1>2, <2>1
        <3>2. Shows(b, d)  BY <1>2, <2>1
        <3>3. QED  BY <3>1, <3>2 DEF Reflects
    <2>2. CASE i # 1
        <3>1. i - 1 \in 1 .. Len(r) /\ r[i - 1] = q[i]  BY <1>1, <2>2
        <3>2. \A j \in (i - 1) + 1 .. Len(r) : r[j].kind = "temperature"  BY <1>1, <1>2, <2>2
        <3>3. QED  BY <1>2, <3>1, <3>2 DEF Reflects
    <2>3. QED  BY <2>1, <2>2
<1>3. ASSUME \A i \in 1 .. Len(q) : q[i].kind = "temperature", Shows(c, d)
      PROVE  Reflects(r, b, d)
    <2>1. q[1].kind = "temperature" /\ \A j \in 1 .. Len(r) : r[j].kind = "temperature"  BY <1>1, <1>3
    <2>2. Shows(b, d)  BY <1>3, <2>1
    <2>3. QED  BY <2>1, <2>2 DEF Reflects
<1>4. QED  BY <1>2, <1>3 DEF Reflects, r

(* A status sent reflects the module; a temperature changes nothing. *)
LEMMA ReflectsAppend ==
    ASSUME NEW S, NEW q \in Seq(S), NEW f \in S, NEW c, NEW d,
           IF f.kind = "status" THEN f.device = d ELSE f.kind = "temperature" /\ Reflects(q, c, d)
    PROVE  Reflects(Append(q, f), c, d)
<1> DEFINE r == Append(q, f)
<1>1. /\ Len(r) = Len(q) + 1 /\ Len(q) \in Nat /\ r[Len(q) + 1] = f
      /\ \A i \in 1 .. Len(q) : r[i] = q[i]
    OBVIOUS
<1> HIDE DEF r
<1>2. CASE f.kind = "status"
    <2>1. Len(q) + 1 \in 1 .. Len(r) /\ \A j \in (Len(q) + 1) + 1 .. Len(r) : r[j].kind = "temperature"  BY <1>1
    <2>2. QED  BY <1>1, <1>2, <2>1 DEF Reflects, r
<1>3. CASE f.kind # "status"
    <2>1. Reflects(q, c, d) /\ f.kind = "temperature"  BY <1>3
    <2>2. ASSUME NEW i \in 1 .. Len(q), q[i].kind = "status", q[i].device = d,
                 \A j \in i + 1 .. Len(q) : q[j].kind = "temperature"
          PROVE  Reflects(r, c, d)
        <3>1. i \in 1 .. Len(r) /\ r[i] = q[i]  BY <1>1
        <3>2. \A j \in i + 1 .. Len(r) : r[j].kind = "temperature"  BY <1>1, <2>1, <2>2
        <3>3. QED  BY <2>2, <3>1, <3>2 DEF Reflects
    <2>3. ASSUME \A i \in 1 .. Len(q) : q[i].kind = "temperature", Shows(c, d)
          PROVE  Reflects(r, c, d)
        <3>1. \A j \in 1 .. Len(r) : r[j].kind = "temperature"  BY <1>1, <2>1, <2>3
        <3>2. QED  BY <2>3, <3>1 DEF Reflects
    <2>4. QED  BY <2>1, <2>2, <2>3 DEF Reflects, r
<1>4. QED  BY <1>2, <1>3

(* The channel has heard what heads the messages. *)
LEMMA HearsTail ==
    ASSUME NEW S, NEW q \in Seq(S), q # <<>>, NEW c, NEW b, NEW t, NEW w, Hears(q, c, t, w),
           Current(q[1], t, w) /\ Fits(c, t, w) => Fits(b, t, w),
           Current(q[1], t, w) /\ (w = "fine" => q[1].kind = "temperature") => Fits(b, t, w)
    PROVE  Hears(Tail(q), b, t, w)
<1> DEFINE r == Tail(q)
<1>1. /\ Len(r) = Len(q) - 1 /\ Len(q) >= 1 /\ Len(q) \in Nat
      /\ \A i \in 1 .. Len(r) : r[i] = q[i + 1]
    OBVIOUS
<1> SUFFICES ASSUME w # "no" PROVE \E i \in 0 .. Len(r) : HearsFrom(r, i, b, t, w)
    BY DEF Hears
<1> HIDE DEF r
<1>2. PICK i \in 0 .. Len(q) : HearsFrom(q, i, c, t, w)  BY DEF Hears
<1>3. CASE i \in {0, 1}
    <2>1. Current(q[1], t, w) /\ \A j \in 1 .. Len(r) : Current(r[j], t, w)  BY <1>1, <1>2, <1>3 DEF HearsFrom
    <2>2. Fits(b, t, w)  BY <1>2, <1>3, <2>1 DEF HearsFrom
    <2>3. HearsFrom(r, 0, b, t, w)  BY <2>1, <2>2 DEF HearsFrom
    <2>4. QED  BY <1>1, <2>3
<1>4. CASE i \notin {0, 1}
    <2>1. i - 1 \in 1 .. Len(r) /\ r[i - 1] = q[i]  BY <1>1, <1>4
    <2>2. ASSUME NEW j \in 1 .. Len(r), i - 1 <= j PROVE Current(r[j], t, w)
        <3>1. j + 1 \in 1 .. Len(q) /\ i <= j + 1 /\ r[j] = q[j + 1]  BY <1>1, <2>2
        <3>2. QED  BY <1>2, <3>1 DEF HearsFrom
    <2>3. w = "fine" => r[i - 1].kind = "temperature"  BY <1>2, <1>4, <2>1 DEF HearsFrom
    <2>4. HearsFrom(r, i - 1, b, t, w)  BY <2>1, <2>2, <2>3 DEF HearsFrom
    <2>5. QED  BY <1>1, <2>1, <2>4
<1>5. QED  BY <1>3, <1>4

(* A current message keeps what is heard, and is the first to be if none was. *)
LEMMA HearsAppend ==
    ASSUME NEW S, NEW q \in Seq(S), NEW f \in S, NEW c, NEW t, NEW v, NEW w, Current(f, t, w),
           \/ w = "fine" /\ f.kind = "temperature"
           \/ v = "no" /\ w # "fine"
           \/ v = w /\ Hears(q, c, t, v)
    PROVE  Hears(Append(q, f), c, t, w)
<1> DEFINE r == Append(q, f)
<1>1. /\ Len(r) = Len(q) + 1 /\ Len(q) \in Nat /\ r[Len(q) + 1] = f
      /\ \A i \in 1 .. Len(q) : r[i] = q[i]
    OBVIOUS
<1> SUFFICES ASSUME w # "no" PROVE \E i \in 0 .. Len(r) : HearsFrom(r, i, c, t, w)
    BY DEF Hears
<1> HIDE DEF r
<1>2. ASSUME w = "fine" => f.kind = "temperature"
      PROVE  \E i \in 0 .. Len(r) : HearsFrom(r, i, c, t, w)
    <2>1. \A j \in 1 .. Len(r) : Len(q) + 1 <= j => Current(r[j], t, w)  BY <1>1
    <2>2. HearsFrom(r, Len(q) + 1, c, t, w)  BY <1>1, <1>2, <2>1 DEF HearsFrom
    <2>3. QED  BY <1>1, <2>2
<1>3. ASSUME v = w, Hears(q, c, t, v)
      PROVE  \E i \in 0 .. Len(r) : HearsFrom(r, i, c, t, w)
    <2>1. PICK i \in 0 .. Len(q) : HearsFrom(q, i, c, t, w)  BY <1>3 DEF Hears
    <2>2. i \in 0 .. Len(r) /\ (i # 0 => r[i] = q[i])  BY <1>1
    <2>3. ASSUME NEW j \in 1 .. Len(r), i <= j PROVE Current(r[j], t, w)
        <3>1. CASE j = Len(q) + 1  BY <1>1, <3>1
        <3>2. CASE j # Len(q) + 1
            <4>1. j \in 1 .. Len(q) /\ r[j] = q[j]  BY <1>1, <3>2
            <4>2. QED  BY <2>1, <2>3, <4>1 DEF HearsFrom
        <3>3. QED  BY <3>1, <3>2
    <2>4. IF i = 0 THEN Fits(c, t, w) ELSE w = "fine" => r[i].kind = "temperature"
        BY <2>1, <2>2 DEF HearsFrom
    <2>5. HearsFrom(r, i, c, t, w)  BY <2>3, <2>4 DEF HearsFrom
    <2>6. QED  BY <2>2, <2>5
<1>4. QED  BY <1>2, <1>3
-----------------------------------------------------------------------------
(* Each precision is a positive number, and one divides the other, and a degree. *)
LEMMA Steps ==
    /\ Fine \in Nat \ {0} /\ Coarse \in Nat \ {0} /\ Coarse % Fine = 0 /\ Fine <= Coarse
    /\ Degree \in Nat \ {0} /\ \E n \in Nat : Degree = n * Fine
    /\ Temperatures \subseteq -64 * Degree .. 64 * Degree - 1
<1>1. /\ Fine \in Nat \ {0} /\ Coarse \in Nat \ {0} /\ Coarse % Fine = 0
      /\ Degree \in Nat \ {0} /\ Degree % Coarse = 0
      /\ Temperatures \subseteq -64 * Degree .. 64 * Degree - 1
    BY ThermostatAssumption
<1>2. ~(Coarse < Fine)  BY <1>1
<1> DEFINE k == Degree \div Coarse
           l == Coarse \div Fine
<1>3. k \in Nat /\ Degree = k * Coarse  BY <1>1, SMTT(20)
<1>4. l \in Nat /\ Coarse = l * Fine  BY <1>1, SMTT(20)
<1> HIDE DEF k, l
<1>5. k * l \in Nat /\ Degree = (k * l) * Fine  BY <1>1, <1>3, <1>4, SMTT(20)
<1>6. QED  BY <1>1, <1>2, <1>5

(* A multiple of p added is added after rounding down. *)
LEMMA FloorShift ==
    ASSUME NEW t \in Int, NEW p \in Nat \ {0}, NEW n \in Int
    PROVE  Floor(Floor(t, p) + n * p, p) = Floor(t, p) + n * p
<1> DEFINE k == t \div p
<1>1. k \in Int /\ Floor(t, p) = k * p /\ Floor(t, p) \in Int  BY FloorBounds DEF Floor
<1> HIDE DEF k
<1>2. k + n \in Int /\ (k + n) * p = k * p + n * p /\ (k + n) * p \in Int  BY <1>1, SMTT(20)
<1>3. Floor((k + n) * p, p) = (k + n) * p  BY <1>2, FloorUnique
<1>4. QED  BY <1>1, <1>2, <1>3

(* A remainder is what rounding down leaves. *)
LEMMA ModIs ==
    ASSUME NEW x \in Int, NEW m \in Nat \ {0}
    PROVE  x % m = x - Floor(x, m)
BY SMTT(20) DEF Floor

(* What a channel is told by a fine message: the temperature rounded down, and
   a degree too much below zero.                                            *)
LEMMA FineTold ==
    ASSUME NEW t \in Int, t \in Temperatures
    PROVE  LET n == Parsed(TwoBytes(Floor(t, Fine)))
           IN  /\ TwoBytes(Floor(t, Fine)) \in Int /\ n \in Int /\ Floor(n, Fine) = n
               /\ n = IF t < 0 THEN Floor(t, Fine) + Degree ELSE Floor(t, Fine)
<1> DEFINE x == Floor(t, Fine)
           k == t \div Fine
           R == 128 * Degree
<1>1. PICK d \in Nat : Degree = d * Fine  BY Steps
<1>2. /\ Degree \in Nat \ {0} /\ Fine \in Nat \ {0} /\ R \in Nat \ {0}
      /\ -64 * Degree <= t /\ t < 64 * Degree
    BY Steps
<1>3. k \in Int /\ x = k * Fine /\ x \in Int /\ x <= t /\ t < x + Fine  BY <1>2, FloorBounds DEF Floor
<1>4. -64 * Degree <= x
    <2>1. -64 * d \in Int /\ (-64 * d) * Fine = -64 * Degree  BY <1>1, <1>2, SMTT(20)
    <2>2. ~(k < -64 * d)
        <3>1. SUFFICES ASSUME k < -64 * d PROVE FALSE  OBVIOUS
        <3>2. k * Fine + Fine <= (-64 * d) * Fine  BY <1>2, <1>3, <2>1, <3>1, Apart
        <3>3. QED  BY <1>2, <1>3, <2>1, <3>2
    <2>3. CASE k = -64 * d  BY <1>2, <1>3, <2>1, <2>3
    <2>4. CASE -64 * d < k
        <3>1. (-64 * d) * Fine + Fine <= k * Fine  BY <1>2, <1>3, <2>1, <2>4, Apart
        <3>2. QED  BY <1>2, <1>3, <2>1, <3>1
    <2>5. QED  BY <1>3, <2>1, <2>2, <2>3, <2>4
<1>5. t >= 0 => x >= 0
    <2>1. SUFFICES ASSUME t >= 0, k < 0 PROVE FALSE  BY <1>2, <1>3, SMTT(20)
    <2>2. k * Fine + Fine <= 0 * Fine  BY <1>2, <1>3, <2>1, Apart
    <2>3. QED  BY <1>2, <1>3, <2>1, <2>2
<1>6. TwoBytes(x) = x - Floor(x, R)  BY <1>2, <1>3, ModIs DEF TwoBytes
<1> HIDE DEF k, x
<1>7. CASE t < 0
    <2>1. x < 0 /\ -1 * R <= x /\ x < -1 * R + R /\ -1 \in Int  BY <1>2, <1>3, <1>4, <1>7
    <2>2. Floor(x, R) = -1 * R  BY <1>2, <1>3, <2>1, FloorUnique
    <2>3. TwoBytes(x) = x + R  BY <1>2, <1>3, <1>6, <2>2
    <2>4. Parsed(TwoBytes(x)) = x + Degree  BY <1>2, <1>3, <1>4, <2>1, <2>3 DEF Parsed
    <2>5. Floor(x + Degree, Fine) = x + Degree
        <3>1. d \in Int /\ Fine \in Nat \ {0}  BY <1>2
        <3>2. Floor(Floor(t, Fine) + d * Fine, Fine) = Floor(t, Fine) + d * Fine  BY <3>1, FloorShift
        <3>3. QED  BY <1>1, <3>2 DEF x
    <2>6. QED  BY <1>2, <1>3, <1>7, <2>3, <2>4, <2>5 DEF x
<1>8. CASE t >= 0
    <2>1. 0 * R <= x /\ x < 0 * R + R /\ 0 \in Int  BY <1>2, <1>3, <1>5, <1>8
    <2>2. Floor(x, R) = 0  BY <1>2, <1>3, <2>1, FloorUnique
    <2>3. TwoBytes(x) = x  BY <1>2, <1>3, <1>6, <2>2
    <2>4. Parsed(TwoBytes(x)) = x  BY <1>2, <1>3, <1>8, <2>3 DEF Parsed
    <2>5. Floor(x, Fine) = x  BY <1>2, FloorOnce DEF x
    <2>6. QED  BY <1>3, <1>8, <2>3, <2>4, <2>5 DEF x
<1>9. QED  BY <1>7, <1>8

(* A channel measures a temperature and has a precision. *)
LEMMA MeasuredType ==
    ASSUME NEW c \in Channels, NEW n \in Int, NEW p \in {Fine, Coarse}
    PROVE  /\ Measured(c, n, p).cur \in Int /\ Measured(c, n, p).cur_precision \in Precisions
<1>1. p \in Nat \ {0} /\ c.cur \in Int /\ c.cur_precision \in Precisions  BY Steps DEF Channels
<1>2. Floor(c.cur, p) \in Int  BY <1>1, FloorBounds
<1>3. CASE c.cur_precision = NoPrecision  BY <1>1, <1>2, <1>3 DEF Measured, Precisions
<1>4. CASE c.cur_precision # NoPrecision
    <2>1. c.cur_precision \in Int  BY <1>1, <1>4, Steps DEF Precisions
    <2>2. QED  BY <1>1, <1>2, <2>1 DEF Measured, Precisions
<1>5. QED  BY <1>3, <1>4

(* After a coarse message the channel is right to a coarse step, and as right to
   a fine one as it was.                                                     *)
LEMMA MeasuredCoarse ==
    ASSUME NEW c \in Channels, NEW t \in Int
    PROVE  LET b == Measured(c, Floor(t, Coarse), Coarse).cur
           IN  /\ Floor(b, Coarse) = Floor(t, Coarse)
               /\ Floor(c.cur, Coarse) = Floor(t, Coarse) => b = c.cur
<1> DEFINE n    == Floor(t, Coarse)
           held == Floor(c.cur, Coarse)
<1>1. c.cur \in Int /\ c.cur_precision \in Precisions  BY DEF Channels
<1>2. n \in Int /\ held \in Int /\ Floor(n, Coarse) = n  BY <1>1, Steps, FloorBounds, FloorOnce
<1> DEFINE finer == c.cur_precision # NoPrecision /\ c.cur_precision < Coarse
<1>3. CASE held = n  BY <1>3 DEF Measured
<1>4. CASE held # n /\ held - Coarse <= n /\ n < held /\ finer
    <2>1. c.cur_precision = Fine  BY <1>1, <1>4, Steps DEF Precisions
    <2>2. Fine \in 1 .. Coarse  BY Steps
    <2>3. Floor(held - Fine, Coarse) = held - Coarse  BY <1>1, <2>2, Steps, FloorBelow
    <2>4. n = held - Coarse  BY <1>1, <1>4, Steps, FloorNeighbours
    <2>5. Measured(c, n, Coarse).cur = held - Fine  BY <1>4, <2>1 DEF Measured
    <2>6. QED  BY <1>4, <2>3, <2>4, <2>5
<1>5. CASE held # n /\ ~(held - Coarse <= n /\ n < held /\ finer)
    <2>1. Measured(c, n, Coarse).cur = n  BY <1>5 DEF Measured
    <2>2. QED  BY <1>2, <1>5, <2>1
<1>6. QED  BY <1>3, <1>4, <1>5

(* After a fine message the channel has what the message says, to a fine step. *)
LEMMA MeasuredFine ==
    ASSUME NEW c \in Channels, NEW n \in Int, Floor(n, Fine) = n
    PROVE  Floor(Measured(c, n, Fine).cur, Fine) = n
<1> DEFINE held == Floor(c.cur, Fine)
<1>1. c.cur \in Int /\ c.cur_precision \in Precisions  BY DEF Channels
<1>2. held \in Int  BY <1>1, Steps, FloorBounds
<1>3. ~(c.cur_precision # NoPrecision /\ c.cur_precision < Fine)  BY <1>1, Steps DEF Precisions
<1>4. CASE held = n  BY <1>4 DEF Measured
<1>5. CASE held # n
    <2>1. Measured(c, n, Fine).cur = n  BY <1>3, <1>5 DEF Measured
    <2>2. QED  BY <2>1
<1>6. QED  BY <1>4, <1>5

(* So it fits a temperature of which a fine message tells. *)
LEMMA FineFits ==
    ASSUME NEW b \in Int, NEW t \in Int, t \in Temperatures,
           Floor(b, Fine) = Parsed(TwoBytes(Floor(t, Fine)))
    PROVE  Fits(b, t, "fine")
<1>1. Floor(b, Fine) = IF t < 0 THEN Floor(t, Fine) + Degree ELSE Floor(t, Fine)  BY FineTold
<1>2. CASE t < 0  BY <1>1, <1>2 DEF Fits
<1>3. CASE t >= 0
    <2>1. Floor(Floor(b, Fine), Coarse) = Floor(b, Coarse)
          /\ Floor(Floor(t, Fine), Coarse) = Floor(t, Coarse)  BY Steps, FloorCoarser
    <2>2. QED  BY <1>1, <1>3, <2>1 DEF Fits
<1>4. QED  BY <1>2, <1>3

(* A status message leaves the channel as right as it was, or makes it right. *)
LEMMA CoarseFits ==
    ASSUME NEW c \in Channels, NEW t \in Int, NEW w, Fits(c.cur, t, w) \/ w # "fine"
    PROVE  Fits(Measured(c, Floor(t, Coarse), Coarse).cur, t, w)
<1> DEFINE b == Measured(c, Floor(t, Coarse), Coarse).cur
<1>1. /\ Floor(b, Coarse) = Floor(t, Coarse)
      /\ Floor(c.cur, Coarse) = Floor(t, Coarse) => b = c.cur
    BY MeasuredCoarse
<1> HIDE DEF b
<1>2. w = "fine" /\ t >= 0 => Floor(b, Fine) = Floor(t, Fine)
    <2>1. SUFFICES ASSUME w = "fine", t >= 0 PROVE Floor(b, Fine) = Floor(t, Fine)  OBVIOUS
    <2>2. Floor(c.cur, Coarse) = Floor(t, Coarse) /\ Floor(c.cur, Fine) = Floor(t, Fine)
        BY <2>1 DEF Fits
    <2>3. QED  BY <1>1, <2>2
<1>3. QED  BY <1>1, <1>2 DEF Fits, b
-----------------------------------------------------------------------------
(* The sleep times are those a command can carry. *)
LEMMA SleepType ==
    ASSUME NEW c \in Channels
    PROVE  SleepOf(c) \in 0 .. Manual
<1>1. 0 \in 0 .. Manual /\ Manual \in 0 .. Manual  BY DEF Manual
<1>2. c.sleep_timer \in 0 .. Manual  BY DEF Channels
<1>3. CASE c.cstatus = "manual"  BY <1>1, <1>3 DEF SleepOf
<1>4. CASE c.cstatus = "sleep"  BY <1>2, <1>4 DEF SleepOf
<1>5. CASE c.cstatus \notin {"manual", "sleep"}  BY <1>1, <1>5 DEF SleepOf
<1>6. QED  BY <1>3, <1>4, <1>5

(* StatusFor is one of the statuses; the module's longest sleep is a sleep. *)
LEMMA StatusType ==
    /\ \A s : StatusFor(s) \in Statuses
    /\ StatusFor(0) = "run" /\ MaxSleep \in 0 .. Manual /\ StatusFor(MaxSleep) = "sleep"
<1>1. \A s : StatusFor(s) \in Statuses  BY DEF StatusFor, Statuses
<1>2. StatusFor(0) = "run"  BY DEF StatusFor
<1>3. MaxSleep \in 1 .. Manual - 1  BY ThermostatAssumption
<1>4. MaxSleep \in 0 .. Manual /\ MaxSleep # 0 /\ MaxSleep # Manual
    <2>1. Manual \in Int  BY DEF Manual
    <2>2. QED  BY <1>3, <2>1
<1>5. StatusFor(MaxSleep) = "sleep"  BY <1>4 DEF StatusFor
<1>6. QED  BY <1>1, <1>2, <1>4, <1>5

(* A call sends one command, of what the caller asked for or of a target. *)
LEMMA CallStep ==
    ASSUME THTypes, SetPreset \/ SetClimateMode \/ SetTemp
    PROVE  /\ \E m \in Commands : toModule' = Append(toModule, m)
           /\ chan' \in Channels /\ asked' \in Asked /\ chan'.cur = chan.cur
           /\ calls' = calls + 1 /\ muddled' = (muddled \/ late)
           /\ UNCHANGED <<late, fromModule, device, real, taken, reports, told>>
<1>1. chan \in Channels /\ asked \in Asked  BY DEF THTypes, ObjectTypes
<1>2. ASSUME NEW c \in Channels, SwitchMode(c), c.cur = chan.cur
      PROVE  /\ \E m \in Commands : toModule' = Append(toModule, m)
             /\ chan' \in Channels /\ chan'.cur = chan.cur
    <2>1. [mode |-> c.cmode, sleep |-> SleepOf(c)] \in Commands  BY SleepType DEF Commands, Channels
    <2>2. QED  BY <1>2, <2>1 DEF SwitchMode
<1>3. CASE SetPreset
    <2>1. PICK p \in Presets : SwitchMode([chan EXCEPT !.cmode = p]) /\ asked' = [asked EXCEPT !.preset = p]
        BY <1>3 DEF SetPreset
    <2>2. [chan EXCEPT !.cmode = p] \in Channels /\ [chan EXCEPT !.cmode = p].cur = chan.cur
        BY <1>1 DEF Channels
    <2>3. asked' \in Asked  BY <1>1, <2>1 DEF Asked
    <2>4. QED  BY <1>2, <1>3, <2>1, <2>2, <2>3 DEF SetPreset, Call, module
<1>4. CASE SetClimateMode
    <2>1. PICK m \in {"run", "manual", "sleep"} :
              /\ SwitchMode([chan EXCEPT !.cstatus = m])
              /\ asked' = [asked EXCEPT !.mode =
                     IF m = "sleep" /\ chan.sleep_timer \notin 1 .. MaxSleep THEN Any ELSE m]
        BY <1>4 DEF SetClimateMode
    <2>2. [chan EXCEPT !.cstatus = m] \in Channels /\ [chan EXCEPT !.cstatus = m].cur = chan.cur
        BY <1>1 DEF Channels, Statuses
    <2>3. asked' \in Asked  BY <1>1, <2>1 DEF Asked, Statuses
    <2>4. QED  BY <1>2, <1>4, <2>1, <2>2, <2>3 DEF SetClimateMode, Call, module
<1>5. CASE SetTemp
    <2>1. PICK t \in Targets : toModule' = Append(toModule, [target |-> t])  BY <1>5 DEF SetTemp
    <2>2. [target |-> t] \in Commands  BY DEF Commands
    <2>3. QED  BY <1>1, <1>5, <2>1, <2>2 DEF SetTemp, Call, module
<1>6. QED  BY <1>3, <1>4, <1>5

(* A module that takes a command, or is handled, tells what it is like then. *)
LEMMA TellStep ==
    ASSUME THTypes, TakeCommand \/ LocalControl
    PROVE  /\ device' \in Devices /\ UNCHANGED <<chan, calls, late, muddled, real>>
           /\ \E f \in Frames : /\ fromModule' = Append(fromModule, f)
                                /\ f.kind = "status" /\ f.device = device' /\ f.seen = taken'
                                /\ f.cur = Floor(real, Coarse)
           /\ told' = IF told = "no" THEN "coarse" ELSE told
<1>1. device \in Devices /\ real \in Int /\ taken \in Nat  BY DEF THTypes, ModuleTypes
<1>2. Floor(real, Coarse) \in Int  BY <1>1, Steps, FloorBounds
<1>3. ASSUME device' \in Devices, taken' \in Nat, fromModule' = Append(fromModule, StatusFrame(device'))
      PROVE  \E f \in Frames : /\ fromModule' = Append(fromModule, f)
                               /\ f.kind = "status" /\ f.device = device' /\ f.seen = taken'
                               /\ f.cur = Floor(real, Coarse)
    <2>1. StatusFrame(device') \in Frames  BY <1>2, <1>3 DEF Frames, StatusFrame
    <2>2. QED  BY <1>3, <2>1 DEF StatusFrame
<1>4. CASE TakeCommand
    <2>1. toModule # <<>> /\ toModule \in Seq(Commands)  BY <1>4 DEF TakeCommand, THTypes, BusTypes
    <2>2. Head(toModule) \in Commands  BY <2>1
    <2>3. device' \in Devices
        <3>1. CASE "target" \in DOMAIN Head(toModule)
            <4>1. Head(toModule) \in [target : Targets]  BY <2>2, <3>1 DEF Commands
            <4>2. device' = [device EXCEPT !.target = Head(toModule).target]  BY <1>4, <3>1 DEF TakeCommand
            <4>3. QED  BY <1>1, <4>1, <4>2 DEF Devices, Held
        <3>2. CASE "target" \notin DOMAIN Head(toModule)
            <4>1. Head(toModule) \in [mode : Presets, sleep : 0 .. Manual]  BY <2>2, <3>2 DEF Commands
            <4>2. device' = [device EXCEPT !.mode = Head(toModule).mode,
                                 !.status = StatusFor(Head(toModule).sleep), !.timer = Head(toModule).sleep]
                BY <1>4, <3>2 DEF TakeCommand
            <4>3. QED  BY <1>1, <4>1, <4>2, StatusType DEF Devices
        <3>3. QED  BY <3>1, <3>2
    <2>4. taken' \in Nat  BY <1>1, <1>4 DEF TakeCommand
    <2>5. fromModule' = Append(fromModule, StatusFrame(device'))  BY <1>4 DEF TakeCommand
    <2>6. QED  BY <1>3, <1>4, <2>3, <2>4, <2>5 DEF TakeCommand, object
<1>5. CASE LocalControl
    <2>1. device' \in Devices
        <3>1. CASE \E p \in Presets \ {device.mode} : device' = [device EXCEPT !.mode = p]
            BY <1>1, <3>1 DEF Devices
        <3>2. CASE device' = [device EXCEPT !.status = "sleep", !.timer = MaxSleep]
            BY <1>1, <3>2, StatusType DEF Devices
        <3>3. CASE device' = [device EXCEPT !.status = "run", !.timer = 0]
            <4>1. 0 \in 0 .. Manual  BY DEF Manual
            <4>2. QED  BY <1>1, <3>3, <4>1, StatusType DEF Devices
        <3>4. QED  BY <1>5, <3>1, <3>2, <3>3 DEF LocalControl
    <2>2. taken' \in Nat  BY <1>1, <1>5 DEF LocalControl
    <2>3. fromModule' = Append(fromModule, StatusFrame(device'))  BY <1>5 DEF LocalControl
    <2>4. QED  BY <1>3, <1>5, <2>1, <2>2, <2>3 DEF LocalControl
<1>6. QED  BY <1>4, <1>5

(* A report is a current message of either kind. *)
LEMMA ReportStep ==
    ASSUME THTypes, Report
    PROVE  /\ UNCHANGED <<chan, calls, asked, late, muddled, toModule, device, real, taken>>
           /\ \E f \in Frames :
                 /\ fromModule' = Append(fromModule, f) /\ Current(f, real, told')
                 /\ \/ /\ f.kind = "status" /\ f.device = device /\ f.seen = taken
                       /\ told' = IF told = "no" THEN "coarse" ELSE told
                    \/ f.kind = "temperature" /\ told' = "fine"
<1>1. device \in Devices /\ real \in Int /\ real \in Temperatures /\ taken \in Nat
    BY DEF THTypes, ModuleTypes
<1>2. Floor(real, Coarse) \in Int /\ TwoBytes(Floor(real, Fine)) \in Int
    BY <1>1, Steps, FloorBounds, FineTold
<1>3. taken' = taken  BY DEF Report, Own
<1>4. StatusFrame(device) \in Frames /\ Current(StatusFrame(device), real, told')
    BY <1>1, <1>2, <1>3 DEF Frames, StatusFrame, Current
<1>5. TempFrame \in Frames /\ (told' = "fine" => Current(TempFrame, real, told'))
    BY <1>2 DEF Frames, TempFrame, Current
<1>6. CASE fromModule' = Append(fromModule, StatusFrame(device)) /\ told' = IF told = "no" THEN "coarse" ELSE told
    BY <1>3, <1>4, <1>6 DEF Report, Own, object, StatusFrame
<1>7. CASE fromModule' = Append(fromModule, TempFrame) /\ told' = "fine"
    BY <1>3, <1>5, <1>7 DEF Report, Own, object, TempFrame
<1>8. QED  BY <1>6, <1>7 DEF Report

(* The channel takes over what a message says, and leaves it a channel. *)
LEMMA HandleStep ==
    ASSUME THTypes, HandleStatus \/ HandleTemperature
    PROVE  /\ fromModule # <<>> /\ fromModule' = Tail(fromModule)
           /\ fromModule[1] \in Frames /\ chan' \in Channels /\ late' \in BOOLEAN
           /\ UNCHANGED <<calls, asked, muddled, toModule, device, real, taken, reports, told>>
           /\ \/ /\ fromModule[1].kind = "status" /\ late' = (fromModule[1].seen < calls)
                 /\ fromModule[1].device \in Devices /\ fromModule[1].seen \in Nat
                 /\ Shows(chan', fromModule[1].device) /\ chan'.sleep_timer = fromModule[1].device.timer
                 /\ chan'.cur = Measured(chan, fromModule[1].cur, Coarse).cur
              \/ /\ fromModule[1].kind = "temperature" /\ late' = late
                 /\ \A d : Shows(chan, d) => Shows(chan', d)
                 /\ \A a : Holds(chan, a) => Holds(chan', a)
                 /\ chan'.cur = Measured(chan, Parsed(fromModule[1].raw), Fine).cur
<1>1. chan \in Channels /\ calls \in Nat /\ late \in BOOLEAN  BY DEF THTypes, ObjectTypes
<1>2. fromModule # <<>> /\ fromModule \in Seq(Frames)
    BY DEF HandleStatus, HandleTemperature, THTypes, BusTypes
<1>3. Head(fromModule) = fromModule[1] /\ fromModule[1] \in Frames  BY <1>2
<1> DEFINE f == fromModule[1]
<1>4. /\ f.kind = "status" => f.cur \in Int
      /\ f.kind = "temperature" => Parsed(f.raw) \in Int
    <2>1. f.kind = "status" => f.cur \in Int  BY <1>3 DEF Frames
    <2>2. f.kind = "temperature" => f.raw \in Int  BY <1>3 DEF Frames
    <2>3. QED  BY <2>1, <2>2, Steps DEF Parsed
<1> HIDE DEF f
<1>5. CASE HandleStatus
    <2>1. f.kind = "status" /\ f \in Frames  BY <1>3, <1>5 DEF HandleStatus, f
    <2>2. f.device \in Devices /\ f.seen \in Nat  BY <2>1 DEF Frames
    <2> DEFINE m == Measured(chan, f.cur, Coarse)
    <2>3. m.cur \in Int /\ m.cur_precision \in Precisions  BY <1>1, <1>4, <2>1, MeasuredType
    <2> HIDE DEF m
    <2>4. chan' = [target |-> f.device.target, cmode |-> f.device.mode, cstatus |-> f.device.status,
                   sleep_timer |-> f.device.timer, cur |-> m.cur, cur_precision |-> m.cur_precision]
        BY <1>3, <1>5 DEF HandleStatus, f, m
    <2>5. chan' \in Channels  BY <2>2, <2>3, <2>4 DEF Channels, Devices
    <2>6. Shows(chan', f.device) /\ chan'.sleep_timer = f.device.timer /\ chan'.cur = m.cur
        BY <2>4 DEF Shows
    <2>7. late' = (f.seen < calls) /\ late' \in BOOLEAN  BY <1>3, <1>5 DEF HandleStatus, f
    <2>8. QED  BY <1>2, <1>3, <1>4, <1>5, <2>1, <2>2, <2>5, <2>6, <2>7 DEF HandleStatus, module, f, m
<1>6. CASE HandleTemperature
    <2>1. f.kind = "temperature"  BY <1>3, <1>6 DEF HandleTemperature, f
    <2> DEFINE m == Measured(chan, Parsed(f.raw), Fine)
    <2>2. m.cur \in Int /\ m.cur_precision \in Precisions  BY <1>1, <1>4, <2>1, MeasuredType
    <2> HIDE DEF m
    <2>3. chan' = [chan EXCEPT !.cur = m.cur, !.cur_precision = m.cur_precision]
        BY <1>3, <1>6 DEF HandleTemperature, f, m
    <2>4. chan' \in Channels /\ chan'.cur = m.cur  BY <1>1, <2>2, <2>3 DEF Channels
    <2>5. /\ chan'.cmode = chan.cmode /\ chan'.cstatus = chan.cstatus
          /\ chan'.target = chan.target /\ chan'.sleep_timer = chan.sleep_timer
        BY <1>1, <2>3 DEF Channels
    <2>6. SleepOf(chan') = SleepOf(chan)  BY <2>5 DEF SleepOf
    <2>7. (\A d : Shows(chan, d) => Shows(chan', d)) /\ (\A a : Holds(chan, a) => Holds(chan', a))
        BY <2>5, <2>6 DEF Shows, Holds
    <2>8. late' = late /\ late' \in BOOLEAN  BY <1>1, <1>6 DEF HandleTemperature
    <2>9. QED  BY <1>2, <1>3, <1>4, <1>6, <2>1, <2>4, <2>7, <2>8 DEF HandleTemperature, module, f, m
<1>7. QED  BY <1>5, <1>6
-----------------------------------------------------------------------------
(* The types are kept. *)
LEMMA TypesStep ==
    ASSUME THTypes, THNext
    PROVE  THTypes'
<1>1. /\ toModule \in Seq(Commands) /\ fromModule \in Seq(Frames) /\ chan \in Channels /\ asked \in Asked
      /\ calls \in Nat /\ late \in BOOLEAN /\ muddled \in BOOLEAN /\ device \in Devices /\ real \in Int
      /\ real \in Temperatures /\ taken \in Nat /\ reports \in Nat /\ told \in {"no", "coarse", "fine"}
    BY DEF THTypes, ObjectTypes, BusTypes, ModuleTypes
<1>2. ObjectTypes'
    <2>1. CASE SetPreset \/ SetClimateMode \/ SetTemp
        <3>1. calls' \in Nat /\ late' \in BOOLEAN  BY <1>1, <2>1, CallStep
        <3>2. muddled' \in BOOLEAN  BY <1>1, <2>1, CallStep
        <3>3. QED  BY <2>1, <3>1, <3>2, CallStep DEF ObjectTypes
    <2>2. CASE TakeCommand  BY <1>1, <2>2 DEF TakeCommand, object, ObjectTypes
    <2>3. CASE LocalControl
        <3>1. asked' \in Asked  BY <1>1, <2>3 DEF LocalControl, Asked
        <3>2. QED  BY <1>1, <2>3, <3>1 DEF LocalControl, ObjectTypes
    <2>4. CASE Report \/ Warm  BY <1>1, <2>4 DEF Report, Warm, Own, object, ObjectTypes
    <2>5. CASE HandleStatus \/ HandleTemperature
        <3>1. chan' \in Channels /\ late' \in BOOLEAN /\ UNCHANGED <<calls, asked, muddled>>
            BY <2>5, HandleStep
        <3>2. QED  BY <1>1, <3>1 DEF ObjectTypes
    <2>6. QED  BY <2>1, <2>2, <2>3, <2>4, <2>5 DEF THNext
<1>3. BusTypes'
    <2>1. CASE SetPreset \/ SetClimateMode \/ SetTemp
        <3>1. PICK m \in Commands : toModule' = Append(toModule, m)  BY <2>1, CallStep
        <3>2. fromModule' = fromModule  BY <2>1, CallStep
        <3>3. QED  BY <1>1, <3>1, <3>2 DEF BusTypes
    <2>2. CASE TakeCommand \/ LocalControl
        <3>1. PICK f \in Frames : fromModule' = Append(fromModule, f)  BY <2>2, TellStep
        <3>2. CASE TakeCommand
            <4>1. toModule # <<>> /\ toModule' = Tail(toModule)  BY <3>2 DEF TakeCommand
            <4>2. QED  BY <1>1, <3>1, <4>1 DEF BusTypes
        <3>3. CASE LocalControl
            <4>1. toModule' = toModule  BY <3>3 DEF LocalControl
            <4>2. QED  BY <1>1, <3>1, <4>1 DEF BusTypes
        <3>4. QED  BY <2>2, <3>2, <3>3
    <2>3. CASE Report
        <3>1. PICK f \in Frames : fromModule' = Append(fromModule, f)  BY <2>3, ReportStep
        <3>2. toModule' = toModule  BY <2>3, ReportStep
        <3>3. QED  BY <1>1, <3>1, <3>2 DEF BusTypes
    <2>4. CASE Warm  BY <1>1, <2>4 DEF Warm, Own, BusTypes
    <2>5. CASE HandleStatus \/ HandleTemperature
        <3>1. fromModule # <<>> /\ fromModule' = Tail(fromModule) /\ toModule' = toModule  BY <2>5, HandleStep
        <3>2. QED  BY <1>1, <3>1 DEF BusTypes
    <2>6. QED  BY <2>1, <2>2, <2>3, <2>4, <2>5 DEF THNext
<1>4. ModuleTypes'
    <2>1. CASE SetPreset \/ SetClimateMode \/ SetTemp
        <3>1. UNCHANGED <<device, real, taken, reports, told>>  BY <2>1, CallStep
        <3>2. QED  BY <1>1, <3>1 DEF ModuleTypes
    <2>2. CASE TakeCommand \/ LocalControl
        <3>1. device' \in Devices /\ real' = real /\ told' = IF told = "no" THEN "coarse" ELSE told
            BY <2>2, TellStep
        <3>2. taken' \in Nat /\ reports' \in Nat  BY <1>1, <2>2 DEF TakeCommand, LocalControl
        <3>3. QED  BY <1>1, <3>1, <3>2 DEF ModuleTypes
    <2>3. CASE Report
        <3>1. UNCHANGED <<device, real, taken>> /\ told' \in {"no", "coarse", "fine"}  BY <1>1, <2>3, ReportStep
        <3>2. reports' \in Nat  BY <1>1, <2>3 DEF Report, Own
        <3>3. QED  BY <1>1, <3>1, <3>2 DEF ModuleTypes
    <2>4. CASE Warm
        <3>1. real' \in Int /\ real' \in Temperatures  BY <2>4, Steps DEF Warm
        <3>2. QED  BY <1>1, <2>4, <3>1 DEF Warm, Own, ModuleTypes
    <2>5. CASE HandleStatus \/ HandleTemperature
        <3>1. UNCHANGED <<device, real, taken, reports, told>>  BY <2>5, HandleStep
        <3>2. QED  BY <1>1, <3>1 DEF ModuleTypes
    <2>6. QED  BY <2>1, <2>2, <2>3, <2>4, <2>5 DEF THNext
<1>5. QED  BY <1>2, <1>3, <1>4 DEF THTypes

(* The commands are counted, and no frame runs ahead of the module. *)
LEMMA CountStep ==
    ASSUME THTypes, Counted, Known(fromModule, taken), THNext
    PROVE  Counted' /\ Known(fromModule, taken)'
<1>1. toModule \in Seq(Commands) /\ fromModule \in Seq(Frames) /\ calls \in Nat /\ taken \in Nat
    BY DEF THTypes, ObjectTypes, BusTypes, ModuleTypes
<1>2. ASSUME NEW f \in Frames, fromModule' = Append(fromModule, f), taken' \in Nat, taken <= taken',
             f.kind = "status" => f.seen <= taken'
      PROVE  Known(fromModule, taken)'
    <2>1. /\ Len(fromModule') = Len(fromModule) + 1 /\ Len(fromModule) \in Nat
          /\ fromModule'[Len(fromModule) + 1] = f
          /\ \A i \in 1 .. Len(fromModule) : fromModule'[i] = fromModule[i] /\ fromModule[i] \in Frames
        BY <1>1, <1>2
    <2>2. ASSUME NEW i \in 1 .. Len(fromModule'), fromModule'[i].kind = "status"
          PROVE  fromModule'[i].seen <= taken'
        <3>1. CASE i = Len(fromModule) + 1  BY <1>2, <2>1, <2>2, <3>1
        <3>2. CASE i # Len(fromModule) + 1
            <4>1. i \in 1 .. Len(fromModule) /\ fromModule'[i] = fromModule[i]
                  /\ fromModule[i] \in Frames  BY <2>1, <3>2
            <4>2. fromModule[i].seen <= taken  BY <2>2, <4>1 DEF Known
            <4>3. fromModule[i].seen \in Nat  BY <2>2, <4>1 DEF Frames
            <4>4. QED  BY <1>1, <1>2, <4>1, <4>2, <4>3
        <3>3. QED  BY <3>1, <3>2
    <2>3. QED  BY <2>2 DEF Known
<1>3. CASE SetPreset \/ SetClimateMode \/ SetTemp
    <2>1. PICK m \in Commands : toModule' = Append(toModule, m)  BY <1>3, CallStep
    <2>2. calls' = calls + 1 /\ UNCHANGED <<taken, fromModule>>  BY <1>3, CallStep
    <2>3. Len(toModule') = Len(toModule) + 1 /\ Len(toModule) \in Nat  BY <1>1, <2>1
    <2>4. QED  BY <1>1, <2>2, <2>3 DEF Counted, Known
<1>4. CASE TakeCommand \/ LocalControl
    <2>1. PICK f \in Frames : fromModule' = Append(fromModule, f) /\ f.kind = "status" /\ f.seen = taken'
        BY <1>4, TellStep
    <2>2. calls' = calls  BY <1>4, TellStep
    <2>3. taken' \in Nat /\ taken <= taken'  BY <1>1, <1>4 DEF TakeCommand, LocalControl
    <2>4. taken' + Len(toModule') = taken + Len(toModule)
        <3>1. CASE TakeCommand
            <4>1. toModule # <<>> /\ toModule' = Tail(toModule) /\ taken' = taken + 1  BY <3>1 DEF TakeCommand
            <4>2. Len(Tail(toModule)) = Len(toModule) - 1 /\ Len(toModule) \in Nat  BY <1>1, <4>1
            <4>3. QED  BY <1>1, <4>1, <4>2
        <3>2. CASE LocalControl  BY <3>2 DEF LocalControl
        <3>3. QED  BY <1>4, <3>1, <3>2
    <2>5. Counted'  BY <2>2, <2>4 DEF Counted
    <2>6. taken' <= taken'  BY <2>3
    <2>7. Known(fromModule, taken)'  BY <1>2, <2>1, <2>3, <2>6
    <2>8. QED  BY <2>5, <2>7
<1>5. CASE Report
    <2>1. PICK f \in Frames : /\ fromModule' = Append(fromModule, f)
                              /\ (f.kind = "status" /\ f.seen = taken) \/ f.kind = "temperature"
        BY <1>5, ReportStep
    <2>2. UNCHANGED <<calls, taken, toModule>>  BY <1>5, ReportStep
    <2>3. QED  BY <1>1, <1>2, <2>1, <2>2 DEF Counted
<1>6. CASE Warm  BY <1>6 DEF Warm, Own, object, Counted, Known
<1>7. CASE HandleStatus \/ HandleTemperature
    <2>1. fromModule # <<>> /\ fromModule' = Tail(fromModule) /\ UNCHANGED <<calls, toModule, taken>>
        BY <1>7, HandleStep
    <2>2. /\ Len(fromModule') = Len(fromModule) - 1 /\ Len(fromModule) \in Nat
          /\ \A i \in 1 .. Len(fromModule') : fromModule'[i] = fromModule[i + 1]
        BY <1>1, <2>1
    <2>3. ASSUME NEW i \in 1 .. Len(fromModule') PROVE i + 1 \in 1 .. Len(fromModule)  BY <2>2
    <2>4. QED  BY <2>1, <2>2, <2>3 DEF Counted, Known
<1>8. QED  BY <1>3, <1>4, <1>5, <1>6, <1>7 DEF THNext

(* What the module is like is still on its way, or shown. *)
LEMMA ShownStep ==
    ASSUME THTypes, ShownInv, THNext
    PROVE  ShownInv'
<1>1. toModule \in Seq(Commands) /\ fromModule \in Seq(Frames)  BY DEF THTypes, BusTypes
<1>2. CASE SetPreset \/ SetClimateMode \/ SetTemp
    <2>1. PICK m \in Commands : toModule' = Append(toModule, m)  BY <1>2, CallStep
    <2>2. toModule' # <<>>  BY <1>1, <2>1
    <2>3. QED  BY <2>2 DEF ShownInv
<1>3. CASE TakeCommand \/ LocalControl
    <2>1. PICK f \in Frames : fromModule' = Append(fromModule, f) /\ f.kind = "status" /\ f.device = device'
        BY <1>3, TellStep
    <2>2. Reflects(Append(fromModule, f), chan', device')  BY <1>1, <2>1, ReflectsAppend
    <2>3. QED  BY <2>1, <2>2 DEF ShownInv
<1>4. CASE Report
    <2>1. PICK f \in Frames : /\ fromModule' = Append(fromModule, f)
                              /\ (f.kind = "status" /\ f.device = device) \/ f.kind = "temperature"
        BY <1>4, ReportStep
    <2>2. UNCHANGED <<chan, toModule, device>>  BY <1>4, ReportStep
    <2>3. toModule = <<>> => Reflects(Append(fromModule, f), chan, device)
        BY <1>1, <2>1, ReflectsAppend DEF ShownInv
    <2>4. QED  BY <2>1, <2>2, <2>3 DEF ShownInv
<1>5. CASE Warm  BY <1>5 DEF Warm, Own, object, ShownInv
<1>6. CASE HandleStatus \/ HandleTemperature
    <2>1. /\ fromModule # <<>> /\ fromModule' = Tail(fromModule) /\ UNCHANGED <<toModule, device>>
          /\ \/ fromModule[1].kind = "status" /\ Shows(chan', fromModule[1].device)
             \/ fromModule[1].kind = "temperature" /\ \A d : Shows(chan, d) => Shows(chan', d)
        BY <1>6, HandleStep
    <2>2. toModule = <<>> => Reflects(Tail(fromModule), chan', device)
        BY <1>1, <2>1, ReflectsTail DEF ShownInv
    <2>3. QED  BY <2>1, <2>2 DEF ShownInv
<1>7. QED  BY <1>2, <1>3, <1>4, <1>5, <1>6 DEF THNext

(* Since the module told of its temperature, every message is current. *)
LEMMA HeardStep ==
    ASSUME THTypes, HeardInv, THNext
    PROVE  HeardInv'
<1>1. fromModule \in Seq(Frames) /\ chan \in Channels /\ real \in Int /\ real \in Temperatures
    BY DEF THTypes, BusTypes, ObjectTypes, ModuleTypes
<1>2. CASE SetPreset \/ SetClimateMode \/ SetTemp
    <2>1. chan'.cur = chan.cur /\ UNCHANGED <<fromModule, real, told>>  BY <1>2, CallStep
    <2>2. QED  BY <2>1 DEF HeardInv
<1>3. CASE TakeCommand \/ LocalControl
    <2>1. PICK f \in Frames : fromModule' = Append(fromModule, f) /\ f.kind = "status" /\ f.cur = Floor(real, Coarse)
        BY <1>3, TellStep
    <2>2. UNCHANGED <<chan, real>> /\ told' = IF told = "no" THEN "coarse" ELSE told  BY <1>3, TellStep
    <2>3. Current(f, real, told')  BY <2>1 DEF Current
    <2>4. Hears(Append(fromModule, f), chan.cur, real, told')
        BY <1>1, <2>2, <2>3, HearsAppend DEF HeardInv
    <2>5. QED  BY <2>1, <2>2, <2>4 DEF HeardInv
<1>4. CASE Report
    <2>1. PICK f \in Frames :
              /\ fromModule' = Append(fromModule, f) /\ Current(f, real, told')
              /\ \/ told' = IF told = "no" THEN "coarse" ELSE told
                 \/ f.kind = "temperature" /\ told' = "fine"
        BY <1>4, ReportStep
    <2>2. UNCHANGED <<chan, real>>  BY <1>4, ReportStep
    <2>3. Hears(Append(fromModule, f), chan.cur, real, told')
        BY <1>1, <2>1, HearsAppend DEF HeardInv
    <2>4. QED  BY <2>1, <2>2, <2>3 DEF HeardInv
<1>5. CASE Warm  BY <1>5 DEF Warm, HeardInv, Hears
<1>6. CASE HandleStatus \/ HandleTemperature
    <2>1. /\ fromModule # <<>> /\ fromModule' = Tail(fromModule) /\ chan' \in Channels
          /\ UNCHANGED <<real, told>>
          /\ \/ /\ fromModule[1].kind = "status"
                /\ chan'.cur = Measured(chan, fromModule[1].cur, Coarse).cur
             \/ /\ fromModule[1].kind = "temperature"
                /\ chan'.cur = Measured(chan, Parsed(fromModule[1].raw), Fine).cur
        BY <1>6, HandleStep
    <2>2. chan.cur \in Int /\ chan'.cur \in Int  BY <1>1, <2>1 DEF Channels
    <2>3. ASSUME Current(fromModule[1], real, told),
                 Fits(chan.cur, real, told) \/ fromModule[1].kind = "temperature" \/ told # "fine"
          PROVE  Fits(chan'.cur, real, told)
        <3>1. CASE fromModule[1].kind = "temperature"
            <4>1. told = "fine" /\ chan'.cur = Measured(chan, Parsed(TwoBytes(Floor(real, Fine))), Fine).cur
                BY <2>1, <2>3, <3>1 DEF Current
            <4>2. Floor(chan'.cur, Fine) = Parsed(TwoBytes(Floor(real, Fine)))
                BY <1>1, <4>1, FineTold, MeasuredFine
            <4>3. QED  BY <1>1, <2>2, <4>1, <4>2, FineFits
        <3>2. CASE fromModule[1].kind = "status"
            <4>1. chan'.cur = Measured(chan, Floor(real, Coarse), Coarse).cur
                BY <2>1, <2>3, <3>2 DEF Current
            <4>2. QED  BY <1>1, <2>3, <3>2, <4>1, CoarseFits
        <3>3. QED  BY <2>1, <3>1, <3>2
    <2>4. Hears(Tail(fromModule), chan'.cur, real, told)
        BY <1>1, <2>1, <2>3, HearsTail DEF HeardInv
    <2>5. QED  BY <2>1, <2>4 DEF HeardInv
<1>7. QED  BY <1>2, <1>3, <1>4, <1>5, <1>6 DEF THNext

(* When no command is under way, the module is as asked. *)
LEMMA HeedsNone ==
    ASSUME NEW q, Len(q) = 0, NEW d, NEW a, Heeds(q, d, a)
    PROVE  Suits(a, d.mode, d.status)
BY DEF Heeds

(* A new status knows of all calls only when no command is under way. *)
LEMMA ConfirmsAppend ==
    ASSUME NEW q \in Seq(Frames), NEW f \in Frames, NEW n, NEW a, NEW b, Confirms(q, n, a),
           \A p, s : Suits(a, p, s) => Suits(b, p, s),
           f.kind = "status" /\ f.seen = n => Suits(b, f.device.mode, f.device.status)
    PROVE  Confirms(Append(q, f), n, b)
<1> DEFINE r == Append(q, f)
<1>1. /\ Len(r) = Len(q) + 1 /\ Len(q) \in Nat /\ r[Len(q) + 1] = f
      /\ \A i \in 1 .. Len(q) : r[i] = q[i]
    OBVIOUS
<1> HIDE DEF r
<1>2. ASSUME NEW i \in 1 .. Len(r), r[i].kind = "status", r[i].seen = n
      PROVE  Suits(b, r[i].device.mode, r[i].device.status)
    <2>1. CASE i = Len(q) + 1  BY <1>1, <1>2, <2>1
    <2>2. CASE i # Len(q) + 1
        <3>1. i \in 1 .. Len(q) /\ r[i] = q[i]  BY <1>1, <2>2
        <3>2. Suits(a, q[i].device.mode, q[i].device.status)  BY <1>2, <3>1 DEF Confirms
        <3>3. QED  BY <3>1, <3>2
    <2>3. QED  BY <2>1, <2>2
<1>3. QED  BY <1>2 DEF Confirms, r

(* A channel with the module's own time repeats the module's status. *)
LEMMA Repeats ==
    ASSUME NEW c \in Channels, c.cstatus = StatusFor(c.sleep_timer)
    PROVE  StatusFor(SleepOf(c)) = c.cstatus
<1>1. CASE c.cstatus = "manual"  BY <1>1 DEF SleepOf, StatusFor, Manual
<1>2. CASE c.cstatus = "sleep"  BY <1>2 DEF SleepOf
<1>3. CASE c.cstatus = "run"  BY <1>3 DEF SleepOf, StatusFor
<1>4. QED  BY <1>1, <1>2, <1>3 DEF StatusFor

(* What a call asks for is in the command it sends and in the object. *)
LEMMA AskedCall ==
    ASSUME THTypes, Counted, Known(fromModule, taken), AskedInv, SetPreset \/ SetClimateMode \/ SetTemp
    PROVE  AskedInv'
<1>1. /\ toModule \in Seq(Commands) /\ fromModule \in Seq(Frames) /\ chan \in Channels /\ asked \in Asked
      /\ calls \in Nat /\ taken \in Nat /\ late \in BOOLEAN /\ muddled \in BOOLEAN
    BY DEF THTypes, ObjectTypes, BusTypes, ModuleTypes
<1>2. calls' = calls + 1 /\ muddled' = (muddled \/ late) /\ UNCHANGED <<late, fromModule, device>>
    BY CallStep
<1> SUFFICES ASSUME ~muddled, ~late
             PROVE  /\ Heeds(toModule', device, asked') /\ Confirms(fromModule, calls + 1, asked')
                    /\ Holds(chan', asked')
    BY <1>1, <1>2 DEF AskedInv
<1>3. Heeds(toModule, device, asked) /\ Holds(chan, asked)  BY DEF AskedInv
<1>4. Confirms(fromModule, calls + 1, asked')
    <2>1. Len(toModule) \in Nat  BY <1>1
    <2>2. taken <= calls  BY <1>1, <2>1 DEF Counted
    <2>3. ASSUME NEW i \in 1 .. Len(fromModule), fromModule[i].kind = "status"
          PROVE  fromModule[i].seen # calls + 1
        <3>1. fromModule[i] \in Frames  BY <1>1
        <3>2. fromModule[i].seen \in Nat  BY <2>3, <3>1 DEF Frames
        <3>3. fromModule[i].seen <= taken  BY <2>3 DEF Known
        <3>4. QED  BY <1>1, <2>2, <3>2, <3>3
    <2>4. QED  BY <2>3 DEF Confirms
<1>5. ASSUME NEW c \in Channels, SwitchMode(c), Holds(c, asked')
      PROVE  Heeds(toModule', device, asked') /\ Holds(chan', asked')
    <2> DEFINE m == [mode |-> c.cmode, sleep |-> SleepOf(c)]
    <2>1. m \in Commands /\ SwitchesMode(m)  BY SleepType DEF Commands, Channels, SwitchesMode
    <2>2. Suits(asked', m.mode, StatusFor(m.sleep))  BY <1>5 DEF Holds
    <2>3. toModule' = Append(toModule, m) /\ chan' = c  BY <1>5 DEF SwitchMode
    <2> HIDE DEF m
    <2>4. Heeds(Append(toModule, m), device, asked')  BY <1>1, <2>1, <2>2, HeedsAppend
    <2>5. QED  BY <1>5, <2>3, <2>4
<1>6. CASE SetPreset
    <2>1. PICK p \in Presets : SwitchMode([chan EXCEPT !.cmode = p]) /\ asked' = [asked EXCEPT !.preset = p]
        BY <1>6 DEF SetPreset
    <2> DEFINE c == [chan EXCEPT !.cmode = p]
    <2>2. c \in Channels /\ c.cmode = p /\ c.cstatus = chan.cstatus /\ c.sleep_timer = chan.sleep_timer
        BY <1>1 DEF Channels
    <2>3. SleepOf(c) = SleepOf(chan)  BY <2>2 DEF SleepOf
    <2>4. asked'.preset = p /\ asked'.mode = asked.mode  BY <1>1, <2>1 DEF Asked
    <2>5. Holds(c, asked')  BY <1>3, <2>2, <2>3, <2>4 DEF Holds, Suits
    <2> HIDE DEF c
    <2>6. SwitchMode(c)  BY <2>1 DEF c
    <2>7. QED  BY <1>4, <1>5, <2>2, <2>5, <2>6
<1>7. CASE SetClimateMode
    <2>1. PICK m \in {"run", "manual", "sleep"} :
              /\ SwitchMode([chan EXCEPT !.cstatus = m])
              /\ asked' = [asked EXCEPT !.mode =
                     IF m = "sleep" /\ chan.sleep_timer \notin 1 .. MaxSleep THEN Any ELSE m]
        BY <1>7 DEF SetClimateMode
    <2> DEFINE c == [chan EXCEPT !.cstatus = m]
    <2>2. c \in Channels /\ c.cmode = chan.cmode /\ c.cstatus = m /\ c.sleep_timer = chan.sleep_timer
        BY <1>1 DEF Channels, Statuses
    <2>3. asked'.preset = asked.preset
          /\ asked'.mode = IF m = "sleep" /\ chan.sleep_timer \notin 1 .. MaxSleep THEN Any ELSE m
        BY <1>1, <2>1 DEF Asked
    <2>4. asked'.mode \in {Any, StatusFor(SleepOf(c))}
        <3>1. CASE m = "run"  BY <2>2, <2>3, <3>1 DEF SleepOf, StatusFor
        <3>2. CASE m = "manual"  BY <2>2, <2>3, <3>2 DEF SleepOf, StatusFor, Manual
        <3>3. CASE m = "sleep" /\ chan.sleep_timer \in 1 .. MaxSleep
            <4>1. MaxSleep \in 1 .. Manual - 1  BY ThermostatAssumption
            <4>2. Manual \in Int  BY DEF Manual
            <4>3. chan.sleep_timer # 0 /\ chan.sleep_timer # Manual  BY <3>3, <4>1, <4>2
            <4>4. SleepOf(c) = chan.sleep_timer  BY <2>2, <3>3 DEF SleepOf
            <4>5. QED  BY <2>3, <3>3, <4>3, <4>4 DEF StatusFor
        <3>4. CASE m = "sleep" /\ chan.sleep_timer \notin 1 .. MaxSleep  BY <2>3, <3>4
        <3>5. QED  BY <3>1, <3>2, <3>3, <3>4
    <2>5. Holds(c, asked')  BY <1>3, <2>2, <2>3, <2>4 DEF Holds, Suits
    <2> HIDE DEF c
    <2>6. SwitchMode(c)  BY <2>1 DEF c
    <2>7. QED  BY <1>4, <1>5, <2>2, <2>5, <2>6
<1>8. CASE SetTemp
    <2>1. PICK t \in Targets : toModule' = Append(toModule, [target |-> t])  BY <1>8 DEF SetTemp
    <2>2. [target |-> t] \in Commands /\ ~SwitchesMode([target |-> t])  BY DEF Commands, SwitchesMode
    <2>3. Heeds(Append(toModule, [target |-> t]), device, asked)  BY <1>1, <1>3, <2>2, HeedsAppend
    <2>4. QED  BY <1>3, <1>4, <1>8, <2>1, <2>3 DEF SetTemp
<1>9. QED  BY <1>6, <1>7, <1>8

(* What was asked for goes on to the module, to its status and to the object. *)
LEMMA AskedStep ==
    ASSUME THTypes, Counted, Known(fromModule, taken), AskedInv, THNext
    PROVE  AskedInv'
<1>1. /\ toModule \in Seq(Commands) /\ fromModule \in Seq(Frames) /\ chan \in Channels /\ asked \in Asked
      /\ calls \in Nat /\ taken \in Nat /\ late \in BOOLEAN /\ muddled \in BOOLEAN /\ device \in Devices
    BY DEF THTypes, ObjectTypes, BusTypes, ModuleTypes
<1>2. CASE SetPreset \/ SetClimateMode \/ SetTemp  BY <1>2, AskedCall
<1>3. ASSUME UNCHANGED <<chan, calls, late, muddled>>, \A p, s : Suits(asked, p, s) => Suits(asked', p, s),
             Heeds(toModule, device, asked) => Heeds(toModule', device', asked'),
             NEW f \in Frames, fromModule' = Append(fromModule, f),
             f.kind = "status" => f.device = device' /\ f.seen = taken', Counted', taken' \in Nat,
             toModule' \in Seq(Commands)
      PROVE  AskedInv'
    <2> SUFFICES ASSUME ~muddled
                 PROVE  /\ Heeds(toModule', device', asked') /\ Confirms(fromModule', calls, asked')
                        /\ ~late => Holds(chan, asked')
        BY <1>3 DEF AskedInv
    <2>1. Heeds(toModule, device, asked) /\ Confirms(fromModule, calls, asked) /\ (~late => Holds(chan, asked))
        BY DEF AskedInv
    <2>2. Heeds(toModule', device', asked') /\ (~late => Holds(chan, asked'))  BY <1>3, <2>1 DEF Holds
    <2>3. ASSUME f.kind = "status", f.seen = calls PROVE Suits(asked', f.device.mode, f.device.status)
        <3>1. Len(toModule') = 0
            <4>1. taken' + Len(toModule') = calls /\ taken' = calls  BY <1>3, <2>3 DEF Counted
            <4>2. Len(toModule') \in Nat  BY <1>3
            <4>3. QED  BY <1>1, <4>1, <4>2
        <3>2. QED  BY <1>3, <2>2, <2>3, <3>1, HeedsNone
    <2>4. Confirms(Append(fromModule, f), calls, asked')  BY <1>1, <1>3, <2>1, <2>3, ConfirmsAppend
    <2>5. QED  BY <1>3, <2>2, <2>4
<1>4. Counted' /\ THTypes'  BY CountStep, TypesStep
<1>5. taken' \in Nat /\ toModule' \in Seq(Commands)  BY <1>4 DEF THTypes, ModuleTypes, BusTypes
<1>6. CASE TakeCommand
    <2>1. PICK f \in Frames : fromModule' = Append(fromModule, f) /\ f.kind = "status" /\ f.device = device' /\ f.seen = taken'
        BY <1>6, TellStep
    <2>2. UNCHANGED <<chan, calls, asked, late, muddled>>  BY <1>6 DEF TakeCommand, object
    <2>3. toModule # <<>> /\ toModule' = Tail(toModule)  BY <1>6 DEF TakeCommand
    <2>4. Head(toModule) = toModule[1] /\ toModule[1] \in Commands  BY <1>1, <2>3
    <2>5. IF SwitchesMode(toModule[1])
          THEN device'.mode = toModule[1].mode /\ device'.status = StatusFor(toModule[1].sleep)
          ELSE device'.mode = device.mode /\ device'.status = device.status
        BY <1>1, <1>6, <2>4 DEF TakeCommand, SwitchesMode, Devices
    <2>6. Heeds(toModule, device, asked) => Heeds(toModule', device', asked')
        BY <1>1, <2>2, <2>3, <2>5, HeedsTail
    <2>7. QED  BY <1>3, <1>4, <1>5, <2>1, <2>2, <2>6
<1>7. CASE LocalControl
    <2>1. PICK f \in Frames : fromModule' = Append(fromModule, f) /\ f.kind = "status" /\ f.device = device' /\ f.seen = taken'
        BY <1>7, TellStep
    <2>2. UNCHANGED <<chan, calls, late, muddled, toModule>>  BY <1>7 DEF LocalControl
    <2>3. /\ \A p, s : Suits(asked, p, s) => Suits(asked', p, s)
          /\ Suits(asked, device.mode, device.status) => Suits(asked', device'.mode, device'.status)
        <3>1. CASE asked' = [asked EXCEPT !.preset = Any] /\ \E p \in Presets : device' = [device EXCEPT !.mode = p]
            <4>1. asked'.preset = Any /\ asked'.mode = asked.mode /\ device'.status = device.status
                BY <1>1, <3>1 DEF Asked, Devices
            <4>2. QED  BY <4>1 DEF Suits
        <3>2. CASE asked' = [asked EXCEPT !.mode = Any]
                   /\ \E s, n : device' = [device EXCEPT !.status = s, !.timer = n]
            <4>1. asked'.mode = Any /\ asked'.preset = asked.preset /\ device'.mode = device.mode
                BY <1>1, <3>2 DEF Asked, Devices
            <4>2. QED  BY <4>1 DEF Suits
        <3>3. QED  BY <1>7, <3>1, <3>2 DEF LocalControl
    <2>4. Heeds(toModule, device, asked) => Heeds(toModule', device', asked')
        BY <1>1, <2>2, <2>3, HeedsOther
    <2>5. QED  BY <1>3, <1>4, <1>5, <2>1, <2>2, <2>3, <2>4
<1>8. CASE Report
    <2>1. PICK f \in Frames : /\ fromModule' = Append(fromModule, f)
                              /\ (f.kind = "status" /\ f.device = device /\ f.seen = taken) \/ f.kind = "temperature"
        BY <1>8, ReportStep
    <2>2. UNCHANGED <<chan, calls, asked, late, muddled, toModule, device, taken>>  BY <1>8, ReportStep
    <2>3. f.kind = "status" => f.device = device' /\ f.seen = taken'  BY <2>1, <2>2
    <2>4. Heeds(toModule, device, asked) => Heeds(toModule', device', asked')  BY <2>2
    <2>5. QED  BY <1>3, <1>4, <1>5, <2>1, <2>2, <2>3, <2>4
<1>9. CASE Warm  BY <1>9 DEF Warm, Own, object, AskedInv
<1>10. CASE HandleStatus \/ HandleTemperature
    <2>1. /\ fromModule # <<>> /\ fromModule' = Tail(fromModule) /\ chan' \in Channels
          /\ UNCHANGED <<calls, asked, muddled, toModule, device>>
        BY <1>10, HandleStep
    <2> SUFFICES ASSUME ~muddled
                 PROVE  Confirms(Tail(fromModule), calls, asked) /\ (~late' => Holds(chan', asked))
        BY <2>1 DEF AskedInv
    <2>2. Confirms(fromModule, calls, asked) /\ (~late => Holds(chan, asked))  BY DEF AskedInv
    <2>3. Confirms(Tail(fromModule), calls, asked)
        <3>1. ASSUME NEW i \in 1 .. Len(Tail(fromModule))
              PROVE  i + 1 \in 1 .. Len(fromModule) /\ Tail(fromModule)[i] = fromModule[i + 1]
            BY <1>1, <2>1
        <3>2. QED  BY <2>2, <3>1 DEF Confirms
    <2>4. CASE fromModule[1].kind = "temperature"
        <3>1. late' = late /\ \A a : Holds(chan, a) => Holds(chan', a)  BY <1>10, <2>4, HandleStep
        <3>2. QED  BY <2>2, <2>3, <3>1
    <2>5. CASE fromModule[1].kind = "status"
        <3> DEFINE f == fromModule[1]
        <3>1. /\ late' = (f.seen < calls) /\ f.device \in Devices /\ f.seen \in Nat
              /\ Shows(chan', f.device) /\ chan'.sleep_timer = f.device.timer
            BY <1>10, <2>5, HandleStep
        <3>2. 1 \in 1 .. Len(fromModule) /\ Len(toModule) \in Nat  BY <1>1, <2>1
        <3> HIDE DEF f
        <3>3. ASSUME ~late' PROVE Holds(chan', asked)
            <4>1. f.seen <= taken /\ taken <= calls  BY <1>1, <2>5, <3>2 DEF Known, Counted, f
            <4>2. f.seen = calls
                <5>1. ~(f.seen < calls)  BY <3>1, <3>3, Zenon
                <5>2. QED  BY <1>1, <3>1, <4>1, <5>1
            <4>3. Suits(asked, f.device.mode, f.device.status)  BY <2>2, <2>5, <3>2, <4>2 DEF Confirms, f
            <4>4. chan'.cstatus = StatusFor(chan'.sleep_timer)  BY <3>1 DEF Shows, Devices
            <4>5. StatusFor(SleepOf(chan')) = chan'.cstatus  BY <2>1, <4>4, Repeats
            <4>6. QED  BY <3>1, <4>3, <4>5 DEF Holds, Shows
        <3>4. QED  BY <2>3, <3>3
    <2>6. fromModule[1].kind \in {"temperature", "status"}  BY <1>10, HandleStep
    <2>7. QED  BY <2>4, <2>5, <2>6
<1>11. QED  BY <1>2, <1>6, <1>7, <1>8, <1>9, <1>10 DEF THNext
-----------------------------------------------------------------------------
(* The inductive invariant: for any precisions, presets, targets and bounds,
   the messages under way carry what was asked for to the module and what the
   module is like and measures back to the object.                          *)
THEOREM ThermostatInductive == THSpec => []THInv
<1>1. THInit => THInv
    <2> SUFFICES ASSUME THInit PROVE THInv  OBVIOUS
    <2> USE DEF THInit
    <2>1. device \in Devices /\ device.target = 0
        <3>1. 0 \in 0 .. Manual  BY DEF Manual
        <3>2. QED  BY <3>1, StatusType DEF Devices, Statuses, Held
    <2>2. chan \in Channels /\ SleepOf(chan) = 0 /\ Shows(chan, device)
        <3>1. 0 \in 0 .. Manual  BY DEF Manual
        <3>2. chan \in Channels  BY <2>1, <3>1 DEF Channels, Devices, Precisions, Statuses, Held
        <3>3. QED  BY <3>2 DEF SleepOf, Shows
    <2>3. asked \in Asked /\ asked.preset = Any /\ asked.mode = Any  BY DEF Asked
    <2>4. toModule \in Seq(Commands) /\ fromModule \in Seq(Frames) /\ Len(toModule) = 0 /\ Len(fromModule) = 0
        OBVIOUS
    <2>5. THTypes
        <3>1. real \in Int /\ real \in Temperatures  BY Steps
        <3>2. QED  BY <2>1, <2>2, <2>3, <2>4, <3>1 DEF THTypes, ObjectTypes, BusTypes, ModuleTypes
    <2>6. Counted /\ Known(fromModule, taken)  BY <2>4 DEF Counted, Known
    <2>7. AskedInv  BY <2>3, <2>4 DEF AskedInv, Heeds, Confirms, Holds, Suits
    <2>8. ShownInv  BY <2>2, <2>4 DEF ShownInv, Reflects
    <2>9. HeardInv  BY DEF HeardInv, Hears
    <2>10. QED  BY <2>5, <2>6, <2>7, <2>8, <2>9 DEF THInv
<1>2. THInv /\ [THNext]_thvars => THInv'
    <2> SUFFICES ASSUME THInv, [THNext]_thvars PROVE THInv'  OBVIOUS
    <2> USE DEF THInv
    <2>1. CASE THNext  BY <2>1, TypesStep, CountStep, AskedStep, ShownStep, HeardStep
    <2>2. CASE UNCHANGED thvars
        BY <2>2 DEF thvars, object, bus, module, THTypes, ObjectTypes, BusTypes, ModuleTypes, Counted, Known,
                    AskedInv, ShownInv, HeardInv
    <2>3. QED  BY <2>1, <2>2
<1>3. QED  BY <1>1, <1>2, PTL DEF THSpec

(* Once everything sent has arrived the object shows what the module does
   (_handle_temp_sensor_status()), and the module does what was last asked for
   in set_preset() and set_climate_mode(), although each command of
   _switch_mode() is made of both: unless a call was made after a status older
   than the call before.                                                     *)
THEOREM AskedIsDone == THSpec => []AskedFor
<1>1. THInv => AskedFor
    <2> SUFFICES ASSUME THInv, Quiet PROVE /\ Shows(chan, device)
                                           /\ ~muddled => Suits(asked, device.mode, device.status)
        BY DEF AskedFor, Shows, Suits
    <2>1. Len(toModule) = 0 /\ Len(fromModule) = 0  BY DEF Quiet
    <2>2. Shows(chan, device)  BY <2>1 DEF THInv, ShownInv, Reflects, Quiet
    <2>3. ~muddled => Suits(asked, device.mode, device.status)  BY <2>1, HeedsNone DEF THInv, AskedInv
    <2>4. QED  BY <2>2, <2>3
<1>2. QED  BY <1>1, ThermostatInductive, PTL

(* When the messages sent since the temperature last changed have arrived, the
   channel is within a coarse step of it, and within a fine one if a fine
   message was among them and it does not freeze; below zero it may also be a
   degree above it, if a fine message came last (TemperatureField.parse(),
   maybe_update_temperature()).                                              *)
THEOREM TemperatureIsKnown == THSpec => []TemperatureFits
<1>1. THInv => TemperatureFits
    <2> SUFFICES ASSUME THInv, fromModule = <<>>, told \in {"coarse", "fine"} PROVE Fits(chan.cur, real, told)
        BY DEF TemperatureFits, Fits, THInv, THTypes, ModuleTypes
    <2>1. Len(fromModule) = 0  OBVIOUS
    <2>2. \E i \in 0 .. 0 : HearsFrom(fromModule, i, chan.cur, real, told)
        BY <2>1 DEF THInv, HeardInv, Hears
    <2>3. HearsFrom(fromModule, 0, chan.cur, real, told)  BY <2>2
    <2>4. QED  BY <2>3 DEF HearsFrom
<1>2. QED  BY <1>1, ThermostatInductive, PTL

=============================================================================
