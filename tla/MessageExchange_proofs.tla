------------------------ MODULE MessageExchange_proofs ------------------------
(***************************************************************************)
(* Proofs about MessageExchange: what a class writes it reads again, for   *)
(* all values of its attributes, and it fits in a packet.                  *)
(*                                                                         *)
(* Everything rests on the fields: a field that is written is read back as *)
(* it was (FieldsReadBack), and a body has each of them where it is read   *)
(* (Placed), because it is the fields one after the other.                 *)
(***************************************************************************)
EXTENDS MessageExchange, SequenceTheorems, FiniteSetTheorems, WellFoundedInduction, TLAPS

(* A set of naturals that is not empty has a least element. *)
LEMMA Least ==
    ASSUME NEW T \in SUBSET Nat, T # {}
    PROVE  \E n \in T : \A m \in T : n <= m
<1> DEFINE D == {1 .. n : n \in T}
           R == StrictSubsetOrdering(Nat)
           F == FiniteSubsetsOf(Nat)
<1>1. IsWellFoundedOn(R, F)  BY FS_StrictSubsetOrderingWellFounded
<1>2. D \subseteq F
    <2>1. ASSUME NEW n \in T PROVE IsFiniteSet(1 .. n) /\ 1 .. n \subseteq Nat
        <3>1. 1 \in Int /\ n \in Int  OBVIOUS
        <3>2. IsFiniteSet(1 .. n)  BY <3>1, FS_Interval, Zenon
        <3>3. QED  BY <3>2
    <2>2. QED  BY <2>1 DEF FiniteSubsetsOf
<1>3. D # {}  OBVIOUS
<1>4. PICK X \in D : \A Y \in D : <<Y, X>> \notin R
    <2> HIDE DEF D, R, F
    <2>1. QED  BY <1>1, <1>2, <1>3, WFMin
<1>5. PICK n \in T : X = 1 .. n  OBVIOUS
<1>6. ASSUME NEW m \in T, ~(n <= m) PROVE FALSE
    <2>1. 1 .. m \in D  OBVIOUS
    <2>2. 1 .. m \subseteq 1 .. n /\ n \in 1 .. n /\ n \notin 1 .. m  BY <1>6
    <2>3. <<1 .. m, X>> \in R  BY <1>5, <2>2 DEF StrictSubsetOrdering
    <2>4. QED  BY <1>4, <2>1, <2>3
<1>7. QED  BY <1>6

(* Induction up to n, on the set of the numbers for which something holds. *)
LEMMA UpTo ==
    ASSUME NEW n \in Nat, NEW G \in SUBSET Int, 0 \in G,
           \A i \in 1 .. n : i - 1 \in G => i \in G
    PROVE  \A i \in 0 .. n : i \in G
<1>1. SUFFICES ASSUME (0 .. n) \ G # {} PROVE FALSE  OBVIOUS
<1>2. (0 .. n) \ G \in SUBSET Nat  OBVIOUS
<1>3. PICK i \in (0 .. n) \ G : \A j \in (0 .. n) \ G : i <= j  BY <1>1, <1>2, Least
<1>4. i # 0  OBVIOUS
<1>5. i - 1 \in 0 .. n /\ i \in 1 .. n /\ ~ (i <= i - 1)  BY <1>4
<1>6. i - 1 \in G  BY <1>3, <1>5
<1>7. QED  BY <1>5, <1>6

(* k is the function on 0 .. n that is base at 0 and goes on by step[i]. *)
Obeys(k, V, n, base, step) ==
    k \in [0 .. n -> V] /\ k[0] = base /\ \A i \in 1 .. n : k[i] = step[i][k[i - 1]]

(* There is such a function. *)
LEMMA Recursion ==
    ASSUME NEW V, NEW n \in Nat, NEW base \in V, NEW step \in [1 .. n -> [V -> V]]
    PROVE  \E k : Obeys(k, V, n, base, step)
<1> DEFINE Up(m, k) == k[0] = base /\ \A i \in 1 .. m : k[i] = step[i][k[i - 1]]
           G == {m \in 0 .. n : \E k \in [0 .. m -> V] : Up(m, k)}
<1>1. 0 \in G
    <2>1. [i \in 0 .. 0 |-> base] \in [0 .. 0 -> V] /\ Up(0, [i \in 0 .. 0 |-> base])  OBVIOUS
    <2>2. \E k \in [0 .. 0 -> V] : Up(0, k)
        <3> HIDE DEF Up
        <3>1. QED  BY <2>1
    <2>3. 0 \in 0 .. n  OBVIOUS
    <2>4. QED  BY <2>2, <2>3
<1>2. ASSUME NEW m \in 1 .. n, m - 1 \in G PROVE m \in G
    <2>1. PICK k \in [0 .. m - 1 -> V] : Up(m - 1, k)  BY <1>2
    <2> DEFINE next == [i \in 0 .. m |-> IF i = m THEN step[m][k[m - 1]] ELSE k[i]]
    <2>2. m - 1 \in 0 .. m - 1 /\ 0 # m /\ 0 \in 0 .. m /\ 0 \in 0 .. m - 1  OBVIOUS
    <2>3. step[m] \in [V -> V] /\ k[m - 1] \in V  BY <2>2
    <2>4. step[m][k[m - 1]] \in V  BY <2>3
    <2>5. next \in [0 .. m -> V]
        <3>1. ASSUME NEW i \in 0 .. m, i # m PROVE k[i] \in V
            <4>1. i \in 0 .. m - 1  BY <3>1
            <4>2. QED  BY <4>1
        <3>2. QED  BY <3>1, <2>4
    <2>6. next[0] = base  BY <2>1, <2>2
    <2>7. ASSUME NEW i \in 1 .. m PROVE next[i] = step[i][next[i - 1]]
        <3>1. i \in 0 .. m /\ i - 1 \in 0 .. m /\ i - 1 # m  OBVIOUS
        <3>2. next[i - 1] = k[i - 1]  BY <3>1
        <3>3. CASE i = m  BY <3>1, <3>2, <3>3
        <3>4. CASE i # m
            <4>1. i \in 1 .. m - 1  BY <3>4
            <4>2. QED  BY <2>1, <3>1, <3>2, <3>4, <4>1
        <3>5. QED  BY <3>3, <3>4
    <2>8. Up(m, next)
        <3> HIDE DEF next
        <3>1. QED  BY <2>6, <2>7
    <2>9. \E l \in [0 .. m -> V] : Up(m, l)
        <3> HIDE DEF Up, next
        <3>1. QED  BY <2>5, <2>8
    <2>10. m \in 0 .. n  OBVIOUS
    <2>11. QED  BY <2>9, <2>10
<1>3. n \in G
    <2> HIDE DEF G
    <2>1. G \in SUBSET Int  BY DEF G
    <2>2. \A i \in 0 .. n : i \in G  BY <1>1, <1>2, <2>1, UpTo
    <2>3. QED  BY <2>2
<1>4. QED  BY <1>3 DEF Obeys

(* Only() keeps the elements that are in the set, and nothing else. *)
LEMMA OnlyKeeps ==
    ASSUME NEW T, NEW s \in Seq(T), NEW S
    PROVE  Only(s, S) \in Seq(T) /\ ToSet(Only(s, S)) = ToSet(s) \cap S
<1> DEFINE V == Seq(T)
           n == Len(s)
           keep == [i \in 1 .. n |-> [v \in V |-> IF s[i] \in S THEN Append(v, s[i]) ELSE v]]
           Solves(k) == k = [i \in 0 .. Len(s) |->
                           IF i = 0 THEN <<>>
                           ELSE IF s[i] \in S THEN Append(k[i - 1], s[i]) ELSE k[i - 1]]
           kk == CHOOSE k : Solves(k)
           upTo(i) == {s[j] : j \in 1 .. i}
           G == {i \in 0 .. n : kk[i] \in Seq(T) /\ ToSet(kk[i]) = upTo(i) \cap S}
<1>1. n \in Nat /\ \A i \in 1 .. n : s[i] \in T  OBVIOUS
<1>2. Only(s, S) = kk[n]  BY DEF Only
<1>3. \A i \in 1 .. n : \A v \in V : Append(v, s[i]) \in V  BY <1>1
<1>4. keep \in [1 .. n -> [V -> V]]  BY <1>3
<1>5. <<>> \in V  OBVIOUS
<1>6. PICK k : Obeys(k, V, n, <<>>, keep)
    <2> HIDE DEF V, n, keep
    <2>1. QED  BY <1>1, <1>4, <1>5, Recursion
<1>7. ASSUME NEW i \in 1 .. n PROVE k[i] = IF s[i] \in S THEN Append(k[i - 1], s[i]) ELSE k[i - 1]
    <2>1. i - 1 \in 0 .. n  OBVIOUS
    <2>2. k[i - 1] \in V  BY <1>6, <2>1 DEF Obeys
    <2>3. k[i] = keep[i][k[i - 1]]  BY <1>6 DEF Obeys
    <2>4. keep[i] = [v \in V |-> IF s[i] \in S THEN Append(v, s[i]) ELSE v]  OBVIOUS
    <2> HIDE DEF keep, V
    <2>5. QED  BY <2>2, <2>3, <2>4
<1>8. Solves(k)
    <2>1. k = [i \in 0 .. n |-> k[i]]  BY <1>6 DEF Obeys
    <2>2. ASSUME NEW i \in 0 .. n
          PROVE  k[i] = IF i = 0 THEN <<>>
                        ELSE IF s[i] \in S THEN Append(k[i - 1], s[i]) ELSE k[i - 1]
        <3>1. CASE i = 0  BY <3>1, <1>6 DEF Obeys
        <3>2. CASE i # 0
            <4>1. i \in 1 .. n  BY <3>2
            <4>2. QED  BY <3>2, <4>1, <1>7
        <3>3. QED  BY <3>1, <3>2
    <2>3. QED  BY <2>1, <2>2
<1>9. Solves(kk)
    <2> HIDE DEF Solves
    <2>1. QED  BY <1>8
<1> HIDE DEF kk
<1>10. kk[0] = <<>>  BY <1>1, <1>9
<1>11. ASSUME NEW i \in 1 .. n
       PROVE  kk[i] = IF s[i] \in S THEN Append(kk[i - 1], s[i]) ELSE kk[i - 1]
    <2>1. i \in 0 .. Len(s) /\ i # 0  OBVIOUS
    <2>2. QED  BY <2>1, <1>9
<1>12. 0 \in G
    <2>1. ToSet(<<>>) = {} /\ upTo(0) = {}  BY DEF ToSet
    <2>2. 0 \in 0 .. n /\ <<>> \in Seq(T)  BY <1>1
    <2> HIDE DEF upTo
    <2>3. QED  BY <1>10, <2>1, <2>2
<1>13. ASSUME NEW i \in 1 .. n, i - 1 \in G PROVE i \in G
    <2>1. i \in 0 .. n /\ s[i] \in T  BY <1>1
    <2>2. kk[i - 1] \in Seq(T) /\ ToSet(kk[i - 1]) = upTo(i - 1) \cap S  BY <1>13
    <2>3. upTo(i) = upTo(i - 1) \cup {s[i]}
        <3>1. 1 .. i = (1 .. i - 1) \cup {i}  OBVIOUS
        <3>2. QED  BY <3>1
    <2>4. CASE s[i] \in S
        <3>1. kk[i] = Append(kk[i - 1], s[i])  BY <2>4, <1>11
        <3>2. ToSet(kk[i]) = ToSet(kk[i - 1]) \cup {s[i]}
            <4>1. DOMAIN kk[i] = (DOMAIN kk[i - 1]) \cup {Len(kk[i - 1]) + 1}  BY <3>1, <2>1, <2>2
            <4>2. \A j \in DOMAIN kk[i - 1] : kk[i][j] = kk[i - 1][j]  BY <3>1, <2>1, <2>2
            <4>3. kk[i][Len(kk[i - 1]) + 1] = s[i]  BY <3>1, <2>1, <2>2
            <4>4. QED  BY <4>1, <4>2, <4>3 DEF ToSet
        <3>3. kk[i] \in Seq(T)  BY <3>1, <2>1, <2>2
        <3>4. ToSet(kk[i]) = upTo(i) \cap S  BY <2>2, <2>3, <2>4, <3>2
        <3> HIDE DEF upTo
        <3>5. QED  BY <2>1, <3>3, <3>4
    <2>5. CASE s[i] \notin S
        <3>1. kk[i] = kk[i - 1]  BY <2>5, <1>11
        <3>2. ToSet(kk[i]) = upTo(i) \cap S  BY <2>2, <2>3, <2>5, <3>1
        <3> HIDE DEF upTo
        <3>3. QED  BY <2>1, <2>2, <3>1, <3>2
    <2>6. QED  BY <2>4, <2>5
<1>14. n \in G
    <2> HIDE DEF G, n
    <2>1. G \in SUBSET Int  BY <1>1 DEF G
    <2>2. \A i \in 0 .. n : i \in G  BY <1>1, <1>12, <1>13, <2>1, UpTo
    <2>3. QED  BY <1>1, <2>2
<1>15. upTo(n) = ToSet(s)  BY DEF ToSet
<1>16. QED  BY <1>2, <1>14, <1>15

(* The elements of two sequences that are joined: those of the first, *)
LEMMA FirstPart ==
    ASSUME NEW p \in Seq(Int), NEW q \in Seq(Int)
    PROVE  \A x \in 1 .. Len(p) : (p \o q)[x] = p[x]
<1> TAKE x \in 1 .. Len(p)
<1>1. Len(p) \in Nat /\ Len(q) \in Nat  OBVIOUS
<1>2. x \in 1 .. (Len(p) + Len(q))  BY <1>1
<1>3. QED  BY <1>1, <1>2, ConcatProperties

(* and those of the second behind them. *)
LEMMA SecondPart ==
    ASSUME NEW p \in Seq(Int), NEW q \in Seq(Int)
    PROVE  \A x \in 1 .. Len(q) : (p \o q)[Len(p) + x] = q[x]
<1> TAKE x \in 1 .. Len(q)
<1>1. Len(p) \in Nat /\ Len(q) \in Nat  OBVIOUS
<1>2. Len(p) + x \in (Len(p) + 1) .. (Len(p) + Len(q))  BY <1>1
<1>3. QED  BY <1>1, <1>2, ConcatProperties

(* Sequences one after the other, the i-th from st[i] on: FlattenSeq() has each of
   them in its place.                                                       *)
LEMMA Flatten ==
    ASSUME NEW n \in Nat, n # 0, NEW s \in [1 .. n -> Seq(Int)], NEW st \in [1 .. n -> Nat],
           st[1] = 0, \A i \in 2 .. n : st[i] = st[i - 1] + Len(s[i - 1])
    PROVE  /\ FlattenSeq(s) \in Seq(Int) /\ Len(FlattenSeq(s)) = st[n] + Len(s[n])
           /\ \A i \in 1 .. n : \A j \in 1 .. Len(s[i]) :
                 st[i] + j <= Len(FlattenSeq(s)) /\ FlattenSeq(s)[st[i] + j] = s[i][j]
<1> DEFINE V == Seq(Int)
           join == [i \in 1 .. n |-> [v \in V |-> IF i = 1 THEN s[i] ELSE v \o s[i]]]
           Solves(k) == k = [i \in 1 .. Len(s) |-> IF i = 1 THEN s[i] ELSE k[i - 1] \o s[i]]
           kk == CHOOSE k : Solves(k)
           Holds(i) == /\ kk[i] \in Seq(Int) /\ Len(kk[i]) = st[i] + Len(s[i])
                       /\ \A h \in 1 .. i : \A j \in 1 .. Len(s[h]) :
                             st[h] + j <= Len(kk[i]) /\ kk[i][st[h] + j] = s[h][j]
           G == {0} \cup {i \in 1 .. n : Holds(i)}
<1>1. Len(s) = n  OBVIOUS
<1>2. FlattenSeq(s) = kk[n]
    <2>1. Len(s) # 0  BY <1>1
    <2>2. QED  BY <1>1, <2>1 DEF FlattenSeq
<1>3. \A i \in 1 .. n : s[i] \in V  OBVIOUS
<1>4. join \in [1 .. n -> [V -> V]]
    <2>1. \A i \in 1 .. n : \A v \in V : (IF i = 1 THEN s[i] ELSE v \o s[i]) \in V  BY <1>3, ConcatProperties
    <2>2. QED  BY <2>1
<1>5. <<>> \in V  OBVIOUS
<1>6. PICK k : Obeys(k, V, n, <<>>, join)
    <2> HIDE DEF V, join
    <2>1. QED  BY <1>4, <1>5, Recursion
<1> DEFINE k1 == [i \in 1 .. Len(s) |-> k[i]]
<1>7. Solves(k1)
    <2>1. ASSUME NEW i \in 1 .. n PROVE k1[i] = IF i = 1 THEN s[i] ELSE k1[i - 1] \o s[i]
        <3>1. i - 1 \in 0 .. n  OBVIOUS
        <3>2. k[i - 1] \in V  BY <1>6, <3>1 DEF Obeys
        <3>3. k[i] = join[i][k[i - 1]]  BY <1>6 DEF Obeys
        <3>4. join[i] = [v \in V |-> IF i = 1 THEN s[i] ELSE v \o s[i]]  OBVIOUS
        <3>5. k[i] = IF i = 1 THEN s[i] ELSE k[i - 1] \o s[i]
            <4> HIDE DEF join, V
            <4>1. QED  BY <3>2, <3>3, <3>4
        <3>6. k1[i] = k[i]  BY <1>1
        <3>7. CASE i = 1  BY <3>5, <3>6, <3>7
        <3>8. CASE i # 1
            <4>1. i - 1 \in 1 .. Len(s)  BY <1>1, <3>8
            <4>2. k1[i - 1] = k[i - 1]  BY <4>1
            <4>3. QED  BY <3>5, <3>6, <3>8, <4>2
        <3>9. QED  BY <3>7, <3>8
    <2>2. k1 = [i \in 1 .. Len(s) |-> k1[i]]  OBVIOUS
    <2> HIDE DEF k1
    <2>3. QED  BY <1>1, <2>1, <2>2
<1>8. Solves(kk)
    <2> HIDE DEF Solves
    <2>1. QED  BY <1>7
<1> HIDE DEF kk
<1>9. ASSUME NEW i \in 1 .. n PROVE kk[i] = IF i = 1 THEN s[i] ELSE kk[i - 1] \o s[i]
    BY <1>1, <1>8
<1>10. ASSUME NEW i \in 1 .. n, i - 1 \in G PROVE i \in G
    <2>1. s[i] \in Seq(Int) /\ st[i] \in Nat  OBVIOUS
    <2>2. CASE i = 1
        <3>1. kk[i] = s[i] /\ st[i] = 0  BY <1>9, <2>2
        <3>2. kk[i] \in Seq(Int) /\ Len(kk[i]) = st[i] + Len(s[i])  BY <2>1, <3>1
        <3>3. ASSUME NEW h \in 1 .. i, NEW j \in 1 .. Len(s[h])
              PROVE  st[h] + j <= Len(kk[i]) /\ kk[i][st[h] + j] = s[h][j]
            <4>1. h = i  BY <2>2
            <4>2. QED  BY <2>1, <3>1, <4>1
        <3>4. Holds(i)  BY <3>2, <3>3
        <3> HIDE DEF Holds
        <3>5. QED  BY <3>4
    <2>3. CASE i # 1
        <3>1. i - 1 \in 1 .. n /\ i - 1 # 0 /\ i \in 2 .. n  BY <2>3
        <3>2. Holds(i - 1)
            <4> HIDE DEF Holds
            <4>1. QED  BY <1>10, <3>1
        <3>3. kk[i - 1] \in Seq(Int)  BY <3>2
        <3>4. st[i] = Len(kk[i - 1])  BY <3>1, <3>2
        <3>5. Len(kk[i - 1]) \in Nat /\ Len(s[i]) \in Nat  BY <2>1, <3>3
        <3>6. kk[i] = kk[i - 1] \o s[i]  BY <1>9, <2>3
        <3>7. kk[i] \in Seq(Int) /\ Len(kk[i]) = st[i] + Len(s[i])
            BY <2>1, <3>3, <3>4, <3>6, ConcatProperties
        <3>8. ASSUME NEW h \in 1 .. i, NEW j \in 1 .. Len(s[h])
              PROVE  st[h] + j <= Len(kk[i]) /\ kk[i][st[h] + j] = s[h][j]
            <4>1. h \in 1 .. n  OBVIOUS
            <4>2. st[h] \in Nat /\ s[h] \in Seq(Int)  BY <4>1
            <4>3. Len(s[h]) \in Nat  BY <4>2
            <4>4. j \in Nat /\ j > 0 /\ j <= Len(s[h])  BY <4>3
            <4>5. CASE h = i
                <5>1. \A x \in 1 .. Len(s[i]) : (kk[i - 1] \o s[i])[Len(kk[i - 1]) + x] = s[i][x]
                    BY <2>1, <3>3, SecondPart
                <5>2. j \in 1 .. Len(s[i])  BY <4>5
                <5>3. kk[i][Len(kk[i - 1]) + j] = s[i][j]  BY <3>6, <5>1, <5>2
                <5>4. kk[i][st[h] + j] = s[h][j]  BY <3>4, <4>5, <5>3
                <5> HIDE DEF Holds
                <5>5. st[h] + j <= Len(kk[i])  BY <3>5, <3>7, <4>2, <4>4, <4>5
                <5>6. QED  BY <5>4, <5>5
            <4>6. CASE h # i
                <5>1. h \in 1 .. i - 1  BY <4>6
                <5>2. st[h] + j <= Len(kk[i - 1]) /\ kk[i - 1][st[h] + j] = s[h][j]  BY <3>2, <5>1
                <5>3. st[h] + j \in 1 .. Len(kk[i - 1])  BY SMTT(30), <4>2, <4>4, <5>2, <3>5
                <5>4. kk[i][st[h] + j] = kk[i - 1][st[h] + j]
                    BY <2>1, <3>3, <3>6, <5>3, ConcatProperties
                <5>5. Len(kk[i]) = Len(kk[i - 1]) + Len(s[i])  BY <3>4, <3>7
                <5> HIDE DEF Holds
                <5>6. st[h] + j <= Len(kk[i])  BY SMTT(30), <3>5, <4>2, <4>4, <5>2, <5>5
                <5>7. QED  BY <5>2, <5>4, <5>6
            <4>7. QED  BY <4>5, <4>6
        <3>9. Holds(i)  BY <3>7, <3>8
        <3> HIDE DEF Holds
        <3>10. QED  BY <3>9
    <2>4. QED  BY <2>2, <2>3
<1>11. \A i \in 0 .. n : i \in G
    <2> HIDE DEF Holds
    <2>1. G \in SUBSET Int /\ 0 \in G  OBVIOUS
    <2> HIDE DEF G
    <2>2. QED  BY <1>10, <2>1, UpTo
<1>12. Holds(n)
    <2> HIDE DEF Holds
    <2>1. n \in 0 .. n  OBVIOUS
    <2>2. QED  BY <1>11, <2>1
<1>13. QED  BY <1>2, <1>12

-----------------------------------------------------------------------------
(* Numbers: the bytes and bits they are written in. *)

(* The powers that fields of 8, 16, 20 and 24 bits and their bytes are made of. *)
LEMMA Powers ==
    /\ 2^0 = 1 /\ 2^1 = 2 /\ 2^2 = 4 /\ 2^3 = 8 /\ 2^4 = 16 /\ 2^5 = 32 /\ 2^6 = 64 /\ 2^7 = 128
    /\ 2^8 = 256 /\ 2^16 = 65536 /\ 2^20 = 1048576 /\ 2^24 = 16777216
    /\ 256^0 = 1 /\ 256^1 = 256 /\ 256^2 = 65536
OBVIOUS

(* The power of 2 of a width below 8. *)
LEMMA SmallPower ==
    ASSUME NEW w \in 0 .. 7
    PROVE  \/ (w = 0 /\ 2^w = 1) \/ (w = 1 /\ 2^w = 2) \/ (w = 2 /\ 2^w = 4) \/ (w = 3 /\ 2^w = 8)
           \/ (w = 4 /\ 2^w = 16) \/ (w = 5 /\ 2^w = 32) \/ (w = 6 /\ 2^w = 64) \/ (w = 7 /\ 2^w = 128)
<1>1. w = 0 \/ w = 1 \/ w = 2 \/ w = 3 \/ w = 4 \/ w = 5 \/ w = 6 \/ w = 7  OBVIOUS
<1>2. CASE w = 0  BY <1>2, Powers
<1>3. CASE w = 1  BY <1>3, Powers
<1>4. CASE w = 2  BY <1>4, Powers
<1>5. CASE w = 3  BY <1>5, Powers
<1>6. CASE w = 4  BY <1>6, Powers
<1>7. CASE w = 5  BY <1>7, Powers
<1>8. CASE w = 6  BY <1>8, Powers
<1>9. CASE w = 7  BY <1>9, Powers
<1>10. QED  BY <1>1, <1>2, <1>3, <1>4, <1>5, <1>6, <1>7, <1>8, <1>9

(* Whole bytes: as many as said, the last one first. *)
Digit(n, k) == (n \div 256^k) % 256

WholeBytes(n, size, s) ==
    /\ s \in Seq(Int) /\ Len(s) = size /\ s[size] = Digit(n, 0)
    /\ size > 1 => s[size - 1] = Digit(n, 1)
    /\ size > 2 => s[size - 2] = Digit(n, 2)

(* A number is the sum of its digits. *)
LEMMA Digits ==
    ASSUME NEW n \in Nat
    PROVE  /\ n < 256 => n = Digit(n, 0)
           /\ n < 65536 => n = 256 * Digit(n, 1) + Digit(n, 0)
           /\ n < 16777216 => n = 65536 * Digit(n, 2) + 256 * Digit(n, 1) + Digit(n, 0)
<1> DEFINE q == n \div 256
           r == q \div 256
<1>1. q \in Nat /\ n = 256 * q + (n % 256) /\ n % 256 \in 0 .. 255  OBVIOUS
<1>2. r \in Nat /\ q = 256 * r + (q % 256) /\ q % 256 \in 0 .. 255
    <2> HIDE DEF q
    <2>1. QED  BY <1>1
<1>3. n \div 65536 = r  BY SMT
<1>4. Digit(n, 0) = n % 256 /\ Digit(n, 1) = q % 256 /\ Digit(n, 2) = r % 256
    <2>1. n \div 1 = n  OBVIOUS
    <2>2. 256^0 = 1 /\ 256^1 = 256 /\ 256^2 = 65536  BY SMT, Powers
    <2> HIDE DEF q, r
    <2>3. n \div 256^0 = n /\ n \div 256^1 = q /\ n \div 256^2 = r  BY SMT, <1>3, <2>1, <2>2 DEF q
    <2>4. QED  BY Zenon, <2>3 DEF Digit
<1> DEFINE x == n % 256
           y == q % 256
<1>5. x \in 0 .. 255 /\ y \in 0 .. 255 /\ n = 256 * q + x /\ q = 256 * r + y  BY <1>1, <1>2
<1>6. Digit(n, 0) = x /\ Digit(n, 1) = y /\ Digit(n, 2) = r % 256  BY <1>4
<1> HIDE DEF q, r, x, y
<1>7. n < 256 => n = x  BY SMT, <1>1, <1>5
<1>8. n < 65536 => n = 256 * y + x
    <2>1. n < 65536 => r = 0  BY SMT, <1>2, <1>5
    <2>2. QED  BY SMT, <1>2, <1>5, <2>1
<1>9. n < 16777216 => n = 65536 * (r % 256) + 256 * y + x
    <2>1. n < 16777216 => r < 256  BY SMT, <1>2, <1>5
    <2>2. r < 256 => r % 256 = r  BY SMT, <1>2
    <2>3. n = 65536 * r + 256 * y + x  BY SMT, <1>2, <1>5
    <2>4. QED  BY SMT, <2>1, <2>2, <2>3
<1>10. QED  BY SMT, <1>6, <1>7, <1>8, <1>9

(* to_bytes() of a number gives its digits. *)
LEMMA OctetsOf ==
    ASSUME NEW n \in Nat, NEW size \in 1 .. 3
    PROVE  WholeBytes(n, size, Octets(n, size))
<1>1. \A i \in 1 .. size : size - i = 0 \/ size - i = 1 \/ size - i = 2  OBVIOUS
<1>2. \A i \in 1 .. size : 256^(size - i) \in {1, 256, 65536}
    <2>1. TAKE i \in 1 .. size
    <2>2. CASE size - i = 0  BY <2>2, Powers
    <2>3. CASE size - i = 1  BY <2>3, Powers
    <2>4. CASE size - i = 2  BY <2>4, Powers
    <2>5. QED  BY <1>1, <2>2, <2>3, <2>4
<1> DEFINE s == Octets(n, size)
<1>3. \A i \in 1 .. size : Digit(n, size - i) \in Int  BY <1>2 DEF Digit
<1>4. s = [i \in 1 .. size |-> Digit(n, size - i)]  BY DEF Octets, Digit
<1>5. s \in Seq(Int) /\ Len(s) = size /\ \A i \in 1 .. size : s[i] = Digit(n, size - i)  BY <1>3, <1>4
<1> HIDE DEF s
<1>6. s[size] = Digit(n, 0)
    <2>1. size \in 1 .. size /\ size - size = 0  OBVIOUS
    <2>2. QED  BY <1>5, <2>1
<1>7. size > 1 => s[size - 1] = Digit(n, 1)
    <2>1. size > 1 => size - 1 \in 1 .. size /\ size - (size - 1) = 1  OBVIOUS
    <2>2. QED  BY <1>5, <2>1
<1>8. size > 2 => s[size - 2] = Digit(n, 2)
    <2>1. size > 2 => size - 2 \in 1 .. size /\ size - (size - 2) = 2  OBVIOUS
    <2>2. QED  BY <1>5, <2>1
<1>9. QED  BY <1>5, <1>6, <1>7, <1>8 DEF WholeBytes, s

(* d has s from byte at on. *)
Stands(s, d, at) == Len(d) >= at + Len(s) /\ \A j \in 1 .. Len(s) : d[at + j] = s[j]

(* A number that fits in some bytes. *)
Room(n, size) ==
    (size = 1 /\ n < 256) \/ (size = 2 /\ n < 65536) \/ (size = 3 /\ n < 16777216)

(* int.from_bytes() of the bytes a number was written in is that number, if it
   fits in them.                                                            *)
LEMMA OctetsReadBack ==
    ASSUME NEW n \in Nat, NEW size \in 1 .. 3, NEW d \in Seq(Int), NEW at \in Nat,
           Room(n, size), Stands(Octets(n, size), d, at)
    PROVE  Number(d, at, size) = n
<1> DEFINE s == Octets(n, size)
<1>1. WholeBytes(n, size, s) /\ Stands(s, d, at)  BY OctetsOf
<1> HIDE DEF s
<1>2. \A j \in 1 .. size : d[at + j] = s[j]
    <2>1. Len(s) = size  BY <1>1 DEF WholeBytes
    <2>2. QED  BY <1>1, <2>1 DEF Stands
<1>3. size = 1 \/ size = 2 \/ size = 3  BY SMT
<1> DEFINE x == Digit(n, 0)
           y == Digit(n, 1)
           z == Digit(n, 2)
<1>4. /\ n < 256 => n = x
      /\ n < 65536 => n = 256 * y + x
      /\ n < 16777216 => n = 65536 * z + 256 * y + x
    BY SMT, Digits
<1>5. /\ s[size] = x
      /\ size > 1 => s[size - 1] = y
      /\ size > 2 => s[size - 2] = z
    BY SMT, <1>1 DEF WholeBytes
<1> HIDE DEF x, y, z
<1>6. CASE size = 1
    <2>1. Number(d, at, size) = d[at + 1] /\ n < 256  BY SMT, <1>6 DEF Number, Room
    <2>2. d[at + 1] = x  BY SMT, <1>2, <1>5, <1>6
    <2>3. QED  BY SMT, <1>4, <2>1, <2>2
<1>7. CASE size = 2
    <2>1. Number(d, at, size) = 256 * d[at + 1] + d[at + 2] /\ n < 65536  BY SMT, <1>7 DEF Number, Room
    <2>2. d[at + 1] = y /\ d[at + 2] = x  BY SMT, <1>2, <1>5, <1>7
    <2>3. QED  BY SMT, <1>4, <2>1, <2>2
<1>8. CASE size = 3
    <2>1. /\ Number(d, at, size) = 65536 * d[at + 1] + 256 * d[at + 2] + d[at + 3]
          /\ n < 16777216
        BY SMT, <1>8 DEF Number, Room
    <2>2. d[at + 1] = z /\ d[at + 2] = y /\ d[at + 3] = x
        <3>1. d[at + 1] = s[1] /\ d[at + 2] = s[2] /\ d[at + 3] = s[3]  BY SMT, <1>2, <1>8
        <3>2. s[1] = z /\ s[2] = y /\ s[3] = x  BY SMT, <1>5, <1>8
        <3>3. QED  BY SMT, <3>1, <3>2
    <2>3. QED  BY SMT, <1>4, <2>1, <2>2
<1>9. QED  BY SMT, <1>3, <1>6, <1>7, <1>8

(* Some bits of a byte. *)
LEMMA BitsReadBack ==
    ASSUME NEW w \in 1 .. 7, NEW lo \in 0 .. 8 - w, NEW n \in Nat, n < 2^w
    PROVE  /\ (n % 2^w) * 2^lo \in 0 .. 255
           /\ BitsOf((n % 2^w) * 2^lo, lo, w) = n
<1>1. lo \in 0 .. 7  OBVIOUS
<1>2. \/ (w = 1 /\ 2^w = 2) \/ (w = 2 /\ 2^w = 4) \/ (w = 3 /\ 2^w = 8) \/ (w = 4 /\ 2^w = 16)
      \/ (w = 5 /\ 2^w = 32) \/ (w = 6 /\ 2^w = 64) \/ (w = 7 /\ 2^w = 128)
    <2>1. w \in 0 .. 7  OBVIOUS
    <2>2. w # 0  OBVIOUS
    <2>3. QED  BY <2>1, <2>2, SmallPower
<1>3. n % 2^w = n  BY <1>2
<1>4. n * 2^lo \in 0 .. 255 /\ (n * 2^lo) \div 2^lo = n
    <2>1. CASE lo = 0
        <3>1. w \in 1 .. 7  BY <2>1
        <3>2. 2^lo = 1 /\ n < 128  BY <1>2, <2>1, <3>1, Powers
        <3>3. QED  BY <3>2
    <2>2. CASE lo = 1
        <3>1. w \in 1 .. 7  BY <2>2
        <3>2. 2^lo = 2 /\ n < 128  BY <1>2, <2>2, <3>1, Powers
        <3>3. QED  BY <3>2
    <2>3. CASE lo = 2
        <3>1. w \in 1 .. 6  BY <2>3
        <3>2. 2^lo = 4 /\ n < 64  BY <1>2, <2>3, <3>1, Powers
        <3>3. QED  BY <3>2
    <2>4. CASE lo = 3
        <3>1. w \in 1 .. 5  BY <2>4
        <3>2. 2^lo = 8 /\ n < 32  BY <1>2, <2>4, <3>1, Powers
        <3>3. QED  BY <3>2
    <2>5. CASE lo = 4
        <3>1. w \in 1 .. 4  BY <2>5
        <3>2. 2^lo = 16 /\ n < 16  BY <1>2, <2>5, <3>1, Powers
        <3>3. QED  BY <3>2
    <2>6. CASE lo = 5
        <3>1. w \in 1 .. 3  BY <2>6
        <3>2. 2^lo = 32 /\ n < 8  BY <1>2, <2>6, <3>1, Powers
        <3>3. QED  BY <3>2
    <2>7. CASE lo = 6
        <3>1. w \in 1 .. 2  BY <2>7
        <3>2. 2^lo = 64 /\ n < 4  BY <1>2, <2>7, <3>1, Powers
        <3>3. QED  BY <3>2
    <2>8. CASE lo = 7
        <3>1. w \in 1 .. 1  BY <2>8
        <3>2. 2^lo = 128 /\ n < 2  BY <1>2, <2>8, <3>1, Powers
        <3>3. QED  BY <3>2
    <2>9. QED  BY <1>1, <2>1, <2>2, <2>3, <2>4, <2>5, <2>6, <2>7, <2>8
<1>5. QED  BY <1>3, <1>4 DEF BitsOf

(* A byte of eight bits. *)
Byte(e) == e[1] + 2 * e[2] + 4 * e[3] + 8 * e[4] + 16 * e[5] + 32 * e[6] + 64 * e[7] + 128 * e[8]

(* A byte put together from eight bits has those bits. *)
LEMMA BitsOfByte ==
    ASSUME NEW e \in [1 .. 8 -> {0, 1}]
    PROVE  /\ Byte(e) \in 0 .. 255
           /\ \A c \in 1 .. 8 : BitsOf(Byte(e), c - 1, 1) = e[c]
<1>1. /\ e[1] \in {0, 1} /\ e[2] \in {0, 1} /\ e[3] \in {0, 1} /\ e[4] \in {0, 1}
      /\ e[5] \in {0, 1} /\ e[6] \in {0, 1} /\ e[7] \in {0, 1} /\ e[8] \in {0, 1}
    OBVIOUS
<1> DEFINE r8 == e[8]
           r7 == e[7] + 2 * r8
           r6 == e[6] + 2 * r7
           r5 == e[5] + 2 * r6
           r4 == e[4] + 2 * r5
           r3 == e[3] + 2 * r4
           r2 == e[2] + 2 * r3
           r1 == e[1] + 2 * r2
<1>2. Byte(e) = r1  BY SMT, <1>1 DEF Byte
<1>3. /\ r8 \in 0 .. 1 /\ r7 \in 0 .. 3 /\ r6 \in 0 .. 7 /\ r5 \in 0 .. 15
      /\ r4 \in 0 .. 31 /\ r3 \in 0 .. 63 /\ r2 \in 0 .. 127 /\ r1 \in 0 .. 255
    BY SMT, <1>1
<1>4. /\ r1 \div 2 = r2 /\ r1 \div 4 = r3 /\ r1 \div 8 = r4 /\ r1 \div 16 = r5
      /\ r1 \div 32 = r6 /\ r1 \div 64 = r7 /\ r1 \div 128 = r8
    <2>1. r1 \div 2 = r2  BY SMT, <1>1, <1>3
    <2>2. r1 \div 4 = r3
        <3>1. \E x \in 0 .. 3 : r1 = x + 4 * r3
            <4>1. e[1] + 2 * e[2] \in 0 .. 3
                BY SMT, <1>1
            <4>2. r1 = (e[1] + 2 * e[2]) + 4 * r3
                BY SMT, <1>1
            <4> HIDE DEF r1, r3
            <4>3. QED  BY <4>1, <4>2
        <3>2. r3 \in Nat  BY <1>3
        <3> HIDE DEF r1, r3
        <3>3. QED  BY SMT, <3>1, <3>2
    <2>3. r1 \div 8 = r4
        <3>1. \E x \in 0 .. 7 : r1 = x + 8 * r4
            <4>1. e[1] + 2 * e[2] + 4 * e[3] \in 0 .. 7
                BY SMT, <1>1
            <4>2. r1 = (e[1] + 2 * e[2] + 4 * e[3]) + 8 * r4
                BY SMT, <1>1
            <4> HIDE DEF r1, r4
            <4>3. QED  BY <4>1, <4>2
        <3>2. r4 \in Nat  BY <1>3
        <3> HIDE DEF r1, r4
        <3>3. QED  BY SMT, <3>1, <3>2
    <2>4. r1 \div 16 = r5
        <3>1. \E x \in 0 .. 15 : r1 = x + 16 * r5
            <4>1. e[1] + 2 * e[2] + 4 * e[3] + 8 * e[4] \in 0 .. 15
                BY SMT, <1>1
            <4>2. r1 = (e[1] + 2 * e[2] + 4 * e[3] + 8 * e[4]) + 16 * r5
                BY SMT, <1>1
            <4> HIDE DEF r1, r5
            <4>3. QED  BY <4>1, <4>2
        <3>2. r5 \in Nat  BY <1>3
        <3> HIDE DEF r1, r5
        <3>3. QED  BY SMT, <3>1, <3>2
    <2>5. r1 \div 32 = r6
        <3>1. \E x \in 0 .. 31 : r1 = x + 32 * r6
            <4>1. e[1] + 2 * e[2] + 4 * e[3] + 8 * e[4] + 16 * e[5] \in 0 .. 31
                BY SMT, <1>1
            <4>2. r1 = (e[1] + 2 * e[2] + 4 * e[3] + 8 * e[4] + 16 * e[5]) + 32 * r6
                BY SMT, <1>1
            <4> HIDE DEF r1, r6
            <4>3. QED  BY <4>1, <4>2
        <3>2. r6 \in Nat  BY <1>3
        <3> HIDE DEF r1, r6
        <3>3. QED  BY SMT, <3>1, <3>2
    <2>6. r1 \div 64 = r7
        <3>1. \E x \in 0 .. 63 : r1 = x + 64 * r7
            <4>1. e[1] + 2 * e[2] + 4 * e[3] + 8 * e[4] + 16 * e[5] + 32 * e[6] \in 0 .. 63
                BY SMT, <1>1
            <4>2. r1 = (e[1] + 2 * e[2] + 4 * e[3] + 8 * e[4] + 16 * e[5] + 32 * e[6]) + 64 * r7
                BY SMT, <1>1
            <4> HIDE DEF r1, r7
            <4>3. QED  BY <4>1, <4>2
        <3>2. r7 \in Nat  BY <1>3
        <3> HIDE DEF r1, r7
        <3>3. QED  BY SMT, <3>1, <3>2
    <2>7. r1 \div 128 = r8
        <3>1. \E x \in 0 .. 127 : r1 = x + 128 * r8
            <4>1. e[1] + 2 * e[2] + 4 * e[3] + 8 * e[4] + 16 * e[5] + 32 * e[6] + 64 * e[7] \in 0 .. 127
                BY SMT, <1>1
            <4>2. r1 = (e[1] + 2 * e[2] + 4 * e[3] + 8 * e[4] + 16 * e[5] + 32 * e[6] + 64 * e[7]) + 128 * r8
                BY SMT, <1>1
            <4> HIDE DEF r1, r8
            <4>3. QED  BY <4>1, <4>2
        <3>2. r8 \in Nat  BY <1>3
        <3> HIDE DEF r1, r8
        <3>3. QED  BY SMT, <3>1, <3>2
    <2>8. QED  BY <2>1, <2>2, <2>3, <2>4, <2>5, <2>6, <2>7
<1>5. /\ r1 % 2 = e[1] /\ r2 % 2 = e[2] /\ r3 % 2 = e[3] /\ r4 % 2 = e[4]
      /\ r5 % 2 = e[5] /\ r6 % 2 = e[6] /\ r7 % 2 = e[7] /\ r8 % 2 = e[8]
    BY SMT, <1>1, <1>3
<1> HIDE DEF r1, r2, r3, r4, r5, r6, r7, r8
<1>6. ASSUME NEW c \in 1 .. 8 PROVE BitsOf(r1, c - 1, 1) = e[c]
    <2>1. CASE c = 1
        <3>1. BitsOf(r1, c - 1, 1) = (r1 \div 1) % 2  BY <2>1, Powers DEF BitsOf
        <3>2. QED  BY SMT, <1>3, <1>5, <2>1, <3>1
    <2>2. CASE c = 2  BY <1>4, <1>5, <2>2, Powers DEF BitsOf
    <2>3. CASE c = 3  BY <1>4, <1>5, <2>3, Powers DEF BitsOf
    <2>4. CASE c = 4  BY <1>4, <1>5, <2>4, Powers DEF BitsOf
    <2>5. CASE c = 5  BY <1>4, <1>5, <2>5, Powers DEF BitsOf
    <2>6. CASE c = 6  BY <1>4, <1>5, <2>6, Powers DEF BitsOf
    <2>7. CASE c = 7  BY <1>4, <1>5, <2>7, Powers DEF BitsOf
    <2>8. CASE c = 8  BY <1>4, <1>5, <2>8, Powers DEF BitsOf
    <2>9. QED  BY SMT, <2>1, <2>2, <2>3, <2>4, <2>5, <2>6, <2>7, <2>8
<1>7. QED  BY <1>2, <1>3, <1>6

(* The mask of a set of channels says which they are. *)
LEMMA MaskReadsBack ==
    ASSUME NEW S \in SUBSET (1 .. 8)
    PROVE  Mask(S) \in 0 .. 255 /\ ChannelsIn(Mask(S)) = S
<1> DEFINE e == [c \in 1 .. 8 |-> IF c \in S THEN 1 ELSE 0]
<1>1. e \in [1 .. 8 -> {0, 1}]  OBVIOUS
<1>2. /\ 1 \in 1 .. 8 /\ 2 \in 1 .. 8 /\ 3 \in 1 .. 8 /\ 4 \in 1 .. 8
      /\ 5 \in 1 .. 8 /\ 6 \in 1 .. 8 /\ 7 \in 1 .. 8 /\ 8 \in 1 .. 8
    OBVIOUS
<1>3. Mask(S) = Byte(e)
    <2>1. /\ 2^(1 - 1) = 1 /\ 2^(2 - 1) = 2 /\ 2^(3 - 1) = 4 /\ 2^(4 - 1) = 8 /\ 2^(5 - 1) = 16
          /\ 2^(6 - 1) = 32 /\ 2^(7 - 1) = 64 /\ 2^(8 - 1) = 128
        BY Powers
    <2> DEFINE bit(c, w) == IF c \in S THEN w ELSE 0
    <2>2. Mask(S) = bit(1, 1) + bit(2, 2) + bit(3, 4) + bit(4, 8) + bit(5, 16) + bit(6, 32)
                    + bit(7, 64) + bit(8, 128)
        BY <2>1 DEF Mask
    <2>3. \A c \in 1 .. 8, w \in Nat : bit(c, w) = w * e[c]  OBVIOUS
    <2>4. /\ bit(1, 1) = e[1] /\ bit(2, 2) = 2 * e[2] /\ bit(3, 4) = 4 * e[3] /\ bit(4, 8) = 8 * e[4]
          /\ bit(5, 16) = 16 * e[5] /\ bit(6, 32) = 32 * e[6] /\ bit(7, 64) = 64 * e[7]
          /\ bit(8, 128) = 128 * e[8]
        BY SMT, <1>2
    <2> HIDE DEF bit, e
    <2>5. QED  BY <2>2, <2>4 DEF Byte
<1>4. Mask(S) \in 0 .. 255 /\ \A c \in 1 .. 8 : BitsOf(Mask(S), c - 1, 1) = e[c]
    <2> HIDE DEF e
    <2>1. QED  BY <1>1, <1>3, BitsOfByte
<1>5. \A c \in 1 .. 8 : e[c] = 1 <=> c \in S  OBVIOUS
<1> HIDE DEF e
<1>6. QED  BY <1>4, <1>5 DEF ChannelsIn

(* A list of channels in ascending order. *)
LEMMA AscendingOf ==
    ASSUME NEW S \in SUBSET (0 .. 15)
    PROVE  Ascending(S) \in Seq(Int) /\ ToSet(Ascending(S)) = S
<1> DEFINE s == [i \in 1 .. 16 |-> i - 1]
<1>1. s \in Seq(Int)  OBVIOUS
<1>2. ToSet(s) = 0 .. 15
    <2>1. \A n \in 0 .. 15 : n + 1 \in 1 .. 16 /\ s[n + 1] = n  OBVIOUS
    <2>2. \A i \in DOMAIN s : s[i] \in 0 .. 15  OBVIOUS
    <2>3. DOMAIN s = 1 .. 16  OBVIOUS
    <2> HIDE DEF s
    <2>4. QED  BY <2>1, <2>2, <2>3 DEF ToSet
<1> HIDE DEF s
<1>3. Only(s, S) \in Seq(Int) /\ ToSet(Only(s, S)) = ToSet(s) \cap S  BY <1>1, OnlyKeeps
<1>4. Ascending(S) = Only(s, S)  BY DEF Ascending, s
<1>5. QED  BY <1>2, <1>3, <1>4

(* A list of channels names each of them once, and is never the one that stands
   for all.                                                                 *)
LEMMA ChannelsOf ==
    ASSUME NEW S \in SUBSET (1 .. 8)
    PROVE  Ascending(S) \in Seq(Int) /\ ToSet(Ascending(S)) = S /\ Ascending(S) # <<AllChannels>>
<1>1. S \in SUBSET (0 .. 15)  OBVIOUS
<1>2. Ascending(S) \in Seq(Int) /\ ToSet(Ascending(S)) = S  BY <1>1, AscendingOf
<1>3. AllChannels \notin S  BY DEF AllChannels
<1>4. AllChannels \in ToSet(<<AllChannels>>)  BY DEF ToSet
<1>5. QED  BY <1>2, <1>3, <1>4

(* A single channel and its bit. *)
LEMMA ChannelOf ==
    ASSUME NEW c \in 1 .. 8
    PROVE  /\ Ascending({c}) \in Seq(Int) /\ Ascending({c})[1] = c
           /\ 2^(c - 1) \in 1 .. 255 /\ ChannelsIn(2^(c - 1)) = {c}
<1>1. {c} \in SUBSET (1 .. 8)  OBVIOUS
<1>2. Ascending({c}) \in Seq(Int) /\ ToSet(Ascending({c})) = {c}  BY <1>1, ChannelsOf
<1>3. Ascending({c})[1] = c
    <2> DEFINE s == Ascending({c})
    <2>1. s \in Seq(Int) /\ ToSet(s) = {c}  BY <1>2
    <2> HIDE DEF s
    <2>2. s # <<>>
        <3>1. ToSet(<<>>) = {}  BY DEF ToSet
        <3>2. QED  BY <2>1, <3>1
    <2>3. 1 \in DOMAIN s  BY <2>1, <2>2
    <2>4. s[1] \in ToSet(s)  BY <2>3 DEF ToSet
    <2>5. s[1] = c  BY <2>1, <2>4
    <2>6. QED  BY <2>5 DEF s
<1>4. Mask({c}) = 2^(c - 1) /\ 2^(c - 1) >= 1
    <2>1. /\ 2^(1 - 1) = 1 /\ 2^(2 - 1) = 2 /\ 2^(3 - 1) = 4 /\ 2^(4 - 1) = 8 /\ 2^(5 - 1) = 16
          /\ 2^(6 - 1) = 32 /\ 2^(7 - 1) = 64 /\ 2^(8 - 1) = 128
        BY Powers
    <2>2. c = 1 \/ c = 2 \/ c = 3 \/ c = 4 \/ c = 5 \/ c = 6 \/ c = 7 \/ c = 8  OBVIOUS
    <2>3. CASE c = 1  BY SMT, <2>1, <2>3 DEF Mask
    <2>4. CASE c = 2  BY SMT, <2>1, <2>4 DEF Mask
    <2>5. CASE c = 3  BY SMT, <2>1, <2>5 DEF Mask
    <2>6. CASE c = 4  BY SMT, <2>1, <2>6 DEF Mask
    <2>7. CASE c = 5  BY SMT, <2>1, <2>7 DEF Mask
    <2>8. CASE c = 6  BY SMT, <2>1, <2>8 DEF Mask
    <2>9. CASE c = 7  BY SMT, <2>1, <2>9 DEF Mask
    <2>10. CASE c = 8  BY SMT, <2>1, <2>10 DEF Mask
    <2>11. QED  BY <2>2, <2>3, <2>4, <2>5, <2>6, <2>7, <2>8, <2>9, <2>10
<1>5. Mask({c}) \in 0 .. 255 /\ ChannelsIn(Mask({c})) = {c}  BY <1>1, MaskReadsBack
<1>6. 2^(c - 1) \in 1 .. 255
    <2> DEFINE p == 2^(c - 1)
    <2>1. p \in 0 .. 255 /\ p >= 1  BY <1>4, <1>5
    <2> HIDE DEF p
    <2>2. p \in 1 .. 255  BY <2>1
    <2>3. QED  BY <2>2 DEF p
<1>7. ChannelsIn(2^(c - 1)) = {c}  BY <1>4, <1>5
<1>8. QED  BY <1>2, <1>3, <1>6, <1>7

(* The two bits of each of two blinds. *)
LEMMA BlindsReadBack ==
    ASSUME NEW S \in SUBSET {1, 2}
    PROVE  LET b == (IF 1 \in S THEN 3 ELSE 0) + (IF 2 \in S THEN 12 ELSE 0)
           IN  b \in 0 .. 255 /\ ChannelsIn(BitsOf(b, 1, 2)) = S
<1> DEFINE b == (IF 1 \in S THEN 3 ELSE 0) + (IF 2 \in S THEN 12 ELSE 0)
           m == (IF 1 \in S THEN 1 ELSE 0) + (IF 2 \in S THEN 2 ELSE 0)
<1>1. b \in 0 .. 255 /\ BitsOf(b, 1, 2) = m
    <2>1. BitsOf(b, 1, 2) = (b \div 2) % 4  BY Powers DEF BitsOf
    <2>2. CASE 1 \in S /\ 2 \in S  BY <2>1, <2>2
    <2>3. CASE 1 \in S /\ 2 \notin S  BY <2>1, <2>3
    <2>4. CASE 1 \notin S /\ 2 \in S  BY <2>1, <2>4
    <2>5. CASE 1 \notin S /\ 2 \notin S  BY <2>1, <2>5
    <2>6. QED  BY <2>2, <2>3, <2>4, <2>5
<1>2. Mask(S) = m
    <2>1. 2^(1 - 1) = 1 /\ 2^(2 - 1) = 2  BY Powers
    <2>2. /\ 3 \notin S /\ 4 \notin S /\ 5 \notin S /\ 6 \notin S /\ 7 \notin S /\ 8 \notin S  OBVIOUS
    <2>3. QED  BY SMT, <2>1, <2>2 DEF Mask
<1>3. S \in SUBSET (1 .. 8)  OBVIOUS
<1>4. ChannelsIn(Mask(S)) = S  BY <1>3, MaskReadsBack
<1>5. QED  BY <1>1, <1>2, <1>4

(* A sequence of one number. *)
LEMMA Single ==
    ASSUME NEW s \in Seq(Int), Len(s) = 1
    PROVE  s = <<s[1]>> /\ s[1] \in Int
<1>1. <<s[1]>> \in Seq(Int) /\ Len(<<s[1]>>) = 1 /\ <<s[1]>>[1] = s[1]  OBVIOUS
<1>2. \A i \in 1 .. Len(s) : s[i] = <<s[1]>>[i]  OBVIOUS
<1>3. s = <<s[1]>>  BY <1>1, <1>2, SeqEqual
<1>4. QED  BY <1>3

(* A sequence of at most one element that is not empty has one. *)
LEMMA AtMostOne ==
    ASSUME NEW s \in Seq(Int), s # <<>>, Len(s) <= 1
    PROVE  Len(s) = 1
<1> DEFINE n == Len(s)
<1>1. n \in Nat /\ n # 0 /\ n <= 1  OBVIOUS
<1> HIDE DEF n
<1>2. n = 1  BY <1>1
<1>3. QED  BY <1>2 DEF n

-----------------------------------------------------------------------------
(* Numbers as fields: whole bytes, or some bits of one byte. *)
Below(n, w) == n < 2^w

(* A number below 2^(8 * size) is one that fits in that many bytes. *)
LEMMA BelowRoom ==
    ASSUME NEW n \in Nat, NEW size \in 1 .. 3
    PROVE  Below(n, 8 * size) <=> Room(n, size)
<1>1. size = 1 \/ size = 2 \/ size = 3  OBVIOUS
<1>2. CASE size = 1
    <2>1. 8 * size = 8  BY <1>2
    <2>2. 2^(8 * size) = 256
        <3>1. 2^(8 * size) = 2^8  BY <2>1, Zenon
        <3>2. QED  BY <3>1, Powers, SMT
    <2>3. QED  BY SMT, <1>2, <2>2 DEF Below, Room
<1>3. CASE size = 2
    <2>1. 8 * size = 16  BY <1>3
    <2>2. 2^(8 * size) = 65536
        <3>1. 2^(8 * size) = 2^16  BY <2>1, Zenon
        <3>2. QED  BY <3>1, Powers, SMT
    <2>3. QED  BY SMT, <1>3, <2>2 DEF Below, Room
<1>4. CASE size = 3
    <2>1. 8 * size = 24  BY <1>4
    <2>2. 2^(8 * size) = 16777216
        <3>1. 2^(8 * size) = 2^24  BY <2>1, Zenon
        <3>2. QED  BY <3>1, Powers, SMT
    <2>3. QED  BY SMT, <1>4, <2>2 DEF Below, Room
<1>5. QED  BY <1>1, <1>2, <1>3, <1>4

Numbers == {"number", "cut", "unsigned"}

IsWhole(f) == f.size \in 1 .. 3 /\ f.lo = 0 /\ f.width = 8 * f.size

IsBits(f) == /\ f.kind = "number" /\ f.size = 1 /\ f.width \in 1 .. 7
             /\ f.lo \in 0 .. 8 - f.width

(* A number that is well made takes whole bytes or some bits of one. *)
LEMMA NumberField ==
    ASSUME NEW f, f.kind \in Numbers, WellMade(f)
    PROVE  f.offset = 0 /\ f.scale = 1 /\ (IsWhole(f) \/ IsBits(f))
BY DEF WellMade, Numbers, IsWhole, IsBits

(* The values a number stands for: those below the power of its width. *)
LEMMA NumberValue ==
    ASSUME NEW f, f.kind \in Numbers, NEW v
    PROVE  Legal(f, v) <=> \E n \in Nat : v = <<n>> /\ Below(n, f.width)
<1>1. ASSUME Legal(f, v) PROVE \E n \in Nat : v = <<n>> /\ Below(n, f.width)
    <2>1. v \in Seq(Int) /\ Len(v) = 1 /\ v[1] >= 0 /\ v[1] < 2^f.width
        BY <1>1 DEF Legal, Numbers
    <2>2. v = <<v[1]>> /\ v[1] \in Nat
        <3>1. v \in Seq(Int) /\ Len(v) = 1 /\ v[1] >= 0  BY <2>1
        <3>2. v = <<v[1]>> /\ v[1] \in Int  BY <3>1, Single
        <3>3. QED  BY <3>1, <3>2
    <2>3. Below(v[1], f.width)  BY <2>1 DEF Below
    <2>4. QED  BY <2>2, <2>3
<1>2. ASSUME NEW n \in Nat, v = <<n>>, Below(n, f.width) PROVE Legal(f, v)
    <2>1. v \in Seq(Int) /\ Len(v) = 1 /\ v[1] = n /\ n >= 0  BY <1>2
    <2>2. v[1] >= 0 /\ v[1] < 2^f.width  BY <2>1, <1>2, Zenon DEF Below
    <2>3. Len(v) = 1 /\ v \in Seq(Int)  BY <2>1
    <2>4. QED  BY <2>2, <2>3, Zenon DEF Legal, Numbers
<1>3. QED  BY <1>1, <1>2

(* serialize() of a number. *)
LEMMA NumberBytes ==
    ASSUME NEW f, f.kind \in Numbers, NEW n \in Nat
    PROVE  /\ IsWhole(f) => Serialized(f, <<n>>) = Octets(n, f.size)
           /\ IsBits(f) => Serialized(f, <<n>>) = <<(n % 2^f.width) * 2^f.lo>>
<1>1. <<n>>[1] = n /\ ~ (n < 0)  OBVIOUS
<1>2. ASSUME IsWhole(f) PROVE Serialized(f, <<n>>) = Octets(n, f.size)
    <2>1. ~ (f.width < 8 * f.size)  BY <1>2 DEF IsWhole
    <2>2. QED  BY <1>1, <2>1 DEF Serialized, Numbers
<1>3. ASSUME IsBits(f) PROVE Serialized(f, <<n>>) = <<(n % 2^f.width) * 2^f.lo>>
    <2>1. f.width < 8 * f.size /\ f.kind = "number"  BY <1>3 DEF IsBits
    <2>2. QED  BY <1>1, <2>1 DEF Serialized
<1>4. QED  BY <1>2, <1>3

-----------------------------------------------------------------------------
(* What a field is written with: the bytes it has room for. *)
Takes(f, v, s) ==
    /\ s \in Seq(Int)
    /\ ~ Varies(f) => Len(s) = Span(f)
    /\ Varies(f) => \/ f.at + Len(s) <= 7
                    \/ f.kind = "utf8" /\ \E i \in DOMAIN v : v[i] >= 128

(* The kinds of fields that are written. *)
LEMMA Kinds ==
    ASSUME NEW f, WellMade(f)
    PROVE  \/ f.kind \in Numbers \/ f.kind = "wide" \/ f.kind = "channels" \/ f.kind = "channel"
           \/ f.kind = "index" \/ f.kind = "blind" \/ f.kind = "blinds" \/ f.kind = "half"
           \/ f.kind = "setHalf" \/ f.kind = "optional" \/ f.kind = "tail" \/ f.kind = "plain"
           \/ f.kind = "text" \/ f.kind = "utf8"
BY DEF WellMade, Numbers

(* One byte is what a field of span 1 takes. *)
LEMMA OneByte ==
    ASSUME NEW f, NEW v, NEW b \in Int, ~ Varies(f), Span(f) = 1
    PROVE  Takes(f, v, <<b>>)
BY DEF Takes

(* A number is written in as many bytes as its field spans; *)
LEMMA NumberTakes ==
    ASSUME NEW f, f.kind \in Numbers, WellMade(f), NEW v, Legal(f, v)
    PROVE  Takes(f, v, Serialized(f, v))
<1>1. PICK n \in Nat : v = <<n>> /\ Below(n, f.width)  BY NumberValue
<1>2. ~ Varies(f)  BY DEF Varies, Numbers
<1>3. CASE IsWhole(f)
    <2>1. Serialized(f, v) = Octets(n, f.size)  BY <1>1, <1>3, NumberBytes
    <2>2. WholeBytes(n, f.size, Octets(n, f.size))  BY <1>3, OctetsOf DEF IsWhole
    <2>3. Span(f) = f.size  BY <1>3 DEF Span, IsWhole, Numbers
    <2>4. QED  BY <1>2, <2>1, <2>2, <2>3 DEF Takes, WholeBytes
<1>4. CASE IsBits(f)
    <2>1. Serialized(f, v) = <<(n % 2^f.width) * 2^f.lo>>  BY <1>1, <1>4, NumberBytes
    <2>2. (n % 2^f.width) * 2^f.lo \in 0 .. 255
        <3>1. f.width \in 1 .. 7 /\ f.lo \in 0 .. 8 - f.width /\ n < 2^f.width
            BY <1>1, <1>4 DEF IsBits, Below
        <3>2. QED  BY <3>1, BitsReadBack
    <2>3. Span(f) = 1
        <3>1. f.kind = "number" /\ f.width # 8 * f.size  BY <1>4 DEF IsBits
        <3>2. QED  BY <3>1 DEF Span
    <2> DEFINE b == (n % 2^f.width) * 2^f.lo
    <2>4. b \in Int  BY <2>2
    <2> HIDE DEF b
    <2>5. Takes(f, v, <<b>>)  BY <1>2, <2>3, <2>4, OneByte
    <2>6. QED  BY <2>1, <2>5 DEF b
<1>5. QED  BY <1>3, <1>4, NumberField

(* so is a number of 32 bits, as two halves; *)
LEMMA WideBytes ==
    ASSUME NEW f, f.kind = "wide", NEW v, Legal(f, v)
    PROVE  /\ v \in Seq(Int) /\ Len(v) = 2
           /\ v[1] \in Nat /\ v[2] \in Nat /\ Room(v[1], 2) /\ Room(v[2], 2)
           /\ Serialized(f, v) = Octets(v[1], 2) \o Octets(v[2], 2)
<1>1. v \in Seq(Int) /\ Len(v) = 2 /\ \A i \in 1 .. 2 : v[i] >= 0 /\ v[i] < 2^16  BY DEF Legal
<1>2. v[1] \in Int /\ v[2] \in Int
    <2>1. v \in Seq(Int) /\ 1 \in 1 .. Len(v) /\ 2 \in 1 .. Len(v)  BY <1>1
    <2>2. QED  BY <2>1, ElementOfSeq
<1>3. 1 \in 1 .. 2 /\ 2 \in 1 .. 2  OBVIOUS
<1>4. v[1] >= 0 /\ v[1] < 2^16 /\ v[2] >= 0 /\ v[2] < 2^16  BY <1>1, <1>3
<1>5. v[1] \in Nat /\ v[2] \in Nat /\ Room(v[1], 2) /\ Room(v[2], 2)
    BY SMT, <1>2, <1>4, Powers DEF Room
<1>6. Serialized(f, v) = Octets(v[1], 2) \o Octets(v[2], 2)  BY DEF Serialized
<1>7. QED  BY <1>1, <1>5, <1>6

(* four bytes in all; *)
LEMMA WideTakes ==
    ASSUME NEW f, f.kind = "wide", NEW v, Legal(f, v)
    PROVE  Takes(f, v, Serialized(f, v))
<1> DEFINE p == Octets(v[1], 2)
           q == Octets(v[2], 2)
<1>1. Serialized(f, v) = p \o q /\ v[1] \in Nat /\ v[2] \in Nat  BY WideBytes
<1>2. WholeBytes(v[1], 2, p) /\ WholeBytes(v[2], 2, q)  BY <1>1, OctetsOf
<1>3. p \in Seq(Int) /\ Len(p) = 2 /\ q \in Seq(Int) /\ Len(q) = 2  BY <1>2 DEF WholeBytes
<1>4. ~ Varies(f) /\ Span(f) = 4  BY DEF Varies, Span
<1> HIDE DEF p, q
<1>5. p \o q \in Seq(Int) /\ Len(p \o q) = Len(p) + Len(q)  BY <1>3, ConcatProperties
<1>6. Len(p \o q) = 4  BY <1>3, <1>5
<1>7. QED  BY <1>1, <1>4, <1>5, <1>6 DEF Takes

(* channels, an index, a blind and half a degree are written in one byte; *)
LEMMA ByteTakes ==
    ASSUME NEW f, WellMade(f), NEW v, Fit(f, v),
           f.kind \in {"channels", "channel", "index", "blind", "blinds", "half", "setHalf"}
    PROVE  Takes(f, v, Serialized(f, v))
<1>1. v \in Seq(Int)  BY DEF Fit, Legal
<1>2. ~ Varies(f) /\ Span(f) = 1  BY DEF Varies, Span
<1>3. CASE f.kind = "channels"
    <2>1. PICK S \in SUBSET (1 .. 8) : v = Ascending(S)  BY <1>3 DEF Fit, Legal
    <2>2. ToSet(v) = S /\ v # <<AllChannels>>  BY <2>1, ChannelsOf
    <2>3. Serialized(f, v) = <<Mask(S)>>  BY <1>3, <2>2 DEF Serialized
    <2>4. Mask(S) \in Int  BY MaskReadsBack
    <2>5. QED  BY <1>2, <2>3, <2>4, OneByte
<1>4. CASE f.kind = "channel"
    <2>1. PICK c \in 1 .. 8 : v = Ascending({c})  BY <1>4 DEF Fit, Legal
    <2>2. v[1] = c /\ ~ (v[1] <= 0)
        <3>1. Ascending({c})[1] = c  BY ChannelOf
        <3>2. ~ (c <= 0)  OBVIOUS
        <3>3. QED  BY <2>1, <3>1, <3>2
    <2>3. Serialized(f, v) = <<2^(c - 1)>>  BY <1>4, <2>2 DEF Serialized
    <2>4. 2^(c - 1) \in Int  BY ChannelOf
    <2>5. QED  BY <1>2, <2>3, <2>4, OneByte
<1>5. CASE f.kind = "index"
    <2>1. CASE v = <<>>
        <3>1. Serialized(f, v) = <<0>>  BY <1>5, <2>1 DEF Serialized
        <3>2. QED  BY <1>2, <3>1, OneByte
    <2>2. CASE v # <<>>
        <3>1. Serialized(f, v) = <<v[1]>>  BY <1>5, <2>2 DEF Serialized
        <3>2. 1 \in 1 .. Len(v)  BY <1>1, <2>2
        <3>3. v[1] \in Int  BY <1>1, <3>2, ElementOfSeq
        <3>4. QED  BY <1>2, <3>1, <3>3, OneByte
    <2>3. QED  BY <2>1, <2>2
<1>6. CASE f.kind = "blind"
    <2>1. Serialized(f, v) = <<IF v = <<1>> THEN 3 ELSE 12>>  BY <1>6 DEF Serialized
    <2>2. (IF v = <<1>> THEN 3 ELSE 12) \in Int  OBVIOUS
    <2>3. QED  BY <1>2, <2>1, <2>2, OneByte
<1>7. CASE f.kind = "blinds"
    <2> DEFINE b == (IF 1 \in ToSet(v) THEN 3 ELSE 0) + (IF 2 \in ToSet(v) THEN 12 ELSE 0)
    <2>1. Serialized(f, v) = <<b>>  BY <1>7 DEF Serialized
    <2>2. b \in Int  OBVIOUS
    <2> HIDE DEF b
    <2>3. QED  BY <1>2, <2>1, <2>2, OneByte
<1>8. CASE f.kind \in {"half", "setHalf"}
    <2>1. Serialized(f, v) = <<v[1] % 256>>  BY <1>8 DEF Serialized
    <2>2. Len(v) = 1  BY <1>8 DEF Fit, Legal
    <2>3. v[1] \in Int  BY <1>1, <2>2, Single
    <2>4. v[1] % 256 \in Int  BY <2>3
    <2>5. QED  BY <1>2, <2>1, <2>4, OneByte
<1>9. QED  BY <1>3, <1>4, <1>5, <1>6, <1>7, <1>8

(* A character as bytes. *)
LEMMA Utf8Bytes ==
    ASSUME NEW c \in Int
    PROVE  Utf8(c) \in Seq(Int) /\ (c < 128 => Len(Utf8(c)) = 1)
<1>1. CASE c < 128  BY <1>1 DEF Utf8
<1>2. CASE ~ (c < 128)
    <2>1. 192 + (c \div 64) \in Int /\ 128 + (c % 64) \in Int  OBVIOUS
    <2>2. QED  BY <1>2, <2>1 DEF Utf8
<1>3. QED  BY <1>1, <1>2

(* Wherever sequences stand one after the other, each stands somewhere. *)
LEMMA Places ==
    ASSUME NEW n \in Nat, n # 0, NEW s \in [1 .. n -> Seq(Int)]
    PROVE  \E st \in [1 .. n -> Nat] :
              st[1] = 0 /\ \A i \in 2 .. n : st[i] = st[i - 1] + Len(s[i - 1])
<1> DEFINE next == [i \in 1 .. n |-> [x \in Nat |-> IF i = 1 THEN 0 ELSE x + Len(s[i - 1])]]
<1>1. next \in [1 .. n -> [Nat -> Nat]]
    <2>1. ASSUME NEW i \in 1 .. n, NEW x \in Nat
          PROVE  (IF i = 1 THEN 0 ELSE x + Len(s[i - 1])) \in Nat
        <3>1. CASE i = 1  BY <3>1
        <3>2. CASE i # 1
            <4>1. i - 1 \in 1 .. n  BY <3>2
            <4>2. s[i - 1] \in Seq(Int)  BY <4>1
            <4>3. Len(s[i - 1]) \in Nat  BY <4>2
            <4>4. QED  BY <3>2, <4>3
        <3>3. QED  BY <3>1, <3>2
    <2>2. QED  BY <2>1
<1>2. PICK k : Obeys(k, Nat, n, 0, next)
    <2> HIDE DEF next
    <2>1. QED  BY <1>1, Recursion
<1> DEFINE st == [i \in 1 .. n |-> k[i]]
<1>3. ASSUME NEW i \in 1 .. n PROVE k[i] \in Nat /\ k[i] = IF i = 1 THEN 0 ELSE k[i - 1] + Len(s[i - 1])
    <2>1. i \in 0 .. n /\ i - 1 \in 0 .. n  OBVIOUS
    <2>2. k[i] \in Nat /\ k[i - 1] \in Nat /\ k[i] = next[i][k[i - 1]]  BY <1>2, <2>1 DEF Obeys
    <2>3. next[i] = [x \in Nat |-> IF i = 1 THEN 0 ELSE x + Len(s[i - 1])]  OBVIOUS
    <2> HIDE DEF next
    <2>4. QED  BY <2>2, <2>3
<1>4. st \in [1 .. n -> Nat]  BY <1>3
<1>5. st[1] = 0
    <2>1. 1 \in 1 .. n  OBVIOUS
    <2>2. QED  BY <2>1, <1>3
<1>6. ASSUME NEW i \in 2 .. n PROVE st[i] = st[i - 1] + Len(s[i - 1])
    <2>1. i \in 1 .. n /\ i - 1 \in 1 .. n /\ i # 1  OBVIOUS
    <2>2. QED  BY <2>1, <1>3
<1> HIDE DEF st
<1>7. QED  BY <1>4, <1>5, <1>6

(* The five bytes of an ASCII text; more for others. *)
LEMMA TextBytes ==
    ASSUME NEW f, f.kind = "utf8", NEW v, Legal(f, v)
    PROVE  /\ Serialized(f, v) \in Seq(Int)
           /\ (\A i \in DOMAIN v : v[i] < 128) => Len(Serialized(f, v)) = 5
<1>1. PICK n \in Nat : n = 5  OBVIOUS
<1> DEFINE z == [i \in 1 .. 5 - Len(v) |-> 0]
           p == Padded(v, 5)
           s == [i \in 1 .. n |-> Utf8(p[i])]
<1>2. v \in Seq(Int) /\ Len(v) <= 5 /\ n # 0  BY <1>1 DEF Legal
<1>3. z \in Seq(Int) /\ Len(z) = 5 - Len(v)
    <2>1. 5 - Len(v) \in Nat  BY <1>2
    <2>2. QED  BY <2>1
<1>4. p = v \o z  BY DEF Padded
<1>5. p \in Seq(Int) /\ Len(p) = 5
    <2> HIDE DEF z, p
    <2>1. v \o z \in Seq(Int) /\ Len(v \o z) = Len(v) + Len(z)  BY <1>2, <1>3, ConcatProperties
    <2>2. Len(v) \in Nat  BY <1>2
    <2>3. QED  BY <1>3, <1>4, <2>1, <2>2
<1> HIDE DEF p
<1>6. DOMAIN p = 1 .. n  BY <1>1, <1>5
<1>7. \A i \in 1 .. n : p[i] \in Int  BY <1>1, <1>5, ElementOfSeq
<1>8. s \in [1 .. n -> Seq(Int)]  BY <1>7, Utf8Bytes
<1>9. Serialized(f, v) = FlattenSeq(s)
    <2>1. Serialized(f, v) = FlattenSeq([i \in DOMAIN p |-> Utf8(p[i])])  BY DEF Serialized, p
    <2>2. QED  BY <2>1, <1>6
<1>10. FlattenSeq(s) \in Seq(Int)
    <2>1. \E st \in [1 .. n -> Nat] : st[1] = 0 /\ \A i \in 2 .. n : st[i] = st[i - 1] + Len(s[i - 1])
        <3> HIDE DEF s
        <3>1. QED  BY <1>2, <1>8, Places
    <2> HIDE DEF s
    <2>2. QED  BY <1>2, <1>8, <2>1, Flatten
<1>11. ASSUME \A i \in DOMAIN v : v[i] < 128 PROVE Len(FlattenSeq(s)) = 5
    <2>1. \A i \in 1 .. n : p[i] < 128
        <3>1. TAKE i \in 1 .. n
        <3>2. CASE i <= Len(v)
            <4>1. i \in 1 .. Len(v) /\ i \in DOMAIN v  BY <1>2, <3>2
            <4>2. (v \o z)[i] = v[i]
                <5> HIDE DEF z
                <5>1. QED  BY <1>2, <1>3, <4>1, ConcatProperties
            <4>3. QED  BY <1>4, <1>11, <4>1, <4>2
        <3>3. CASE ~ (i <= Len(v))
            <4>1. Len(v) \in Nat  BY <1>2
            <4>2. i - Len(v) \in 1 .. Len(z)  BY <1>1, <1>3, <3>3, <4>1
            <4>3. (v \o z)[Len(v) + (i - Len(v))] = z[i - Len(v)]
                <5> HIDE DEF z
                <5>1. QED  BY <1>2, <1>3, <4>2, SecondPart
            <4>4. Len(v) + (i - Len(v)) = i  BY <4>1
            <4>5. z[i - Len(v)] = 0  BY <1>3, <4>2
            <4>6. p[i] = 0
                <5> HIDE DEF z
                <5>1. QED  BY <1>4, <4>3, <4>4, <4>5
            <4>7. QED  BY <4>6
        <3>4. QED  BY <3>2, <3>3
    <2>2. \A i \in 1 .. n : Len(s[i]) = 1  BY <1>7, <2>1, Utf8Bytes
    <2> DEFINE st == [i \in 1 .. n |-> i - 1]
    <2>3. st \in [1 .. n -> Nat] /\ st[1] = 0 /\ st[n] = 4  BY <1>1
    <2>4. \A i \in 2 .. n : st[i] = st[i - 1] + Len(s[i - 1])
        <3>1. TAKE i \in 2 .. n
        <3>2. i \in 1 .. n /\ i - 1 \in 1 .. n  OBVIOUS
        <3>3. Len(s[i - 1]) = 1  BY <2>2, <3>2
        <3> HIDE DEF s
        <3>4. QED  BY <3>2, <3>3
    <2> HIDE DEF s, st
    <2>5. Len(FlattenSeq(s)) = st[n] + Len(s[n])  BY <1>2, <1>8, <2>3, <2>4, Flatten
    <2>6. Len(s[n]) = 1
        <3>1. n \in 1 .. n  BY <1>1
        <3>2. QED  BY <2>2, <3>1
    <2>7. QED  BY <2>3, <2>5, <2>6
<1>12. QED  BY <1>9, <1>10, <1>11

(* and what is as long as its value ends within the body, unless it is a memo
   text of characters that take two bytes.                                  *)
LEMMA VaryingTakes ==
    ASSUME NEW f, WellMade(f), f.at \in Nat, f.at + Span(f) <= 7, NEW v, Fit(f, v),
           f.kind \in {"optional", "tail", "plain", "text", "utf8"}
    PROVE  Takes(f, v, Serialized(f, v))
<1>1. v \in Seq(Int) /\ Legal(f, v)  BY DEF Fit, Legal
<1>2. Span(f) = 1  BY DEF Span
<1>3. CASE f.kind = "optional"
    <2>1. Len(v) <= 1 /\ (v = <<>> => f.default = <<>>)  BY <1>1, <1>3 DEF Legal
    <2>2. CASE v = <<>>
        <3>1. Serialized(f, v) = <<>>  BY <1>3, <2>2 DEF Serialized
        <3>2. Varies(f)  BY <1>3, <2>1, <2>2 DEF Varies
        <3>3. f.at + Len(<<>>) <= 7  BY <1>2
        <3>4. QED  BY <3>1, <3>2, <3>3 DEF Takes
    <2>3. CASE v # <<>>
        <3>1. Serialized(f, v) = <<v[1] % 256>>  BY <1>3, <2>3 DEF Serialized
        <3>2. Len(v) = 1  BY <1>1, <2>1, <2>3, AtMostOne
        <3>3. v[1] % 256 \in Int  BY <1>1, <3>2, Single
        <3> DEFINE b == v[1] % 256
        <3> HIDE DEF b
        <3>4. b \in Int  BY <3>3 DEF b
        <3>5. Len(<<b>>) = 1 /\ <<b>> \in Seq(Int)  BY <3>4
        <3>6. f.at + Len(<<b>>) <= 7  BY <1>2, <3>5
        <3>7. Takes(f, v, <<b>>)  BY <1>2, <3>5, <3>6 DEF Takes
        <3>8. QED  BY <3>1, <3>7 DEF b
    <2>4. QED  BY <2>2, <2>3
<1>4. CASE f.kind = "tail"
    <2>1. Serialized(f, v) = v  BY <1>4 DEF Serialized
    <2>2. Len(v) <= 7 - f.at  BY <1>1, <1>4 DEF Legal
    <2>3. f.at + Len(v) <= 7
        <3>1. Len(v) \in Nat  BY <1>1
        <3>2. QED  BY <2>2, <3>1
    <2>4. Varies(f)  BY <1>4 DEF Varies
    <2>5. QED  BY <1>1, <2>1, <2>3, <2>4 DEF Takes
<1>5. CASE f.kind = "plain"
    <2>1. Serialized(f, v) = v /\ Len(v) = 1  BY <1>1, <1>5 DEF Serialized, Legal
    <2>2. ~ Varies(f)  BY <1>5 DEF Varies
    <2>3. QED  BY <1>1, <1>2, <2>1, <2>2 DEF Takes
<1>6. CASE f.kind = "text"
    <2> DEFINE t == Only(v, 0 .. 127)
    <2>1. Serialized(f, v) = t  BY <1>6 DEF Serialized
    <2>2. Len(t) <= 7 - f.at  BY <1>1, <1>6 DEF Legal
    <2>3. t \in Seq(Int)  BY <1>1, OnlyKeeps
    <2> HIDE DEF t
    <2>4. f.at + Len(t) <= 7
        <3>1. Len(t) \in Nat  BY <2>3
        <3>2. QED  BY <2>2, <3>1
    <2>5. Varies(f)  BY <1>6 DEF Varies
    <2>6. QED  BY <2>1, <2>3, <2>4, <2>5 DEF Takes
<1>7. CASE f.kind = "utf8"
    <2>1. Varies(f) /\ f.at = 2  BY <1>7 DEF Varies, WellMade
    <2>2. Serialized(f, v) \in Seq(Int)  BY <1>1, <1>7, TextBytes
    <2>3. CASE \A i \in DOMAIN v : v[i] < 128
        <3>1. Len(Serialized(f, v)) = 5  BY <1>1, <1>7, <2>3, TextBytes
        <3>2. f.at + Len(Serialized(f, v)) <= 7  BY <2>1, <3>1
        <3>3. QED  BY <2>1, <2>2, <3>2 DEF Takes
    <2>4. CASE ~ \A i \in DOMAIN v : v[i] < 128
        <3>1. \E i \in DOMAIN v : v[i] >= 128  BY <1>1, <2>4
        <3>2. QED  BY <1>7, <2>1, <2>2, <3>1 DEF Takes
    <2>5. QED  BY <2>3, <2>4
<1>8. QED  BY <1>3, <1>4, <1>5, <1>6, <1>7

(* A field is written in the bytes it has room for. *)
LEMMA FieldsWritten ==
    ASSUME NEW f, WellMade(f), f.at \in Nat, f.at + Span(f) <= 7, NEW v, Fit(f, v)
    PROVE  Takes(f, v, Serialized(f, v))
<1>1. CASE f.kind \in Numbers  BY <1>1, NumberTakes DEF Fit
<1>2. CASE f.kind = "wide"  BY <1>2, WideTakes DEF Fit
<1>3. CASE f.kind \in {"channels", "channel", "index", "blind", "blinds", "half", "setHalf"}
    BY <1>3, ByteTakes
<1>4. CASE f.kind \in {"optional", "tail", "plain", "text", "utf8"}  BY <1>4, VaryingTakes
<1>5. QED  BY <1>1, <1>2, <1>3, <1>4, Kinds

-----------------------------------------------------------------------------
(* What a field reads. *)

(* The bytes of v for f are in d, and nothing after them if they may be more. *)
Lies(f, v, d) ==
    /\ Stands(Serialized(f, v), d, f.at)
    /\ Varies(f) => Len(d) = f.at + Len(Serialized(f, v))

ReadsAs(f, d, v) == ParseError(f, d) = "none" /\ Parsed(f, d) = v

(* All bits of a number that fits are the number. *)
LEMMA WholeBits ==
    ASSUME NEW n \in Nat, NEW size \in 1 .. 3, Room(n, size)
    PROVE  BitsOf(n, 0, 8 * size) = n
<1>1. size = 1 \/ size = 2 \/ size = 3  OBVIOUS
<1>2. 2^0 = 1  BY Powers
<1>3. CASE size = 1
    <2>1. 2^(8 * size) = 256
        <3>1. 8 * size = 8  BY <1>3
        <3>2. 2^(8 * size) = 2^8  BY <3>1, Zenon
        <3>3. QED  BY <3>2, Powers, SMT
    <2>2. n < 256  BY SMT, <1>3 DEF Room
    <2>3. BitsOf(n, 0, 8 * size) = (n \div 1) % 256  BY SMT, <1>2, <2>1 DEF BitsOf
    <2>4. QED  BY SMT, <2>2, <2>3
<1>4. CASE size = 2
    <2>1. 2^(8 * size) = 65536
        <3>1. 8 * size = 16  BY <1>4
        <3>2. 2^(8 * size) = 2^16  BY <3>1, Zenon
        <3>3. QED  BY <3>2, Powers, SMT
    <2>2. n < 65536  BY SMT, <1>4 DEF Room
    <2>3. BitsOf(n, 0, 8 * size) = (n \div 1) % 65536  BY SMT, <1>2, <2>1 DEF BitsOf
    <2>4. QED  BY SMT, <2>2, <2>3
<1>5. CASE size = 3
    <2>1. 2^(8 * size) = 16777216
        <3>1. 8 * size = 24  BY <1>5
        <3>2. 2^(8 * size) = 2^24  BY <3>1, Zenon
        <3>3. QED  BY <3>2, Powers, SMT
    <2>2. n < 16777216  BY SMT, <1>5 DEF Room
    <2>3. BitsOf(n, 0, 8 * size) = (n \div 1) % 16777216  BY SMT, <1>2, <2>1 DEF BitsOf
    <2>4. QED  BY SMT, <2>2, <2>3
<1>6. QED  BY <1>1, <1>3, <1>4, <1>5

(* The byte that stands in a body is read there. *)
LEMMA ByteStands ==
    ASSUME NEW b, NEW d \in Seq(Int), NEW at \in Nat, Stands(<<b>>, d, at)
    PROVE  Len(d) >= at + 1 /\ d[at + 1] = b /\ Number(d, at, 1) = b
<1>1. Len(<<b>>) = 1 /\ 1 \in 1 .. Len(<<b>>) /\ <<b>>[1] = b  OBVIOUS
<1>2. Len(d) >= at + 1 /\ d[at + 1] = b  BY <1>1 DEF Stands
<1>3. Number(d, at, 1) = d[at + 1]  BY DEF Number
<1>4. QED  BY <1>2, <1>3

(* A field of bytes that are there. *)
LEMMA Unfailing ==
    ASSUME NEW f, f.at \in Nat, f.size \in Nat, NEW d \in Seq(Int), d # <<>>, f.at + f.size <= Len(d),
           f.kind \in Numbers \cup {"wide", "channels", "index", "blind", "blinds", "setHalf"}
    PROVE  ParseError(f, d) = "none"
<1>1. ~ (Len(d) < f.at + f.size)
    <2>1. Len(d) \in Nat  OBVIOUS
    <2>2. QED  BY <2>1
<1>2. QED  BY <1>1 DEF ParseError, Numbers

(* parse() of a number. *)
LEMMA NumberParsed ==
    ASSUME NEW f, f.kind \in Numbers, f.offset = 0, f.scale = 1, NEW d, NEW n \in Int,
           BitsOf(Number(d, f.at, f.size), f.lo, f.width) = n
    PROVE  Parsed(f, d) = <<n>>
<1>1. Parsed(f, d) = <<f.offset + f.scale * BitsOf(Number(d, f.at, f.size), f.lo, f.width)>>
    BY DEF Parsed, Numbers
<1>2. 0 + 1 * n = n  OBVIOUS
<1>3. QED  BY <1>1, <1>2

(* A number is read as it was written: ByteField, BitField, Int16Field,
   Int24Field and ComputedField.                                            *)
LEMMA NumberReads ==
    ASSUME NEW f, f.kind \in Numbers, WellMade(f), f.at \in Nat, NEW v, Legal(f, v),
           NEW d \in Seq(Int), d # <<>>, Lies(f, v, d)
    PROVE  ReadsAs(f, d, v)
<1>1. PICK n \in Nat : v = <<n>> /\ Below(n, f.width)  BY NumberValue
<1>2. Stands(Serialized(f, v), d, f.at)  BY DEF Lies
<1>3. f.offset = 0 /\ f.scale = 1  BY NumberField
<1>4. CASE IsWhole(f)
    <2>1. Serialized(f, v) = Octets(n, f.size)  BY <1>1, <1>4, NumberBytes
    <2>2. f.size \in 1 .. 3 /\ f.lo = 0 /\ f.width = 8 * f.size  BY <1>4 DEF IsWhole
    <2>3. Room(n, f.size)  BY <1>1, <2>2, BelowRoom
    <2>4. Number(d, f.at, f.size) = n  BY <1>2, <2>1, <2>2, <2>3, OctetsReadBack
    <2>5. BitsOf(n, f.lo, f.width) = n  BY <2>2, <2>3, WholeBits
    <2>6. Parsed(f, d) = v  BY <1>1, <1>3, <2>4, <2>5, NumberParsed
    <2>7. WholeBytes(n, f.size, Octets(n, f.size))  BY <2>2, OctetsOf
    <2>8. Len(Octets(n, f.size)) = f.size  BY <2>7 DEF WholeBytes
    <2>9. f.at + f.size <= Len(d)  BY <1>2, <2>1, <2>8 DEF Stands
    <2>10. ParseError(f, d) = "none"
        <3>1. f.size \in Nat  BY <2>2
        <3>2. QED  BY <2>9, <3>1, Unfailing
    <2>11. QED  BY <2>6, <2>10 DEF ReadsAs
<1>5. CASE IsBits(f)
    <2> DEFINE b == (n % 2^f.width) * 2^f.lo
    <2>1. Serialized(f, v) = <<b>>  BY <1>1, <1>5, NumberBytes
    <2>2. f.width \in 1 .. 7 /\ f.lo \in 0 .. 8 - f.width /\ n < 2^f.width /\ f.size = 1
        BY <1>1, <1>5 DEF IsBits, Below
    <2>3. b \in 0 .. 255 /\ BitsOf(b, f.lo, f.width) = n  BY <2>2, BitsReadBack
    <2> HIDE DEF b
    <2>4. Len(d) >= f.at + 1 /\ Number(d, f.at, 1) = b  BY <1>2, <2>1, ByteStands
    <2>5. Parsed(f, d) = v  BY <1>1, <1>3, <2>2, <2>3, <2>4, NumberParsed
    <2>6. f.at + f.size <= Len(d)
        <3>1. f.size = 1  BY <1>5 DEF IsBits
        <3>2. QED  BY <2>4, <3>1
    <2>7. ParseError(f, d) = "none"
        <3>1. f.size \in Nat  BY <2>2
        <3>2. QED  BY <2>6, <3>1, Unfailing
    <2>8. QED  BY <2>5, <2>7 DEF ReadsAs
<1>6. QED  BY <1>4, <1>5, NumberField

(* So is a number of 32 bits (Int32Field), *)
LEMMA WideReads ==
    ASSUME NEW f, f.kind = "wide", WellMade(f), f.at \in Nat, NEW v, Legal(f, v),
           NEW d \in Seq(Int), d # <<>>, Lies(f, v, d)
    PROVE  ReadsAs(f, d, v)
<1> DEFINE p == Octets(v[1], 2)
           q == Octets(v[2], 2)
<1>1. /\ v \in Seq(Int) /\ Len(v) = 2
      /\ v[1] \in Nat /\ v[2] \in Nat /\ Room(v[1], 2) /\ Room(v[2], 2)
      /\ Serialized(f, v) = p \o q
    BY WideBytes
<1>2. WholeBytes(v[1], 2, p) /\ WholeBytes(v[2], 2, q)  BY <1>1, OctetsOf
<1>3. p \in Seq(Int) /\ Len(p) = 2 /\ q \in Seq(Int) /\ Len(q) = 2  BY <1>2 DEF WholeBytes
<1>4. Stands(p \o q, d, f.at)  BY <1>1 DEF Lies
<1>5. Stands(p, d, f.at) /\ Stands(q, d, f.at + 2) /\ Len(d) >= f.at + 4
    <2> HIDE DEF p, q
    <2>1. Len(p \o q) = Len(p) + Len(q)  BY <1>3, ConcatProperties
    <2>2. Len(p \o q) = 4  BY <1>3, <2>1
    <2>3. Len(d) >= f.at + 4 /\ \A j \in 1 .. 4 : d[f.at + j] = (p \o q)[j]  BY <1>4, <2>2 DEF Stands
    <2>4. Len(d) \in Nat  OBVIOUS
    <2>5. \A j \in 1 .. 2 : d[f.at + j] = p[j]
        <3>1. TAKE j \in 1 .. 2
        <3>2. j \in 1 .. 4 /\ j \in 1 .. Len(p)  BY <1>3
        <3>3. \A x \in 1 .. Len(p) : (p \o q)[x] = p[x]  BY <1>3, FirstPart
        <3>4. QED  BY <2>3, <3>2, <3>3
    <2>6. \A j \in 1 .. 2 : d[(f.at + 2) + j] = q[j]
        <3>1. TAKE j \in 1 .. 2
        <3>2. 2 + j \in 1 .. 4 /\ j \in 1 .. Len(q) /\ (f.at + 2) + j = f.at + (2 + j)
            <4>1. 2 + j \in 1 .. 4  OBVIOUS
            <4>2. j \in 1 .. Len(q)  BY <1>3
            <4>3. \A a, x \in Int : (a + 2) + x = a + (2 + x)  OBVIOUS
            <4>4. (f.at + 2) + j = f.at + (2 + j)  BY <4>3
            <4>5. QED  BY <4>1, <4>2, <4>4
        <3>3. (p \o q)[Len(p) + j] = q[j]  BY <1>3, <3>2, SecondPart
        <3>4. (p \o q)[2 + j] = q[j]  BY <1>3, <3>3
        <3>5. d[f.at + (2 + j)] = (p \o q)[2 + j]  BY <2>3, <3>2
        <3>6. QED  BY <3>2, <3>4, <3>5
    <2>7. Stands(p, d, f.at)  BY <1>3, <2>3, <2>4, <2>5 DEF Stands
    <2>8. Stands(q, d, f.at + 2)  BY <1>3, <2>3, <2>4, <2>6 DEF Stands
    <2>9. QED  BY <2>3, <2>7, <2>8
<1>6. Number(d, f.at, 2) = v[1]  BY <1>1, <1>5, OctetsReadBack
<1>7. Number(d, f.at + 2, 2) = v[2]
    <2>1. f.at + 2 \in Nat  OBVIOUS
    <2>2. QED  BY <1>1, <1>5, <2>1, OctetsReadBack
<1>8. Parsed(f, d) = <<v[1], v[2]>>  BY <1>6, <1>7 DEF Parsed
<1>9. v = <<v[1], v[2]>>
    <2>1. <<v[1], v[2]>> \in Seq(Int) /\ Len(<<v[1], v[2]>>) = 2  BY <1>1
    <2>2. \A i \in 1 .. 2 : v[i] = <<v[1], v[2]>>[i]
        <3>1. \A i \in 1 .. 2 : i = 1 \/ i = 2  OBVIOUS
        <3>2. QED  BY <3>1
    <2>3. QED  BY <1>1, <2>1, <2>2, SeqEqual
<1>10. ParseError(f, d) = "none"
    <2>1. f.size = 4  BY DEF WellMade, Numbers
    <2>2. f.at + f.size <= Len(d) /\ f.size \in Nat  BY <1>5, <2>1
    <2>3. QED  BY <2>2, Unfailing
<1>11. QED  BY <1>8, <1>9, <1>10 DEF ReadsAs

(* Fields of one byte. *)
LEMMA ByteField1 ==
    ASSUME NEW f, f.kind \in {"channels", "channel", "index", "blind", "blinds", "setHalf"}, WellMade(f),
           f.at \in Nat, NEW b, NEW d \in Seq(Int), Stands(<<b>>, d, f.at)
    PROVE  /\ f.size = 1 /\ Len(d) > f.at /\ d[f.at + 1] = b /\ Number(d, f.at, f.size) = b
           /\ f.at + f.size <= Len(d)
<1>1. Len(d) >= f.at + 1 /\ d[f.at + 1] = b /\ Number(d, f.at, 1) = b  BY ByteStands
<1>2. f.size = 1  BY DEF WellMade
<1>3. Len(d) \in Nat  OBVIOUS
<1>4. Len(d) > f.at /\ f.at + f.size <= Len(d)  BY <1>1, <1>2, <1>3
<1>5. QED  BY <1>1, <1>2, <1>4

(* a list of channels, one channel, and blinds (ChannelsField, ChannelField), *)
LEMMA ChannelsRead ==
    ASSUME NEW f, f.kind \in {"channels", "channel", "blinds"}, WellMade(f), f.at \in Nat, NEW v, Fit(f, v),
           NEW d \in Seq(Int), d # <<>>, Lies(f, v, d)
    PROVE  ReadsAs(f, d, v)
<1>1. Stands(Serialized(f, v), d, f.at)  BY DEF Lies
<1>2. CASE f.kind = "channels"
    <2>1. PICK S \in SUBSET (1 .. 8) : v = Ascending(S)  BY <1>2 DEF Fit, Legal
    <2>2. ToSet(v) = S /\ v # <<AllChannels>>  BY <2>1, ChannelsOf
    <2>3. Serialized(f, v) = <<Mask(S)>>  BY <1>2, <2>2 DEF Serialized
    <2>4. /\ Number(d, f.at, f.size) = Mask(S) /\ f.at + f.size <= Len(d) /\ f.size = 1
        BY <1>1, <1>2, <2>3, ByteField1
    <2>5. ChannelsIn(Mask(S)) = S  BY MaskReadsBack
    <2>6. Parsed(f, d) = Ascending(ChannelsIn(Mask(S)))  BY <1>2, <2>4 DEF Parsed
    <2>7. f.size \in Nat  BY <2>4
    <2>8. ParseError(f, d) = "none"  BY <1>2, <2>4, <2>7, Unfailing
    <2>9. QED  BY <2>1, <2>5, <2>6, <2>8 DEF ReadsAs
<1>3. CASE f.kind = "channel"
    <2>1. PICK c \in 1 .. 8 : v = Ascending({c})  BY <1>3 DEF Fit, Legal
    <2>2. v[1] = c /\ ~ (v[1] <= 0)
        <3>1. Ascending({c})[1] = c  BY ChannelOf
        <3>2. ~ (c <= 0)  OBVIOUS
        <3>3. QED  BY <2>1, <3>1, <3>2
    <2> DEFINE b == 2^(c - 1)
    <2>3. Serialized(f, v) = <<b>>  BY <1>3, <2>2 DEF Serialized
    <2>4. ChannelsIn(b) = {c}  BY ChannelOf
    <2> HIDE DEF b
    <2>5. /\ Number(d, f.at, f.size) = b /\ f.at + f.size <= Len(d) /\ d[f.at + 1] = b /\ f.size = 1
        BY <1>1, <1>3, <2>3, ByteField1
    <2>6. Parsed(f, d) = v  BY <1>3, <2>1, <2>4, <2>5 DEF Parsed
    <2>7. Cardinality(ChannelsIn(d[f.at + 1])) = 1  BY <2>4, <2>5, FS_Singleton
    <2>8. ~ (Len(d) < f.at + f.size)
        <3>1. Len(d) \in Nat  OBVIOUS
        <3>2. QED  BY <2>5, <3>1
    <2>9. ParseError(f, d) = "none"  BY <1>3, <2>7, <2>8 DEF ParseError
    <2>10. QED  BY <2>6, <2>9 DEF ReadsAs
<1>4. CASE f.kind = "blinds"
    <2>1. PICK S \in SUBSET {1, 2} : v = Ascending(S)  BY <1>4 DEF Fit, Legal
    <2>2. S \in SUBSET (1 .. 8)  OBVIOUS
    <2>3. ToSet(v) = S  BY <2>1, <2>2, ChannelsOf
    <2> DEFINE b == (IF 1 \in S THEN 3 ELSE 0) + (IF 2 \in S THEN 12 ELSE 0)
    <2>4. Serialized(f, v) = <<b>>  BY <1>4, <2>3 DEF Serialized
    <2>5. ChannelsIn(BitsOf(b, 1, 2)) = S  BY BlindsReadBack
    <2> HIDE DEF b
    <2>6. Number(d, f.at, f.size) = b /\ f.at + f.size <= Len(d) /\ f.size = 1
        BY <1>1, <1>4, <2>4, ByteField1
    <2>7. Parsed(f, d) = v  BY <1>4, <2>1, <2>5, <2>6 DEF Parsed
    <2>8. f.size \in Nat  BY <2>6
    <2>9. ParseError(f, d) = "none"  BY <1>4, <2>6, <2>8, Unfailing
    <2>10. QED  BY <2>7, <2>9 DEF ReadsAs
<1>5. QED  BY <1>2, <1>3, <1>4

(* the index of a channel and a blind's (ChannelIndexField, BlindChannelField), *)
LEMMA IndexReads ==
    ASSUME NEW f, f.kind \in {"index", "blind"}, WellMade(f), f.at \in Nat, NEW v, Fit(f, v),
           NEW d \in Seq(Int), d # <<>>, Lies(f, v, d)
    PROVE  ReadsAs(f, d, v)
<1>1. Stands(Serialized(f, v), d, f.at) /\ v \in Seq(Int)  BY DEF Lies, Fit, Legal
<1>2. CASE f.kind = "index"
    <2>1. Len(v) <= 1 /\ \A i \in DOMAIN v : v[i] \in 1 .. 255  BY <1>2 DEF Fit, Legal
    <2>2. CASE v = <<>>
        <3>1. Serialized(f, v) = <<0>>  BY <1>2, <2>2 DEF Serialized
        <3>2. Number(d, f.at, f.size) = 0 /\ f.at + f.size <= Len(d) /\ f.size = 1
            BY <1>1, <1>2, <3>1, ByteField1
        <3>3. Parsed(f, d) = <<>>  BY <1>2, <3>2 DEF Parsed
        <3>4. f.size \in Nat  BY <3>2
        <3>5. ParseError(f, d) = "none"  BY <1>2, <3>2, <3>4, Unfailing
        <3>6. QED  BY <2>2, <3>3, <3>5 DEF ReadsAs
    <2>3. CASE v # <<>>
        <3>1. Len(v) = 1  BY <1>1, <2>1, <2>3, AtMostOne
        <3>2. v = <<v[1]>>  BY <1>1, <3>1, Single
        <3>3. 1 \in DOMAIN v  BY <1>1, <3>1
        <3>4. v[1] \in 1 .. 255  BY <2>1, <3>3
        <3>5. v[1] # 0
            <4>1. \A x \in 1 .. 255 : x # 0  OBVIOUS
            <4>2. QED  BY <3>4, <4>1
        <3>6. Serialized(f, v) = <<v[1]>>  BY <1>2, <2>3 DEF Serialized
        <3>7. Number(d, f.at, f.size) = v[1] /\ f.at + f.size <= Len(d) /\ f.size = 1
            BY <1>1, <1>2, <3>6, ByteField1
        <3>8. Parsed(f, d) = <<v[1]>>  BY <1>2, <3>5, <3>7 DEF Parsed
        <3>9. f.size \in Nat  BY <3>7
        <3>10. ParseError(f, d) = "none"  BY <1>2, <3>7, <3>9, Unfailing
        <3>11. QED  BY <3>2, <3>8, <3>10 DEF ReadsAs
    <2>4. QED  BY <2>2, <2>3
<1>3. CASE f.kind = "blind"
    <2> DEFINE b == IF v = <<1>> THEN 3 ELSE 12
    <2>1. Len(v) = 1 /\ v[1] \in {1, 2}  BY <1>3 DEF Fit, Legal
    <2>2. v = <<v[1]>>  BY <1>1, <2>1, Single
    <2>3. Serialized(f, v) = <<b>>  BY <1>3 DEF Serialized
    <2>4. BlindIn(b) = v[1]
        <3>1. BitsOf(b, 1, 2) = (b \div 2) % 4  BY Powers DEF BitsOf
        <3>2. CASE v[1] = 1
            <4>1. b = 3  BY <2>2, <3>2
            <4>2. QED  BY <3>1, <3>2, <4>1 DEF BlindIn
        <3>3. CASE v[1] = 2
            <4>1. <<1>>[1] = 1  OBVIOUS
            <4>2. v # <<1>>  BY <3>3, <4>1
            <4>3. b = 12  BY <4>2
            <4>4. QED  BY <3>1, <3>3, <4>3 DEF BlindIn
        <3>4. QED  BY <2>1, <3>2, <3>3
    <2> HIDE DEF b
    <2>5. Number(d, f.at, f.size) = b /\ f.at + f.size <= Len(d) /\ f.size = 1
        BY <1>1, <1>3, <2>3, ByteField1
    <2>6. Parsed(f, d) = v  BY <1>3, <2>2, <2>4, <2>5 DEF Parsed
    <2>7. f.size \in Nat  BY <2>5
    <2>8. ParseError(f, d) = "none"  BY <1>3, <2>5, <2>7, Unfailing
    <2>9. QED  BY <2>6, <2>8 DEF ReadsAs
<1>4. QED  BY <1>2, <1>3

(* A temperature in a byte of two's complement. *)
LEMMA HalfReadsBack ==
    ASSUME NEW n \in -128 .. 127
    PROVE  n % 256 \in 0 .. 255 /\ TwosComplement(n % 256, 8) = n
<1>1. 2^(8 - 1) = 128 /\ 2^8 = 256  BY Powers
<1>2. CASE n >= 0
    <2>1. n % 256 = n /\ n < 128  BY <1>2
    <2>2. QED  BY <1>1, <1>2, <2>1 DEF TwosComplement
<1>3. CASE ~ (n >= 0)
    <2>1. n % 256 = n + 256  BY <1>3
    <2>2. n + 256 >= 128 /\ n + 256 <= 255  BY <1>3
    <2>3. QED  BY <1>1, <2>1, <2>2 DEF TwosComplement
<1>4. QED  BY <1>2, <1>3

(* a temperature in half degrees (HalfDegreeField), *)
LEMMA HalfReads ==
    ASSUME NEW f, f.kind \in {"half", "setHalf"}, WellMade(f), f.at \in Nat, NEW v, Fit(f, v),
           NEW d \in Seq(Int), d # <<>>, Lies(f, v, d)
    PROVE  ReadsAs(f, d, v)
<1> DEFINE b == v[1] % 256
<1>1. v \in Seq(Int) /\ Len(v) = 1 /\ v[1] \in -128 .. 127  BY DEF Fit, Legal
<1>2. v = <<v[1]>>  BY <1>1, Single
<1>3. Serialized(f, v) = <<b>>  BY DEF Serialized
<1>4. TwosComplement(b, 8) = v[1]  BY <1>1, HalfReadsBack
<1> HIDE DEF b
<1>5. Stands(<<b>>, d, f.at)  BY <1>3 DEF Lies
<1>6. Len(d) >= f.at + 1 /\ d[f.at + 1] = b  BY <1>5, ByteStands
<1>7. Len(d) > f.at
    <2>1. Len(d) \in Nat  OBVIOUS
    <2>2. QED  BY <1>6, <2>1
<1>8. Parsed(f, d) = Optionally(f, d, TwosComplement(d[f.at + 1], 8))  BY DEF Parsed
<1>9. Parsed(f, d) = v  BY <1>2, <1>4, <1>6, <1>7, <1>8 DEF Optionally
<1>10. ParseError(f, d) = "none"
    <2>1. CASE f.kind = "half"  BY <2>1 DEF ParseError
    <2>2. CASE f.kind = "setHalf"
        <3>1. f.size = 1 /\ f.at + f.size <= Len(d)  BY <1>5, <2>2, ByteField1
        <3>2. f.size \in Nat  BY <3>1
        <3>3. QED  BY <2>2, <3>1, <3>2, Unfailing
    <2>3. QED  BY <2>1, <2>2
<1>11. QED  BY <1>9, <1>10 DEF ReadsAs

(* What follows the first bytes. *)
LEMMA TailOf ==
    ASSUME NEW v \in Seq(Int), NEW at \in Nat, NEW d \in Seq(Int),
           Len(d) = at + Len(v), \A j \in 1 .. Len(v) : d[at + j] = v[j]
    PROVE  SubSeq(d, at + 1, Len(d)) = v
<1> DEFINE m == at + 1
           n == Len(d)
           t == SubSeq(d, m, n)
           k == Len(v)
<1>1. m \in Int /\ n \in Int /\ k \in Nat /\ n - m + 1 = k
    <2>1. k \in Nat /\ n = at + k  OBVIOUS
    <2> HIDE DEF k, n
    <2>2. QED  BY <2>1
<1>2. \A i \in m .. n : d[i] \in Int
    <2>1. TAKE i \in m .. n
    <2>2. i \in 1 .. Len(d)  OBVIOUS
    <2>3. QED  BY <2>2, ElementOfSeq
<1>3. \A i \in 1 .. Len(v) : d[m + i - 1] = v[i]
    <2>1. TAKE i \in 1 .. Len(v)
    <2>2. m + i - 1 = at + i  OBVIOUS
    <2>3. QED  BY <2>2
<1> HIDE DEF m, n
<1>4. /\ t \in Seq(Int) /\ Len(t) = (IF m <= n THEN n - m + 1 ELSE 0)
      /\ \A i \in 1 .. n - m + 1 : t[i] = d[m + i - 1]
    BY <1>1, <1>2, SubSeqProperties
<1> HIDE DEF t
<1>5. Len(t) = Len(v)  BY <1>1, <1>4
<1>6. \A i \in 1 .. Len(v) : t[i] = v[i]  BY <1>1, <1>3, <1>4
<1>7. t = v  BY <1>4, <1>5, <1>6, SeqEqual
<1>8. QED  BY <1>7 DEF t, m, n

(* a byte that may be missing, and the rest of a body (RawTailField). *)
LEMMA VaryingReads ==
    ASSUME NEW f, f.kind \in {"optional", "tail"}, f.at \in Nat, NEW v, Fit(f, v),
           NEW d \in Seq(Int), d # <<>>, Lies(f, v, d)
    PROVE  ReadsAs(f, d, v)
<1>1. v \in Seq(Int) /\ Legal(f, v)  BY DEF Fit, Legal
<1>2. ParseError(f, d) = "none"  BY DEF ParseError
<1>3. Len(d) \in Nat  OBVIOUS
<1>4. CASE f.kind = "optional"
    <2>1. Len(v) <= 1 /\ (\A i \in DOMAIN v : v[i] \in Octet) /\ (v = <<>> => f.default = <<>>)
        BY <1>1, <1>4 DEF Legal
    <2>2. Parsed(f, d) = Optionally(f, d, d[f.at + 1])  BY <1>4 DEF Parsed
    <2>3. CASE v = <<>>
        <3>1. Serialized(f, v) = <<>> /\ f.default = <<>>  BY <1>4, <2>1, <2>3 DEF Serialized
        <3>2. Varies(f)  BY <1>4, <3>1 DEF Varies
        <3>3. Len(d) = f.at + Len(<<>>)  BY <3>1, <3>2 DEF Lies
        <3>4. ~ (Len(d) > f.at)  BY <1>3, <3>3
        <3>5. Parsed(f, d) = v  BY <2>2, <2>3, <3>1, <3>4 DEF Optionally
        <3>6. QED  BY <1>2, <3>5 DEF ReadsAs
    <2>4. CASE v # <<>>
        <3> DEFINE b == v[1] % 256
        <3>1. Len(v) = 1  BY <1>1, <2>1, <2>4, AtMostOne
        <3>2. v = <<v[1]>> /\ 1 \in DOMAIN v  BY <1>1, <3>1, Single
        <3>3. v[1] \in 0 .. 255  BY <2>1, <3>2 DEF Octet
        <3>4. b = v[1]
            <4>1. \A x \in 0 .. 255 : x % 256 = x  OBVIOUS
            <4>2. QED  BY <3>3, <4>1
        <3>5. Serialized(f, v) = <<b>>  BY <1>4, <2>4 DEF Serialized
        <3> HIDE DEF b
        <3>6. Len(d) >= f.at + 1 /\ d[f.at + 1] = b
            <4>1. Stands(<<b>>, d, f.at)  BY <3>5 DEF Lies
            <4>2. QED  BY <4>1, ByteStands
        <3>7. Len(d) > f.at  BY <1>3, <3>6
        <3>8. Parsed(f, d) = v  BY <2>2, <3>2, <3>4, <3>6, <3>7 DEF Optionally
        <3>9. QED  BY <1>2, <3>8 DEF ReadsAs
    <2>5. QED  BY <2>3, <2>4
<1>5. CASE f.kind = "tail"
    <2>1. Parsed(f, d) = SubSeq(d, f.at + 1, Len(d))  BY <1>5 DEF Parsed, Tail1
    <2>2. Serialized(f, v) = v /\ Varies(f)  BY <1>5 DEF Serialized, Varies
    <2>3. Len(d) = f.at + Len(v) /\ \A j \in 1 .. Len(v) : d[f.at + j] = v[j]
        BY <2>2 DEF Lies, Stands
    <2>4. Parsed(f, d) = v  BY <1>1, <2>1, <2>3, TailOf
    <2>5. QED  BY <1>2, <2>4 DEF ReadsAs
<1>6. QED  BY <1>4, <1>5

(* A field that is read and written is read as it was written. *)
Readable(f) == f.kind \notin {"plain", "text", "utf8"}

(* Every field that is read and written (message_fields.py) reads in a body the
   value it was written from: parse() undoes serialize(), for all values the
   field stands for and wherever it lies.                                   *)
THEOREM FieldsReadBack ==
    ASSUME NEW f, WellMade(f), Readable(f), f.at \in Nat, NEW v, Fit(f, v),
           NEW d \in Seq(Int), d # <<>>, Lies(f, v, d)
    PROVE  ReadsAs(f, d, v)
<1>1. CASE f.kind \in Numbers  BY <1>1, NumberReads DEF Fit
<1>2. CASE f.kind = "wide"  BY <1>2, WideReads DEF Fit
<1>3. CASE f.kind \in {"channels", "channel", "blinds"}  BY <1>3, ChannelsRead
<1>4. CASE f.kind \in {"index", "blind"}  BY <1>4, IndexReads
<1>5. CASE f.kind \in {"half", "setHalf"}  BY <1>5, HalfReads
<1>6. CASE f.kind \in {"optional", "tail"}  BY <1>6, VaryingReads
<1>7. QED  BY <1>1, <1>2, <1>3, <1>4, <1>5, <1>6, Kinds DEF Readable

-----------------------------------------------------------------------------
(* What a field reads it can also write. *)
LEMMA OctetsThere ==
    ASSUME NEW d \in Seq(Octet), NEW at \in Nat, NEW size \in 1 .. 3, at + size <= Len(d)
    PROVE  Number(d, at, size) \in Nat /\ Room(Number(d, at, size), size)
<1>1. \A i \in 1 .. Len(d) : d[i] \in 0 .. 255  BY ElementOfSeq DEF Octet
<1>2. Len(d) \in Nat  OBVIOUS
<1>3. size = 1 \/ size = 2 \/ size = 3  OBVIOUS
<1>4. CASE size = 1
    <2>1. at + 1 \in 1 .. Len(d)  BY <1>2, <1>4
    <2>2. d[at + 1] \in 0 .. 255  BY <1>1, <2>1
    <2>3. Number(d, at, size) = d[at + 1]  BY <1>4 DEF Number
    <2> DEFINE n == Number(d, at, size)
           x == d[at + 1]
    <2>4. x \in 0 .. 255  BY <2>2
    <2>5. n = x  BY SMT, <2>3
    <2> HIDE DEF n, x
    <2>6. n \in Nat /\ n < 256  BY SMT, <2>4, <2>5
    <2>7. n \in Nat /\ Room(n, size)  BY SMT, <1>4, <2>6 DEF Room
    <2>8. QED  BY <2>7 DEF n
<1>5. CASE size = 2
    <2>1. at + 1 \in 1 .. Len(d) /\ at + 2 \in 1 .. Len(d)  BY <1>2, <1>5
    <2>2. d[at + 1] \in 0 .. 255 /\ d[at + 2] \in 0 .. 255  BY <1>1, <2>1
    <2>3. Number(d, at, size) = 256 * d[at + 1] + d[at + 2]  BY <1>5 DEF Number
    <2> DEFINE n == Number(d, at, size)
           x == d[at + 1]
           y == d[at + 2]
    <2>4. x \in 0 .. 255 /\ y \in 0 .. 255  BY <2>2
    <2>5. n = 256 * x + y  BY SMT, <2>3
    <2> HIDE DEF n, x, y
    <2>6. n \in Nat /\ n < 65536  BY SMT, <2>4, <2>5
    <2>7. n \in Nat /\ Room(n, size)  BY SMT, <1>5, <2>6 DEF Room
    <2>8. QED  BY <2>7 DEF n
<1>6. CASE size = 3
    <2>1. at + 1 \in 1 .. Len(d) /\ at + 2 \in 1 .. Len(d) /\ at + 3 \in 1 .. Len(d)  BY <1>2, <1>6
    <2>2. d[at + 1] \in 0 .. 255 /\ d[at + 2] \in 0 .. 255 /\ d[at + 3] \in 0 .. 255  BY <1>1, <2>1
    <2>3. Number(d, at, size) = 65536 * d[at + 1] + 256 * d[at + 2] + d[at + 3]
        BY SMT, <1>6 DEF Number
    <2> DEFINE n == Number(d, at, size)
           x == d[at + 1]
           y == d[at + 2]
           z == d[at + 3]
    <2>4. x \in 0 .. 255 /\ y \in 0 .. 255 /\ z \in 0 .. 255  BY <2>2
    <2>5. n = 65536 * x + 256 * y + z  BY SMT, <2>3
    <2> HIDE DEF n, x, y, z
    <2>6. n \in Nat /\ n < 16777216  BY SMT, <2>4, <2>5
    <2>7. n \in Nat /\ Room(n, size)  BY SMT, <1>6, <2>6 DEF Room
    <2>8. QED  BY <2>7 DEF n
<1>7. QED  BY <1>3, <1>4, <1>5, <1>6

(* Some bits of a number are below the power of their width. *)
LEMMA BitsBelow ==
    ASSUME NEW n \in Nat, NEW lo \in 0 .. 7, NEW w \in 0 .. 7
    PROVE  BitsOf(n, lo, w) \in Nat /\ Below(BitsOf(n, lo, w), w)
<1> DEFINE p == 2^lo
           q == 2^w
<1>1. \A k \in 0 .. 7 : 2^k \in {1, 2, 4, 8, 16, 32, 64, 128}  BY SmallPower, ZenonT(30)
<1>2. p \in {1, 2, 4, 8, 16, 32, 64, 128} /\ q \in {1, 2, 4, 8, 16, 32, 64, 128}
    <2> DEFINE few == {1, 2, 4, 8, 16, 32, 64, 128}
    <2>1. \A k \in 0 .. 7 : 2^k \in few  BY <1>1
    <2> HIDE DEF few
    <2>2. p \in few /\ q \in few  BY <2>1
    <2>3. QED  BY <2>2 DEF few
<1>3. BitsOf(n, lo, w) = (n \div p) % q  BY DEF BitsOf
<1> HIDE DEF p, q
<1>4. n \div p \in Nat  BY <1>2
<1>5. (n \div p) % q \in Nat /\ (n \div p) % q < q  BY <1>2, <1>4
<1>6. QED  BY <1>3, <1>5 DEF Below, q

(* What a number reads in any body it does not fail on it can write: no bit is
   read that would not be written.                                          *)
LEMMA NumberFits ==
    ASSUME NEW f, f.kind \in Numbers, WellMade(f), f.at \in Nat, NEW d \in Seq(Octet), d # <<>>,
           ParseError(f, d) = "none"
    PROVE  Fit(f, Parsed(f, d))
<1> DEFINE n == Number(d, f.at, f.size)
           x == BitsOf(n, f.lo, f.width)
<1>1. f.size \in 1 .. 3  BY NumberField DEF IsWhole, IsBits
<1>2. f.at + f.size <= Len(d)
    <2>1. ~ (Len(d) < f.at + f.size)  BY DEF ParseError, Numbers
    <2>2. Len(d) \in Nat  OBVIOUS
    <2>3. f.size \in Nat  BY <1>1
    <2>4. QED  BY <2>1, <2>2, <2>3
<1>3. n \in Nat /\ Room(n, f.size)  BY <1>1, <1>2, OctetsThere
<1> HIDE DEF n
<1>4. x \in Nat /\ Below(x, f.width)
    <2>1. CASE IsWhole(f)
        <3>1. f.lo = 0 /\ f.width = 8 * f.size  BY <2>1 DEF IsWhole
        <3>2. x = n  BY <1>1, <1>3, <3>1, WholeBits
        <3>3. Below(n, f.width)  BY <1>1, <1>3, <3>1, BelowRoom
        <3>4. QED  BY <1>3, <3>2, <3>3
    <2>2. CASE IsBits(f)
        <3>1. f.width \in 1 .. 7 /\ f.lo \in 0 .. 8 - f.width  BY <2>2 DEF IsBits
        <3>2. f.width \in 0 .. 7 /\ f.lo \in 0 .. 7
            <4>1. \A w \in 1 .. 7 : w \in 0 .. 7 /\ \A l \in 0 .. 8 - w : l \in 0 .. 7  OBVIOUS
            <4>2. QED  BY <3>1, <4>1
        <3>3. QED  BY <1>3, <3>2, BitsBelow
    <2>3. QED  BY <2>1, <2>2, NumberField
<1>5. f.offset = 0 /\ f.scale = 1  BY NumberField
<1>6. Parsed(f, d) = <<x>>
    <2>1. x \in Int  BY <1>4
    <2>2. BitsOf(Number(d, f.at, f.size), f.lo, f.width) = x  BY DEF n
    <2> HIDE DEF x
    <2>3. QED  BY <1>5, <2>1, <2>2, NumberParsed
<1> HIDE DEF x
<1>7. Legal(f, <<x>>)  BY <1>4, NumberValue
<1>8. Encodable(f, <<x>>)
    <2>1. <<x>>[1] = x /\ <<x>> # <<>> /\ x >= 0  BY <1>4
    <2>2. CASE IsWhole(f)
        <3>1. Below(x, 8 * f.size)  BY <1>4, <2>2 DEF IsWhole
        <3>2. x < 2^(8 * f.size)  BY <3>1, Zenon DEF Below
        <3>3. x >= -(2^16)
            <4>1. 2^16 \in Nat  BY SMT, Powers
            <4>2. QED  BY <1>4, <4>1
        <3>4. QED  BY Zenon, <2>1, <3>2, <3>3 DEF Encodable, Numbers
    <2>3. CASE IsBits(f)
        <3>1. f.kind = "number" /\ f.width < 8 * f.size  BY <2>3 DEF IsBits
        <3>2. QED  BY <2>1, <3>1 DEF Encodable
    <2>4. QED  BY <2>2, <2>3, NumberField
<1>9. QED  BY <1>6, <1>7, <1>8 DEF Fit

(* The bytes of a body are numbers from 0 to 255. *)
LEMMA OctetsAreNumbers ==
    ASSUME NEW d \in Seq(Octet)
    PROVE  d \in Seq(Int) /\ \A i \in 1 .. Len(d) : d[i] \in 0 .. 255
<1>1. Octet \subseteq Int  BY DEF Octet
<1>2. d \in Seq(Int)
    <2>1. PICK n \in Nat : d \in [1 .. n -> Octet]  BY SeqDef
    <2>2. d \in [1 .. n -> Int]  BY <1>1, <2>1
    <2>3. QED  BY <2>2, SeqDef
<1>3. \A i \in 1 .. Len(d) : d[i] \in 0 .. 255  BY ElementOfSeq DEF Octet
<1>4. QED  BY <1>2, <1>3

(* The byte a field of one byte finds. *)
LEMMA ByteThere ==
    ASSUME NEW f, f.kind \in {"channels", "channel", "index", "blind", "blinds", "setHalf"}, WellMade(f),
           f.at \in Nat, NEW d \in Seq(Octet), d # <<>>, ParseError(f, d) = "none"
    PROVE  /\ f.size = 1 /\ Len(d) > f.at /\ d[f.at + 1] \in 0 .. 255
           /\ Number(d, f.at, f.size) = d[f.at + 1]
<1>1. f.size = 1  BY DEF WellMade, Numbers
<1>2. ~ (Len(d) < f.at + f.size)  BY DEF ParseError
<1>3. Len(d) \in Nat  OBVIOUS
<1>4. Len(d) > f.at /\ f.at + 1 \in 1 .. Len(d)  BY <1>1, <1>2, <1>3
<1>5. d[f.at + 1] \in 0 .. 255  BY <1>4, OctetsAreNumbers
<1>6. Number(d, f.at, f.size) = d[f.at + 1]  BY <1>1 DEF Number
<1>7. QED  BY <1>1, <1>4, <1>5, <1>6

(* The same of a number of 32 bits, *)
LEMMA WideFits ==
    ASSUME NEW f, f.kind = "wide", WellMade(f), f.at \in Nat, NEW d \in Seq(Octet), d # <<>>,
           ParseError(f, d) = "none"
    PROVE  Fit(f, Parsed(f, d))
<1> DEFINE m == Number(d, f.at, 2)
           n == Number(d, f.at + 2, 2)
<1>1. f.size = 4  BY DEF WellMade, Numbers
<1>2. ~ (Len(d) < f.at + f.size)  BY DEF ParseError
<1>3. Len(d) \in Nat  OBVIOUS
<1>4. f.at + 2 <= Len(d) /\ (f.at + 2) + 2 <= Len(d)  BY <1>1, <1>2, <1>3
<1>5. 2 \in 1 .. 3 /\ f.at + 2 \in Nat  OBVIOUS
<1>6. m \in Nat /\ Room(m, 2)  BY <1>4, <1>5, OctetsThere
<1>7. n \in Nat /\ Room(n, 2)  BY <1>4, <1>5, OctetsThere
<1>8. Parsed(f, d) = <<m, n>>  BY DEF Parsed
<1> HIDE DEF m, n
<1>9. m < 2^16 /\ n < 2^16 /\ m >= 0 /\ n >= 0  BY SMT, <1>6, <1>7, Powers DEF Room
<1>10. <<m, n>> \in Seq(Int) /\ Len(<<m, n>>) = 2 /\ <<m, n>>[1] = m /\ <<m, n>>[2] = n
    BY <1>6, <1>7
<1>11. \A i \in 1 .. 2 : <<m, n>>[i] >= 0 /\ <<m, n>>[i] < 2^16
    <2>1. \A i \in 1 .. 2 : i = 1 \/ i = 2  OBVIOUS
    <2>2. QED  BY Zenon, <1>9, <1>10, <2>1
<1>12. Legal(f, <<m, n>>)  BY Zenon, <1>10, <1>11 DEF Legal
<1>13. Encodable(f, <<m, n>>)  BY DEF Encodable
<1>14. QED  BY <1>8, <1>12, <1>13 DEF Fit

(* of channels, where exactly one is asked for a field that has just one, *)
LEMMA ChannelsFit ==
    ASSUME NEW f, f.kind \in {"channels", "channel", "blinds"}, WellMade(f), f.at \in Nat,
           NEW d \in Seq(Octet), d # <<>>, ParseError(f, d) = "none"
    PROVE  Fit(f, Parsed(f, d))
<1> DEFINE b == d[f.at + 1]
<1>1. Number(d, f.at, f.size) = b /\ f.size = 1 /\ b \in 0 .. 255  BY ByteThere
<1> HIDE DEF b
<1>2. \A n : ChannelsIn(n) \in SUBSET (1 .. 8)  BY DEF ChannelsIn
<1>3. CASE f.kind = "channels"
    <2>1. Parsed(f, d) = Ascending(ChannelsIn(b))  BY <1>1, <1>3 DEF Parsed
    <2>2. Ascending(ChannelsIn(b)) \in Seq(Int)  BY <1>2, ChannelsOf
    <2>3. Legal(f, Ascending(ChannelsIn(b)))  BY <1>2, <1>3, <2>2 DEF Legal
    <2>4. Encodable(f, Ascending(ChannelsIn(b)))  BY <1>3 DEF Encodable
    <2>5. QED  BY <2>1, <2>3, <2>4 DEF Fit
<1>4. CASE f.kind = "channel"
    <2>1. Parsed(f, d) = Ascending(ChannelsIn(b))  BY <1>1, <1>4 DEF Parsed
    <2>2. ~ (Len(d) < f.at + f.size)
        <3>1. Len(d) > f.at  BY <1>4, ByteThere
        <3>2. Len(d) \in Nat  OBVIOUS
        <3>3. QED  BY <1>1, <3>1, <3>2
    <2>3. Cardinality(ChannelsIn(b)) = 1  BY <1>4, <2>2 DEF ParseError, b
    <2>4. IsFiniteSet(ChannelsIn(b))
        <3>1. 1 \in Int /\ 8 \in Int  OBVIOUS
        <3>2. IsFiniteSet(1 .. 8)  BY <3>1, FS_Interval, Zenon
        <3>3. QED  BY <1>2, <3>2, FS_Subset
    <2>5. PICK c : ChannelsIn(b) = {c}  BY <2>3, <2>4, FS_Singleton
    <2>6. c \in 1 .. 8  BY <1>2, <2>5
    <2>7. Ascending({c}) \in Seq(Int) /\ Ascending({c})[1] = c  BY <2>6, ChannelOf
    <2>8. Legal(f, Ascending({c}))  BY <1>4, <2>6, <2>7 DEF Legal
    <2>9. Encodable(f, Ascending({c}))
        <3>1. Ascending({c}) # <<>>
            <4>1. ToSet(<<>>) = {}  BY DEF ToSet
            <4>2. {c} \in SUBSET (1 .. 8)  BY <2>6
            <4>3. ToSet(Ascending({c})) = {c}  BY <4>2, ChannelsOf
            <4>4. QED  BY <4>1, <4>3
        <3>2. c <= 8  BY <2>6
        <3>3. Ascending({c})[1] <= 8  BY <2>7, <3>2
        <3>4. QED  BY <1>4, <3>1, <3>3 DEF Encodable
    <2>10. QED  BY <2>1, <2>5, <2>8, <2>9 DEF Fit
<1>5. CASE f.kind = "blinds"
    <2> DEFINE m == BitsOf(b, 1, 2)
    <2>1. Parsed(f, d) = Ascending(ChannelsIn(m))  BY <1>1, <1>5 DEF Parsed
    <2>2. ChannelsIn(m) \in SUBSET {1, 2}
        <3>1. m = (b \div 2) % 4  BY Powers DEF BitsOf
        <3> HIDE DEF m
        <3>2. m \in 0 .. 3  BY <1>1, <3>1
        <3>3. ASSUME NEW S \in SUBSET {1, 2}, Mask(S) = m PROVE ChannelsIn(m) \in SUBSET {1, 2}
            <4>1. S \in SUBSET (1 .. 8)  OBVIOUS
            <4>2. ChannelsIn(Mask(S)) = S  BY <4>1, MaskReadsBack
            <4>3. QED  BY <3>3, <4>2
        <3>4. 2^(1 - 1) = 1 /\ 2^(2 - 1) = 2  BY Powers
        <3>5. Mask({}) = 0  BY SMT DEF Mask
        <3>6. Mask({1}) = 1  BY SMT, <3>4 DEF Mask
        <3>7. Mask({2}) = 2  BY SMT, <3>4 DEF Mask
        <3>8. Mask({1, 2}) = 3  BY SMT, <3>4 DEF Mask
        <3>9. m = 0 \/ m = 1 \/ m = 2 \/ m = 3  BY <3>2
        <3>10. QED  BY <3>3, <3>5, <3>6, <3>7, <3>8, <3>9
    <2> HIDE DEF m
    <2>3. Ascending(ChannelsIn(m)) \in Seq(Int)  BY <1>2, ChannelsOf
    <2>4. Legal(f, Ascending(ChannelsIn(m)))  BY <1>5, <2>2, <2>3 DEF Legal
    <2>5. Encodable(f, Ascending(ChannelsIn(m)))  BY <1>5 DEF Encodable
    <2>6. QED  BY <2>1, <2>4, <2>5 DEF Fit
<1>6. QED  BY <1>3, <1>4, <1>5

(* of an index and a blind, *)
LEMMA IndexFits ==
    ASSUME NEW f, f.kind \in {"index", "blind"}, WellMade(f), f.at \in Nat,
           NEW d \in Seq(Octet), d # <<>>, ParseError(f, d) = "none"
    PROVE  Fit(f, Parsed(f, d))
<1> DEFINE b == d[f.at + 1]
<1>1. Number(d, f.at, f.size) = b /\ f.size = 1 /\ b \in 0 .. 255  BY ByteThere
<1> HIDE DEF b
<1>2. <<b>> \in Seq(Int) /\ Len(<<b>>) = 1 /\ <<b>>[1] = b /\ DOMAIN <<b>> = {1}  BY <1>1
<1>3. CASE f.kind = "index" /\ b = 0
    <2>1. Parsed(f, d) = <<>>  BY <1>1, <1>3 DEF Parsed
    <2>2. <<>> \in Seq(Int) /\ Len(<<>>) <= 1 /\ DOMAIN <<>> = {}  OBVIOUS
    <2>3. Legal(f, <<>>)  BY <1>3, <2>2 DEF Legal
    <2>4. Encodable(f, <<>>)  BY <1>3 DEF Encodable
    <2>5. QED  BY <2>1, <2>3, <2>4 DEF Fit
<1>4. CASE f.kind = "index" /\ b # 0
    <2>1. Parsed(f, d) = <<b>>  BY <1>1, <1>4 DEF Parsed
    <2>2. b \in 1 .. 255 /\ Len(<<b>>) <= 1  BY <1>1, <1>2, <1>4
    <2>3. \A i \in DOMAIN <<b>> : <<b>>[i] \in 1 .. 255  BY <1>2, <2>2, Zenon
    <2>4. Legal(f, <<b>>)  BY <1>2, <1>4, <2>2, <2>3, Zenon DEF Legal
    <2>5. Encodable(f, <<b>>)  BY <1>1, <1>2, <1>4 DEF Encodable, Octet
    <2>6. QED  BY <2>1, <2>4, <2>5 DEF Fit
<1>5. CASE f.kind = "blind"
    <2> DEFINE x == BlindIn(b)
    <2>1. Parsed(f, d) = <<x>>  BY <1>1, <1>5 DEF Parsed
    <2>2. x \in {1, 2}  BY DEF BlindIn
    <2> HIDE DEF x
    <2>3. <<x>> \in Seq(Int) /\ Len(<<x>>) = 1 /\ <<x>>[1] = x  BY <2>2
    <2>4. Legal(f, <<x>>)  BY <1>5, <2>2, <2>3, Zenon DEF Legal
    <2>5. Encodable(f, <<x>>)  BY <1>5 DEF Encodable
    <2>6. QED  BY <2>1, <2>4, <2>5 DEF Fit
<1>6. QED  BY <1>3, <1>4, <1>5

(* of half degrees, whose byte may be missing, *)
LEMMA HalfFits ==
    ASSUME NEW f, f.kind \in {"half", "setHalf"}, WellMade(f), f.at \in Nat,
           NEW d \in Seq(Octet), d # <<>>, ParseError(f, d) = "none"
    PROVE  Fit(f, Parsed(f, d))
<1> DEFINE x == TwosComplement(d[f.at + 1], 8)
<1>1. Len(d) \in Nat  OBVIOUS
<1>2. Parsed(f, d) = Optionally(f, d, x)  BY DEF Parsed
<1>3. CASE Len(d) > f.at
    <2>1. f.at + 1 \in 1 .. Len(d)  BY <1>1, <1>3
    <2>2. d[f.at + 1] \in 0 .. 255  BY <2>1, OctetsAreNumbers
    <2>3. 2^(8 - 1) = 128 /\ 2^8 = 256  BY Powers
    <2>4. x \in -128 .. 127
        <3>1. x = IF d[f.at + 1] >= 128 THEN d[f.at + 1] - 256 ELSE d[f.at + 1]
            BY <2>3 DEF TwosComplement
        <3> DEFINE y == d[f.at + 1]
        <3>2. y \in 0 .. 255 /\ x = IF y >= 128 THEN y - 256 ELSE y  BY <2>2, <3>1
        <3> HIDE DEF x, y
        <3>3. QED  BY <3>2
    <2>5. Parsed(f, d) = <<x>>  BY <1>2, <1>3 DEF Optionally
    <2> HIDE DEF x
    <2>6. <<x>> \in Seq(Int) /\ Len(<<x>>) = 1 /\ <<x>>[1] = x  BY <2>4
    <2>7. <<x>>[1] \in -128 .. 127  BY <2>4, <2>6
    <2>8. Legal(f, <<x>>)  BY <2>6, <2>7, Zenon DEF Legal
    <2>9. Encodable(f, <<x>>)  BY DEF Encodable
    <2>10. QED  BY <2>5, <2>8, <2>9 DEF Fit
<1>4. CASE ~ (Len(d) > f.at)
    <2>1. Parsed(f, d) = f.default  BY <1>2, <1>4 DEF Optionally
    <2>2. f.kind = "half"
        <3>1. f.kind # "setHalf"  BY <1>4, ByteThere
        <3>2. QED  BY <3>1
    <2>3. Legal(f, f.default)  BY <2>2 DEF WellMade, Numbers
    <2>4. Encodable(f, f.default)  BY <2>2 DEF Encodable
    <2>5. QED  BY <2>1, <2>3, <2>4 DEF Fit
<1>5. QED  BY <1>3, <1>4

(* of a byte that may be missing, *)
LEMMA OptionalFits ==
    ASSUME NEW f, f.kind = "optional", WellMade(f), f.at \in Nat, NEW d \in Seq(Octet), d # <<>>
    PROVE  Fit(f, Parsed(f, d))
<1> DEFINE x == d[f.at + 1]
<1>1. Len(d) \in Nat  OBVIOUS
<1>2. Parsed(f, d) = Optionally(f, d, x)  BY DEF Parsed
<1>3. CASE Len(d) > f.at
    <2>1. f.at + 1 \in 1 .. Len(d)  BY <1>1, <1>3
    <2>2. x \in Octet  BY <2>1, OctetsAreNumbers DEF Octet
    <2>3. Parsed(f, d) = <<x>>  BY <1>2, <1>3 DEF Optionally
    <2> HIDE DEF x
    <2>4. x \in Int  BY <2>2 DEF Octet
    <2>5. <<x>> \in Seq(Int) /\ Len(<<x>>) <= 1 /\ <<x>>[1] = x /\ DOMAIN <<x>> = {1} /\ <<x>> # <<>>
        BY <2>4
    <2>6. \A i \in DOMAIN <<x>> : <<x>>[i] \in Octet  BY <2>2, <2>5, Zenon
    <2>7. Legal(f, <<x>>)  BY <2>5, <2>6, Zenon DEF Legal
    <2>8. Encodable(f, <<x>>)  BY DEF Encodable
    <2>9. QED  BY <2>3, <2>7, <2>8 DEF Fit
<1>4. CASE ~ (Len(d) > f.at)
    <2>1. Parsed(f, d) = f.default  BY <1>2, <1>4 DEF Optionally
    <2>2. Legal(f, f.default)  BY DEF WellMade, Numbers
    <2>3. Encodable(f, f.default)  BY DEF Encodable
    <2>4. QED  BY <2>1, <2>2, <2>3 DEF Fit
<1>5. QED  BY <1>3, <1>4

(* and of the rest of a body, which is as long as the body leaves it. *)
LEMMA TailFits ==
    ASSUME NEW f, f.kind = "tail", f.at \in 0 .. 7, NEW d \in Seq(Octet), Len(d) <= 7
    PROVE  Fit(f, Parsed(f, d)) /\ (f.at < Len(d) => Len(Parsed(f, d)) = Len(d) - f.at)
<1> DEFINE m == f.at + 1
           n == Len(d)
           t == SubSeq(d, m, n)
<1>1. m \in 1 .. 8 /\ n \in 0 .. 7
    <2>1. n \in 0 .. 7
        <3>1. n \in Nat /\ n <= 7  OBVIOUS
        <3> HIDE DEF n
        <3>2. QED  BY <3>1
    <2>2. m \in 1 .. 8  OBVIOUS
    <2>3. QED  BY <2>1, <2>2
<1>2. Parsed(f, d) = t  BY DEF Parsed, Tail1
<1>3. \A i \in m .. n : d[i] \in Octet
    <2>1. TAKE i \in m .. n
    <2>2. i \in 1 .. Len(d)  BY <1>1
    <2>3. QED  BY <2>2, ElementOfSeq
<1> HIDE DEF m, n
<1>4. m \in Int /\ n \in Int  BY <1>1
<1>5. t \in Seq(Octet) /\ Len(t) = (IF m <= n THEN n - m + 1 ELSE 0)  BY <1>3, <1>4, SubSeqProperties
<1> HIDE DEF t
<1>6. f.at = m - 1  BY DEF m
<1>7. Len(t) <= 7 - f.at  BY <1>1, <1>5, <1>6
<1>8. t \in Seq(Int)  BY <1>5, OctetsAreNumbers
<1>9. \A i \in DOMAIN t : t[i] \in Octet  BY <1>5
<1>10. Legal(f, t)  BY <1>7, <1>8, <1>9, Zenon DEF Legal
<1>11. ToSet(t) \subseteq Octet  BY <1>9 DEF ToSet
<1>12. Encodable(f, t)  BY <1>11, Zenon DEF Encodable
<1>13. ASSUME f.at < Len(d) PROVE Len(t) = Len(d) - f.at
    <2>1. f.at < n  BY <1>13 DEF n
    <2>2. Len(t) = n - f.at  BY <1>1, <1>5, <1>6, <2>1
    <2>3. QED  BY <2>2 DEF n
<1>14. QED  BY <1>2, <1>10, <1>12, <1>13 DEF Fit

(* A field of an accepted body reads a value it can write. *)
LEMMA FieldsFit ==
    ASSUME NEW f, WellMade(f), Readable(f), f.at \in 0 .. 7, NEW d \in Seq(Octet), d # <<>>, Len(d) <= 7,
           ParseError(f, d) = "none"
    PROVE  Fit(f, Parsed(f, d))
<1>1. f.at \in Nat  OBVIOUS
<1>2. CASE f.kind \in Numbers  BY <1>1, <1>2, NumberFits
<1>3. CASE f.kind = "wide"  BY <1>1, <1>3, WideFits
<1>4. CASE f.kind \in {"channels", "channel", "blinds"}  BY <1>1, <1>4, ChannelsFit
<1>5. CASE f.kind \in {"index", "blind"}  BY <1>1, <1>5, IndexFits
<1>6. CASE f.kind \in {"half", "setHalf"}  BY <1>1, <1>6, HalfFits
<1>7. CASE f.kind = "optional"  BY <1>1, <1>7, OptionalFits
<1>8. CASE f.kind = "tail"  BY <1>8, TailFits
<1>9. QED  BY <1>2, <1>3, <1>4, <1>5, <1>6, <1>7, <1>8, Kinds DEF Readable

(* parse(), kind by kind. *)
LEMMA ParsedAs ==
    ASSUME NEW f, NEW d
    PROVE  /\ f.kind \in Numbers =>
                 Parsed(f, d) = <<f.offset + f.scale * BitsOf(Number(d, f.at, f.size), f.lo, f.width)>>
           /\ f.kind = "wide" => Parsed(f, d) = <<Number(d, f.at, 2), Number(d, f.at + 2, 2)>>
           /\ f.kind \in {"channels", "channel"} =>
                 Parsed(f, d) = Ascending(ChannelsIn(Number(d, f.at, f.size)))
           /\ f.kind = "blinds" =>
                 Parsed(f, d) = Ascending(ChannelsIn(BitsOf(Number(d, f.at, f.size), 1, 2)))
           /\ f.kind = "index" =>
                 Parsed(f, d) = IF Number(d, f.at, f.size) = 0 THEN <<>> ELSE <<Number(d, f.at, f.size)>>
           /\ f.kind = "blind" => Parsed(f, d) = <<BlindIn(Number(d, f.at, f.size))>>
           /\ f.kind \in {"half", "setHalf"} =>
                 Parsed(f, d) = Optionally(f, d, TwosComplement(d[f.at + 1], 8))
           /\ f.kind = "optional" => Parsed(f, d) = Optionally(f, d, d[f.at + 1])
           /\ f.kind = "tail" => Parsed(f, d) = Tail1(f, d)
<1>1. CASE f.kind \in Numbers  BY <1>1 DEF Parsed, Numbers
<1>2. CASE f.kind = "wide"  BY <1>2 DEF Parsed, Numbers
<1>3. CASE f.kind \in {"channels", "channel"}  BY <1>3 DEF Parsed, Numbers
<1>4. CASE f.kind = "blinds"  BY <1>4 DEF Parsed, Numbers
<1>5. CASE f.kind = "index"  BY <1>5 DEF Parsed, Numbers
<1>6. CASE f.kind = "blind"  BY <1>6 DEF Parsed, Numbers
<1>7. CASE f.kind \in {"half", "setHalf"}  BY <1>7 DEF Parsed, Numbers
<1>8. CASE f.kind = "optional"  BY <1>8 DEF Parsed, Numbers
<1>9. CASE f.kind = "tail"  BY <1>9 DEF Parsed, Numbers
<1>10. QED  BY <1>1, <1>2, <1>3, <1>4, <1>5, <1>6, <1>7, <1>8, <1>9

(* Two declarations of a field read the same. *)
LEMMA SameReads ==
    ASSUME NEW f, NEW g, SameField(f, g), WellMade(g), Readable(g), NEW d
    PROVE  Parsed(f, d) = Parsed(g, d) /\ ParseError(f, d) = ParseError(g, d)
<1>1. /\ f.kind = g.kind /\ f.at = g.at /\ f.size = g.size /\ f.lo = g.lo /\ f.width = g.width
      /\ f.offset = g.offset /\ f.scale = g.scale
      /\ (f.kind \in {"half", "setHalf", "optional"} => f.default = g.default)
    BY DEF SameField
<1>2. ParseError(f, d) = ParseError(g, d)  BY <1>1 DEF ParseError
<1>3. CASE g.kind \in Numbers
    <2>1. f.kind \in Numbers  BY <1>1, <1>3
    <2>2. /\ Parsed(f, d) = <<f.offset + f.scale * BitsOf(Number(d, f.at, f.size), f.lo, f.width)>>
          /\ Parsed(g, d) = <<g.offset + g.scale * BitsOf(Number(d, g.at, g.size), g.lo, g.width)>>
        BY <1>3, <2>1, ParsedAs
    <2>3. QED  BY <1>1, <1>2, <2>2
<1>4. CASE g.kind = "wide"
    <2>1. /\ Parsed(f, d) = <<Number(d, f.at, 2), Number(d, f.at + 2, 2)>>
          /\ Parsed(g, d) = <<Number(d, g.at, 2), Number(d, g.at + 2, 2)>>
        BY <1>1, <1>4, ParsedAs
    <2>2. QED  BY <1>1, <1>2, <2>1
<1>5. CASE g.kind \in {"channels", "channel"}
    <2>1. f.kind \in {"channels", "channel"}  BY <1>1, <1>5
    <2>2. /\ Parsed(f, d) = Ascending(ChannelsIn(Number(d, f.at, f.size)))
          /\ Parsed(g, d) = Ascending(ChannelsIn(Number(d, g.at, g.size)))
        BY <1>5, <2>1, ParsedAs
    <2>3. QED  BY <1>1, <1>2, <2>2
<1>6. CASE g.kind = "blinds"
    <2>1. /\ Parsed(f, d) = Ascending(ChannelsIn(BitsOf(Number(d, f.at, f.size), 1, 2)))
          /\ Parsed(g, d) = Ascending(ChannelsIn(BitsOf(Number(d, g.at, g.size), 1, 2)))
        BY <1>1, <1>6, ParsedAs
    <2>2. QED  BY <1>1, <1>2, <2>1
<1>7. CASE g.kind = "index"
    <2>1. /\ Parsed(f, d) = IF Number(d, f.at, f.size) = 0 THEN <<>> ELSE <<Number(d, f.at, f.size)>>
          /\ Parsed(g, d) = IF Number(d, g.at, g.size) = 0 THEN <<>> ELSE <<Number(d, g.at, g.size)>>
        BY <1>1, <1>7, ParsedAs
    <2>2. QED  BY <1>1, <1>2, <2>1
<1>8. CASE g.kind = "blind"
    <2>1. /\ Parsed(f, d) = <<BlindIn(Number(d, f.at, f.size))>>
          /\ Parsed(g, d) = <<BlindIn(Number(d, g.at, g.size))>>
        BY <1>1, <1>8, ParsedAs
    <2>2. QED  BY <1>1, <1>2, <2>1
<1>9. CASE g.kind \in {"half", "setHalf"}
    <2>1. f.kind \in {"half", "setHalf"} /\ f.default = g.default  BY <1>1, <1>9
    <2>2. /\ Parsed(f, d) = Optionally(f, d, TwosComplement(d[f.at + 1], 8))
          /\ Parsed(g, d) = Optionally(g, d, TwosComplement(d[g.at + 1], 8))
        BY <1>9, <2>1, ParsedAs
    <2>3. QED  BY <1>1, <1>2, <2>1, <2>2 DEF Optionally
<1>10. CASE g.kind = "optional"
    <2>1. /\ Parsed(f, d) = Optionally(f, d, d[f.at + 1])
          /\ Parsed(g, d) = Optionally(g, d, d[g.at + 1])
        BY <1>1, <1>10, ParsedAs
    <2>2. QED  BY <1>1, <1>2, <1>10, <2>1 DEF Optionally
<1>11. CASE g.kind = "tail"
    <2>1. Parsed(f, d) = Tail1(f, d) /\ Parsed(g, d) = Tail1(g, d)  BY <1>1, <1>11, ParsedAs
    <2>2. QED  BY <1>1, <1>2, <2>1 DEF Tail1
<1>12. QED
    BY <1>2, <1>3, <1>4, <1>5, <1>6, <1>7, <1>8, <1>9, <1>10, <1>11, Kinds DEF Readable

-----------------------------------------------------------------------------
(* The body of a message: its fields one after the other. *)
Bytes(w, a) == FlattenSeq([i \in DOMAIN w |-> Serialized(w[i], Attribute(w[i], a))])

LaidOut(w, a, d) ==
    /\ d \in Seq(Int)
    /\ w = <<>> => d = <<>>
    /\ w # <<>> => Len(d) = w[Len(w)].at + Len(Serialized(w[Len(w)], Attribute(w[Len(w)], a)))
    /\ \A i \in DOMAIN w : Lies(w[i], Attribute(w[i], a), d)

AllFit(w, a) == \A i \in DOMAIN w : Fit(w[i], Attribute(w[i], a))

(* Every field takes between one and four bytes, or is as long as its value. *)
LEMMA SpanPositive ==
    ASSUME NEW f, WellMade(f)
    PROVE  Span(f) \in 1 .. 4
<1>1. CASE f.kind \in Numbers
    <2>1. f.size \in 1 .. 3  BY <1>1, NumberField DEF IsWhole, IsBits
    <2>2. Span(f) = f.size \/ Span(f) = 1  BY <1>1 DEF Span, Numbers
    <2>3. f.size \in 1 .. 4  BY <2>1
    <2>4. QED  BY <2>2, <2>3
<1>2. CASE f.kind \notin Numbers  BY <1>2 DEF Span, Numbers
<1>3. QED  BY <1>1, <1>2

(* What a class writes is a finite list of fields. *)
LEMMA InLineDomain ==
    ASSUME NEW w, InLine(w)
    PROVE  Len(w) \in Nat /\ DOMAIN w = 1 .. Len(w) /\ (w # <<>> => Len(w) # 0)
<1>1. w \in Seq(ToSet(w))  BY Zenon DEF InLine
<1>2. Len(w) \in Nat /\ DOMAIN w = 1 .. Len(w)  BY <1>1, LenProperties
<1>3. w # <<>> => Len(w) # 0  BY <1>1, EmptySeq
<1>4. QED  BY <1>2, <1>3

(* In the body a class writes every field lies where it is read: _make_data_to_binary()
   appends one field after the other, and the layouts have no gap between them. *)
LEMMA Placed ==
    ASSUME NEW w, InLine(w), NEW a, AllFit(w, a)
    PROVE  LaidOut(w, a, Bytes(w, a))
<1> DEFINE n == Len(w)
           s == [i \in DOMAIN w |-> Serialized(w[i], Attribute(w[i], a))]
           st == [i \in 1 .. n |-> w[i].at]
           d == Bytes(w, a)
<1>1. n \in Nat /\ DOMAIN w = 1 .. n /\ (w # <<>> => n # 0)  BY InLineDomain
<1>2. \A i \in 1 .. n : /\ WellMade(w[i]) /\ w[i].at \in Nat /\ w[i].at + Span(w[i]) <= 7
                        /\ w[i].at = IF i = 1 THEN 0 ELSE w[i - 1].at + Span(w[i - 1])
                        /\ Varies(w[i]) => i = n
    BY <1>1, Zenon DEF InLine
<1>3. \A i \in 1 .. n : Takes(w[i], Attribute(w[i], a), s[i])
    <2>1. TAKE i \in 1 .. n
    <2>2. Fit(w[i], Attribute(w[i], a))  BY <1>1 DEF AllFit
    <2>3. Takes(w[i], Attribute(w[i], a), Serialized(w[i], Attribute(w[i], a)))
        BY <1>2, <2>2, FieldsWritten
    <2>4. s[i] = Serialized(w[i], Attribute(w[i], a))  BY <1>1
    <2>5. QED  BY <2>3, <2>4
<1>4. d = FlattenSeq(s)  BY DEF Bytes
<1>5. \A i \in 1 .. n : s[i] = Serialized(w[i], Attribute(w[i], a))  BY <1>1
<1>6. s = [i \in 1 .. n |-> s[i]] /\ Len(s) = n
    <2>1. DOMAIN s = 1 .. n  BY <1>1
    <2>2. s = [i \in 1 .. n |-> s[i]]  BY <2>1
    <2>3. Len(s) = n
        <3> HIDE DEF s, n
        <3>1. QED  BY <1>1, <2>1, <2>2
    <2>4. QED  BY <2>2, <2>3
<1>7. CASE w = <<>>
    <2>1. n = 0  BY <1>7
    <2>2. FlattenSeq(s) = <<>>
        <3> HIDE DEF s
        <3>1. s = <<>>  BY <1>6, <2>1
        <3>2. QED  BY <1>6, <2>1, <3>1 DEF FlattenSeq
    <2>3. d = <<>> /\ d \in Seq(Int)  BY <1>4, <2>2
    <2>4. DOMAIN w = {}  BY <1>7
    <2> HIDE DEF d
    <2>5. LaidOut(w, a, d)  BY <1>7, <2>3, <2>4 DEF LaidOut
    <2>6. QED  BY <2>5 DEF d
<1>8. CASE w # <<>>
    <2>1. n # 0  BY <1>1, <1>8
    <2> HIDE DEF s, n
    <2>2. \A i \in 1 .. n : s[i] \in Seq(Int)  BY <1>3 DEF Takes
    <2>3. s \in [1 .. n -> Seq(Int)]  BY <1>6, <2>2
    <2>4. st \in [1 .. n -> Nat] /\ \A i \in 1 .. n : st[i] = w[i].at  BY <1>2
    <2>5. st[1] = 0
        <3>1. 1 \in 1 .. n  BY <1>1, <2>1
        <3>2. QED  BY <1>2, <2>4, <3>1
    <2>6. \A i \in 2 .. n : st[i] = st[i - 1] + Len(s[i - 1])
        <3>1. TAKE i \in 2 .. n
        <3>2. i \in 1 .. n /\ i - 1 \in 1 .. n /\ i # 1 /\ i - 1 # n  BY <1>1
        <3>3. ~ Varies(w[i - 1])  BY <1>2, <3>2
        <3>4. Len(s[i - 1]) = Span(w[i - 1])  BY <1>3, <3>2, <3>3 DEF Takes
        <3>5. w[i].at = w[i - 1].at + Span(w[i - 1])  BY <1>2, <3>2
        <3>6. QED  BY <2>4, <3>2, <3>4, <3>5
    <2> HIDE DEF st
    <2>7. /\ FlattenSeq(s) \in Seq(Int) /\ Len(FlattenSeq(s)) = st[n] + Len(s[n])
          /\ \A i \in 1 .. n : \A j \in 1 .. Len(s[i]) :
                st[i] + j <= Len(FlattenSeq(s)) /\ FlattenSeq(s)[st[i] + j] = s[i][j]
        BY <1>1, <2>1, <2>3, <2>4, <2>5, <2>6, Flatten
    <2> HIDE DEF d
    <2>8. d \in Seq(Int) /\ Len(d) = w[n].at + Len(s[n])
        <3>1. n \in 1 .. n  BY <1>1, <2>1
        <3>2. QED  BY <1>4, <2>4, <2>7, <3>1
    <2>9. ASSUME NEW i \in 1 .. n PROVE Lies(w[i], Attribute(w[i], a), d)
        <3>1. \A j \in 1 .. Len(s[i]) : w[i].at + j <= Len(d) /\ d[w[i].at + j] = s[i][j]
            BY <1>4, <2>4, <2>7
        <3>2. Varies(w[i]) => i = n  BY <1>2
        <3>3. Len(d) \in Nat /\ Len(s[i]) \in Nat /\ w[i].at \in Nat  BY <1>2, <2>2, <2>8
        <3>4. Len(d) >= w[i].at + Len(s[i])
            <4>1. CASE i = n  BY <2>8, <3>3, <4>1
            <4>2. CASE i # n
                <5>1. ~ Varies(w[i])  BY <3>2, <4>2
                <5>2. Len(s[i]) = Span(w[i])  BY <1>3, <5>1 DEF Takes
                <5>3. Span(w[i]) # 0
                    <6>1. WellMade(w[i])  BY <1>2
                    <6>2. QED  BY <6>1, SpanPositive
                <5>4. Len(s[i]) \in 1 .. Len(s[i])  BY <3>3, <5>2, <5>3
                <5>5. w[i].at + Len(s[i]) <= Len(d)  BY <3>1, <5>4
                <5>6. QED  BY <3>3, <5>5
            <4>3. QED  BY <4>1, <4>2
        <3>5. Stands(s[i], d, w[i].at)  BY <3>1, <3>4 DEF Stands
        <3>6. Varies(w[i]) => Len(d) = w[i].at + Len(s[i])  BY <2>8, <3>2
        <3>7. QED  BY <1>5, <3>5, <3>6 DEF Lies
    <2>10. LaidOut(w, a, d)
        <3>1. n \in 1 .. n  BY <1>1, <2>1
        <3>2. Len(d) = w[n].at + Len(Serialized(w[n], Attribute(w[n], a)))  BY <1>5, <2>8, <3>1
        <3>3. QED  BY <1>1, <1>8, <2>8, <2>9, <3>2 DEF LaidOut, n
    <2>11. QED  BY <2>10 DEF d
<1>9. QED  BY <1>7, <1>8

-----------------------------------------------------------------------------
(* The class of a message reads what it writes. *)

(* An attribute a received message has from a field, or by default. *)
LEMMA PopulatedFrom ==
    ASSUME NEW m, NamesApart(m), NEW d, NEW f \in ToSet(m.fields)
    PROVE  Populated(m, d)[f.name] = Parsed(f, d)
<1>1. \A g \in Fields(m) : g.name = f.name => g = f
    <2>1. TAKE g \in Fields(m)
    <2>2. CASE g \in ToSet(m.fields)  BY <2>2 DEF NamesApart
    <2>3. CASE g \notin ToSet(m.fields)
        <3>1. g.name \notin {h.name : h \in ToSet(m.fields)}  BY <2>3 DEF Fields
        <3>2. QED  BY <3>1
    <2>4. QED  BY <2>2, <2>3
<1>2. f \in Fields(m) /\ f.name \in Attributes(m)  BY DEF Fields, Attributes
<1>3. (CHOOSE g \in Fields(m) : g.name = f.name) = f  BY <1>1, <1>2
<1>4. QED  BY <1>2, <1>3 DEF Populated

(* and what only __init__() sets keeps its default. *)
LEMMA PopulatedByDefault ==
    ASSUME NEW m, NEW d, NEW g \in ToSet(m.out), g.name # NoName,
           \A h \in ToSet(m.out) : h.name = g.name => h = g,
           \A f \in ToSet(m.fields) : f.name # g.name
    PROVE  Populated(m, d)[g.name] = g.default
<1>1. g.name \notin {f.name : f \in ToSet(m.fields)} \cup {NoName}  OBVIOUS
<1>2. g \in Fields(m) /\ g.name \in Attributes(m)
    <2>1. g \in Fields(m)  BY <1>1 DEF Fields
    <2>2. QED  BY <2>1 DEF Attributes
<1>3. \A h \in Fields(m) : h.name = g.name => h = g  BY DEF Fields
<1>4. (CHOOSE h \in Fields(m) : h.name = g.name) = g  BY <1>2, <1>3
<1>5. g \notin ToSet(m.fields)  OBVIOUS
<1>6. QED  BY <1>2, <1>4, <1>5 DEF Populated

(* No field fails: none of them is the first to fail. *)
LEMMA NoFieldFails ==
    ASSUME NEW m, m.name # "KwhStatusMessage", NEW d
    PROVE  (\A f \in ToSet(m.fields) : ParseError(f, d) = "none") => FieldError(m, d) = "none"
<1> HAVE \A f \in ToSet(m.fields) : ParseError(f, d) = "none"
<1> DEFINE errors == [i \in DOMAIN m.fields |-> ParseError(m.fields[i], d)]
           bad    == {i \in DOMAIN errors : errors[i] # "none"}
<1>1. \A i \in DOMAIN m.fields : errors[i] = "none"  BY DEF ToSet
<1>2. bad = {}  BY <1>1
<1>3. QED  BY <1>2 DEF FieldError

(* If a message was populated none of its fields has failed. *)
LEMMA FieldsSucceed ==
    ASSUME NEW m, NEW d, NEW n \in Nat, DOMAIN m.fields = 1 .. n, FieldError(m, d) = "none"
    PROVE  \A f \in ToSet(m.fields) : ParseError(f, d) = "none"
<1> DEFINE errors == [i \in DOMAIN m.fields |-> ParseError(m.fields[i], d)]
           bad    == {i \in DOMAIN errors : errors[i] # "none"}
<1>1. CASE bad = {}
    <2>1. \A i \in DOMAIN m.fields : ParseError(m.fields[i], d) = "none"  BY <1>1
    <2>2. QED  BY <2>1 DEF ToSet
<1>2. CASE bad # {}
    <2>1. bad \in SUBSET Nat  OBVIOUS
    <2> HIDE DEF bad
    <2>2. \E x \in bad : \A y \in bad : x <= y  BY <1>2, <2>1, Least
    <2>3. Min(bad) \in bad  BY <2>2, Zenon DEF Min
    <2>4. FieldError(m, d) = errors[Min(bad)]  BY <1>2 DEF FieldError, bad
    <2>5. errors[Min(bad)] # "none"  BY <2>3 DEF bad
    <2>6. QED  BY <2>4, <2>5
<1>3. QED  BY <1>1, <1>2

(* The byte that is always the same. *)
LEMMA ConstantRead ==
    ASSUME NEW g, g.kind = "plain", g.name = NoName, Legal(g, g.default), g.default[1] \in {0, 1},
           NEW a, g.at \in Nat, NEW d \in Seq(Int), Lies(g, Attribute(g, a), d),
           NEW f, f.kind = "source", f.size = 1, f.at = g.at
    PROVE  ParseError(f, d) = "none"
<1> DEFINE b == g.default[1]
<1>1. Attribute(g, a) = g.default  BY DEF Attribute
<1>2. g.default \in Seq(Int) /\ Len(g.default) = 1  BY DEF Legal
<1>3. g.default = <<b>>  BY <1>2, Single
<1>4. Serialized(g, g.default) = g.default  BY DEF Serialized
<1>5. Stands(<<b>>, d, g.at)  BY <1>1, <1>3, <1>4 DEF Lies
<1>6. b \in {0, 1}  OBVIOUS
<1> HIDE DEF b
<1>7. Len(d) >= g.at + 1 /\ d[g.at + 1] = b  BY <1>5, ByteStands
<1>8. ~ (Len(d) < f.at + f.size) /\ d # <<>>
    <2>1. Len(d) \in Nat  OBVIOUS
    <2>2. QED  BY <1>7, <2>1
<1>9. ~ (d[f.at + 1] > 1)  BY <1>6, <1>7
<1>10. QED  BY <1>8, <1>9 DEF ParseError

(* What InLine says of one field. *)
LEMMA InLineField ==
    ASSUME NEW w, InLine(w), NEW i \in 1 .. Len(w)
    PROVE  /\ WellMade(w[i]) /\ w[i].at \in Nat /\ w[i].at + Span(w[i]) <= 7
           /\ Varies(w[i]) => i = Len(w)
           /\ w[i].name = NoName => w[i].kind = "plain" /\ Legal(w[i], w[i].default)
           /\ w[i].kind = "utf8" => w[i].name = "memo_text"
           /\ i = 1 => w[i].at = 0
<1>1. i \in DOMAIN w  BY InLineDomain
<1>2. QED  BY <1>1, Zenon DEF InLine

(* The fields of a body have bytes of their own; a tail as many as the class
   insists on.                                                              *)
TailLong(m, w, a) == \A i \in DOMAIN w : w[i].kind = "tail" => w[i].at + Len(Attribute(w[i], a)) >= m.need

(* If any field is read the body is not empty: *)
LEMMA Opens ==
    ASSUME NEW w, InLine(w), w # <<>>, ~ Varies(w[1]), NEW a, AllFit(w, a)
    PROVE  Bytes(w, a) # <<>>
<1> DEFINE d == Bytes(w, a)
           v == Attribute(w[1], a)
           s == Serialized(w[1], v)
<1>1. 1 \in 1 .. Len(w) /\ 1 \in DOMAIN w  BY InLineDomain
<1>2. WellMade(w[1]) /\ w[1].at \in Nat /\ w[1].at + Span(w[1]) <= 7 /\ w[1].at = 0  BY <1>1, InLineField
<1>3. Fit(w[1], v)  BY <1>1 DEF AllFit
<1>4. Takes(w[1], v, s)  BY <1>2, <1>3, FieldsWritten
<1>5. Len(s) = Span(w[1])  BY <1>4 DEF Takes
<1>6. Span(w[1]) \in 1 .. 4  BY <1>2, SpanPositive
<1>7. LaidOut(w, a, d)  BY Placed
<1>8. d \in Seq(Int) /\ Lies(w[1], v, d)  BY <1>1, <1>7 DEF LaidOut
<1>9. Len(d) >= w[1].at + Len(s)  BY <1>8 DEF Lies, Stands
<1> HIDE DEF d, s
<1>10. Len(d) # 0  BY <1>2, <1>5, <1>6, <1>9
<1>11. QED  BY <1>10 DEF d

(* it reaches to the end of its last field, *)
LEMMA Reaches ==
    ASSUME NEW w, InLine(w), w # <<>>, NEW a, AllFit(w, a)
    PROVE  /\ Len(Bytes(w, a)) >= w[Len(w)].at + (IF Varies(w[Len(w)]) THEN 0 ELSE Span(w[Len(w)]))
           /\ w[Len(w)].kind = "tail" =>
                 Len(Bytes(w, a)) = w[Len(w)].at + Len(Attribute(w[Len(w)], a))
<1> DEFINE d == Bytes(w, a)
           g == w[Len(w)]
           v == Attribute(g, a)
           s == Serialized(g, v)
<1>1. Len(w) \in 1 .. Len(w) /\ Len(w) \in DOMAIN w  BY InLineDomain
<1>2. WellMade(g) /\ g.at \in Nat /\ g.at + Span(g) <= 7  BY <1>1, InLineField
<1>3. Fit(g, v)  BY <1>1 DEF AllFit
<1>4. Takes(g, v, s)  BY <1>2, <1>3, FieldsWritten
<1>5. s \in Seq(Int) /\ (~ Varies(g) => Len(s) = Span(g))  BY <1>4 DEF Takes
<1>6. LaidOut(w, a, d)  BY Placed
<1>7. Len(d) = g.at + Len(s)  BY <1>6 DEF LaidOut
<1>8. g.kind = "tail" => s = v  BY DEF Serialized
<1>9. Len(s) \in Nat  BY <1>5
<1> HIDE DEF d, s, v, g
<1>10. Len(d) >= g.at + (IF Varies(g) THEN 0 ELSE Span(g))
    <2>1. CASE Varies(g)  BY <1>2, <1>7, <1>9, <2>1
    <2>2. CASE ~ Varies(g)
        <3>1. Span(g) \in 1 .. 4  BY <1>2, SpanPositive
        <3>2. Len(d) = g.at + Span(g)  BY <1>5, <1>7, <2>2
        <3>3. QED  BY <1>2, <2>2, <3>1, <3>2
    <2>3. QED  BY <2>1, <2>2
<1>11. g.kind = "tail" => Len(d) = g.at + Len(v)  BY <1>7, <1>8
<1>12. QED  BY <1>10, <1>11 DEF d, v, g

(* and is as long as _validate_populate() insists on. *)
LEMMA NotRefused ==
    ASSUME NEW m, NEW w, InLine(w), LongEnough(m, w), NEW a, AllFit(w, a), TailLong(m, w, a)
    PROVE  Refuses(m, m.prio, m.rtr, Bytes(w, a)) = "none"
<1> DEFINE d == Bytes(w, a)
<1>1. m.need \in Int /\ (m.need = 0 => w = <<>>)  BY DEF LongEnough
<1>2. LaidOut(w, a, d)  BY Placed
<1>3. m.need = 0 => d = <<>>  BY <1>1, <1>2 DEF LaidOut
<1>4. d \in Seq(Int)  BY <1>2 DEF LaidOut
<1>5. ASSUME m.need > 0 PROVE d # <<>> /\ ~ (Len(d) < m.need)
    <2> DEFINE g == w[Len(w)]
               v == Attribute(g, a)
    <2>1. w # <<>>  BY <1>5 DEF LongEnough
    <2>2. \/ g.kind = "tail"
          \/ m.need <= g.at + (IF Varies(g) THEN 0 ELSE Span(g))
        BY <1>5 DEF LongEnough
    <2>3. /\ Len(d) >= g.at + (IF Varies(g) THEN 0 ELSE Span(g))
          /\ g.kind = "tail" => Len(d) = g.at + Len(v)
        BY <2>1, Reaches
    <2>4. Len(w) \in DOMAIN w /\ Len(w) \in 1 .. Len(w)  BY <2>1, InLineDomain
    <2>5. g.kind = "tail" => g.at + Len(v) >= m.need  BY <2>4 DEF TailLong
    <2>6. WellMade(g) /\ g.at \in Nat  BY <2>4, InLineField
    <2>7. Span(g) \in 1 .. 4  BY <2>6, SpanPositive
    <2>8. Len(d) \in Nat  BY <1>4
    <2> HIDE DEF d, g, v
    <2>9. Len(d) >= m.need
        <3>1. CASE g.kind = "tail"  BY <2>3, <2>5, <3>1
        <3>2. CASE g.kind # "tail"
            <4>1. CASE Varies(g)  BY <1>1, <2>2, <2>3, <2>6, <2>8, <3>2, <4>1
            <4>2. CASE ~ Varies(g)
                <5>1. m.need <= g.at + Span(g) /\ Len(d) >= g.at + Span(g)  BY <2>2, <2>3, <3>2, <4>2
                <5>2. QED  BY <1>1, <2>6, <2>7, <2>8, <5>1
            <4>3. QED  BY <4>1, <4>2
        <3>3. QED  BY <3>1, <3>2
    <2>10. d # <<>>
        <3>1. Len(d) # 0  BY <1>1, <1>5, <2>8, <2>9
        <3>2. QED  BY <3>1
    <2>11. QED  BY <1>1, <2>8, <2>9, <2>10
<1> HIDE DEF d
<1>6. Refuses(m, m.prio, m.rtr, d) = "none"  BY <1>3, <1>5 DEF Refuses
<1>7. QED  BY <1>6 DEF d

(* A field that is written is what the field of its name reads. *)
LEMMA FieldRead ==
    ASSUME NEW m, NamesApart(m), NEW w, InLine(w), AllKept(m, w), NEW a, AllFit(w, a),
           NEW f \in ToSet(m.fields), f.kind # "plain", NEW g \in ToSet(w), g.name = f.name,
           Bytes(w, a) # <<>>
    PROVE  ReadsAs(f, Bytes(w, a), Attribute(g, a))
<1> DEFINE d == Bytes(w, a)
           v == Attribute(g, a)
<1>1. PICK i \in DOMAIN w : g = w[i]  BY DEF ToSet
<1>2. i \in 1 .. Len(w)  BY InLineDomain
<1>3. WellMade(g) /\ g.at \in Nat  BY <1>1, <1>2, InLineField
<1>4. Fit(g, v)  BY <1>1 DEF AllFit
<1>5. LaidOut(w, a, d)  BY Placed
<1>6. d \in Seq(Int) /\ Lies(g, v, d)  BY <1>1, <1>5 DEF LaidOut
<1>7. \A h \in ToSet(m.fields) : h.name = f.name => h = f  BY DEF NamesApart
<1>8. \/ \E h \in ToSet(m.fields) :
            h.name = g.name /\ SameField(h, g) /\ h.kind \notin {"plain", "text", "utf8"}
      \/ \E h \in ToSet(m.fields) : h.name = g.name /\ h.kind = "plain"
      \/ \A h \in ToSet(m.fields) : h.name # g.name
    BY DEF AllKept
<1>9. SameField(f, g) /\ f.kind \notin {"plain", "text", "utf8"}  BY <1>7, <1>8
<1>10. Readable(g)  BY <1>9 DEF SameField, Readable
<1> HIDE DEF d, v
<1>11. ReadsAs(g, d, v)  BY <1>3, <1>4, <1>6, <1>10, FieldsReadBack DEF d
<1>12. Parsed(f, d) = Parsed(g, d) /\ ParseError(f, d) = ParseError(g, d)  BY <1>3, <1>9, <1>10, SameReads
<1>13. QED  BY <1>11, <1>12 DEF ReadsAs, d, v

(* No field of the class fails on the body the class writes. *)
LEMMA NoneFails ==
    ASSUME NEW m, NEW w, InLine(w), Mirrors(m, w), NEW a, AllFit(w, a)
    PROVE  FieldError(m, Bytes(w, a)) = "none"
<1> DEFINE d == Bytes(w, a)
<1>1. m.name # "KwhStatusMessage" /\ NamesApart(m) /\ AllReadable(m, w) /\ AllKept(m, w)  BY DEF Mirrors
<1>2. LaidOut(w, a, d)  BY Placed
<1>3. d \in Seq(Int)  BY <1>2 DEF LaidOut
<1>4. ASSUME NEW f \in ToSet(m.fields) PROVE ParseError(f, d) = "none"
    <2>1. CASE f.kind = "plain"  BY <2>1 DEF ParseError
    <2>2. CASE f.kind # "plain"
        <3>1. w # <<>> /\ ~ Varies(w[1])  BY <1>1, <2>2 DEF AllReadable
        <3>2. d # <<>>  BY <3>1, Opens
        <3>3. CASE f.kind \in {"half", "optional", "tail", "text"}
            BY <3>2, <3>3 DEF ParseError
        <3>4. CASE \E g \in ToSet(w) : g.name = f.name
            <4>1. PICK g \in ToSet(w) : g.name = f.name  BY <3>4
            <4>2. ReadsAs(f, d, Attribute(g, a))  BY <1>1, <2>2, <3>2, <4>1, FieldRead
            <4>3. QED  BY <4>2 DEF ReadsAs
        <3>5. CASE f.kind = "source" /\ f.size = 1 /\ \E g \in ToSet(w) :
                       g.name = NoName /\ g.at = f.at /\ g.default[1] \in {0, 1}
            <4>1. PICK g \in ToSet(w) : g.name = NoName /\ g.at = f.at /\ g.default[1] \in {0, 1}  BY <3>5
            <4>2. PICK i \in DOMAIN w : g = w[i]  BY DEF ToSet
            <4>3. i \in 1 .. Len(w)  BY InLineDomain
            <4>4. g.kind = "plain" /\ Legal(g, g.default) /\ g.at \in Nat  BY <4>1, <4>2, <4>3, InLineField
            <4>5. Lies(g, Attribute(g, a), d)  BY <1>2, <4>2 DEF LaidOut
            <4> HIDE DEF d
            <4>6. QED  BY <1>3, <3>5, <4>1, <4>4, <4>5, ConstantRead
        <3>6. QED  BY <1>1, <2>2, <3>3, <3>4, <3>5 DEF AllReadable
    <2>3. QED  BY <2>1, <2>2
<1>5. QED  BY <1>1, <1>4, NoFieldFails

(* A field that is written and read gets its attribute back. *)
LEMMA ReadBack ==
    ASSUME NEW m, NEW w, InLine(w), Mirrors(m, w), NEW a, AllFit(w, a),
           NEW f \in ToSet(m.fields), f.kind # "plain", NEW g \in ToSet(w), g.name = f.name
    PROVE  Populated(m, Bytes(w, a))[f.name] = a[f.name]
<1> DEFINE d == Bytes(w, a)
<1>1. NamesApart(m) /\ AllReadable(m, w) /\ AllKept(m, w)  BY DEF Mirrors
<1>2. w # <<>> /\ ~ Varies(w[1])  BY <1>1 DEF AllReadable
<1>3. d # <<>>  BY <1>2, Opens
<1>4. ReadsAs(f, d, Attribute(g, a))  BY <1>1, <1>3, FieldRead
<1>5. f.name # NoName  BY <1>1 DEF NamesApart
<1>6. Attribute(g, a) = a[f.name]  BY <1>5 DEF Attribute
<1>7. Populated(m, d)[f.name] = Parsed(f, d)  BY <1>1, PopulatedFrom
<1>8. QED  BY <1>4, <1>6, <1>7 DEF ReadsAs

(* What a class takes leaves its attributes, and its fields among them. *)
LEMMA InLineReadsItself ==
    ASSUME NEW m, m.name \notin PackedNames, NEW classic,
           InLine(Written(m, classic)), Mirrors(m, Written(m, classic)),
           NEW a, AllFit(Written(m, classic), a), TailLong(m, Written(m, classic), a)
    PROVE  ReadsItself(m, a, classic)
<1> DEFINE w == Written(m, classic)
           d == Bytes(w, a)
<1>1. Body(m, a, classic) = d  BY DEF Body, Bytes
<1>2. Writable(m, a, classic)  BY DEF Writable, AllFit, Fit
<1> HIDE DEF w
<1>3. LongEnough(m, w)  BY DEF Mirrors, w
<1>4. Refuses(m, m.prio, m.rtr, d) = "none"  BY <1>3, NotRefused DEF w
<1>5. FieldError(m, d) = "none"  BY NoneFails DEF w
<1>6. ASSUME NEW f \in TwoWay(m, classic) PROVE Populated(m, d)[f.name] = a[f.name]
    <2>1. f \in ToSet(m.fields) /\ f.kind # "plain" /\ f.name \in {g.name : g \in ToSet(w)}
        BY DEF TwoWay, w
    <2>2. PICK g \in ToSet(w) : g.name = f.name  BY <2>1
    <2>3. QED  BY <2>1, <2>2, ReadBack DEF w
<1> HIDE DEF d
<1>7. QED  BY <1>1, <1>2, <1>4, <1>5, <1>6 DEF ReadsItself

-----------------------------------------------------------------------------
(* The attributes of a message that is built. *)

(* An attribute of a message that is built has one of the values it is set to. *)
LEMMA Assigned ==
    ASSUME NEW m, NEW a \in Assignments(m), NEW n \in Attributes(m), Samples(FieldNamed(m, n)) # {}
    PROVE  DOMAIN a = Attributes(m) /\ a[n] \in Samples(FieldNamed(m, n))
<1>1. ASSUME NEW init \in BOOLEAN
      PROVE  DOMAIN Base(m, init) = Attributes(m) /\ Base(m, init)[n] \in Samples(FieldNamed(m, n))
    <2>1. DOMAIN Base(m, init) = Attributes(m)  BY DEF Base
    <2>2. (CHOOSE v \in Samples(FieldNamed(m, n)) : TRUE) \in Samples(FieldNamed(m, n))  OBVIOUS
    <2>3. Base(m, init)[n] \in Samples(FieldNamed(m, n))  BY <2>2 DEF Base
    <2>4. QED  BY <2>1, <2>3
<1>2. CASE a = Base(m, TRUE)  BY <1>1, <1>2
<1>3. CASE \E k \in Attributes(m), init \in BOOLEAN : a \in Varied(m, k, init)
    <2>1. PICK k \in Attributes(m), init \in BOOLEAN : a \in Varied(m, k, init)  BY <1>3
    <2>2. PICK v \in Samples(FieldNamed(m, k)) : a = [Base(m, init) EXCEPT ![k] = v]  BY <2>1 DEF Varied
    <2> DEFINE b == Base(m, init)
    <2>3. DOMAIN b = Attributes(m) /\ b[n] \in Samples(FieldNamed(m, n))  BY <1>1
    <2> HIDE DEF b
    <2>4. a = [b EXCEPT ![k] = v]  BY <2>2 DEF b
    <2>5. DOMAIN a = Attributes(m)  BY <2>3, <2>4
    <2>6. a[n] = IF n = k THEN v ELSE b[n]  BY <2>3, <2>4
    <2>7. QED  BY <2>2, <2>3, <2>5, <2>6
<1>4. ASSUME a # Base(m, TRUE) PROVE \E k \in Attributes(m), init \in BOOLEAN : a \in Varied(m, k, init)
    <2>1. PICK k \in Attributes(m) : a \in Varied(m, k, TRUE) \cup Varied(m, k, FALSE)
        BY <1>4 DEF Assignments
    <2>2. QED  BY <2>1
<1>5. QED  BY <1>2, <1>3, <1>4

(* A field that is written is the field of its name, and its name an attribute. *)
LEMMA NamedField ==
    ASSUME NEW m, InLine(m.out), NEW g \in ToSet(m.out), g.name # NoName
    PROVE  g.name \in Attributes(m) /\ FieldNamed(m, g.name) = g
<1>1. g.name \in Attributes(m)
    <2>1. CASE \E f \in ToSet(m.fields) : f.name = g.name  BY <2>1 DEF Attributes, Fields
    <2>2. CASE ~ \E f \in ToSet(m.fields) : f.name = g.name
        <3>1. g \in Fields(m)  BY <2>2 DEF Fields
        <3>2. QED  BY <3>1 DEF Attributes
    <2>3. QED  BY <2>1, <2>2
<1>2. \A i, j \in DOMAIN m.out : m.out[i].name = m.out[j].name /\ m.out[i].name # NoName => i = j
    BY Zenon DEF InLine
<1>3. \A f \in ToSet(m.out) : f.name = g.name => f = g  BY <1>2 DEF ToSet
<1>4. (CHOOSE f \in ToSet(m.out) : f.name = g.name) = g  BY <1>3
<1>5. QED  BY <1>1, <1>4 DEF FieldNamed

(* The values an attribute is set to are legal for the field that writes it. *)
LEMMA SampleFits ==
    ASSUME NEW m \in Classes, m.sends, NEW g \in ToSet(m.out)
    PROVE  /\ Samples(g) # {}
           /\ \A v \in Samples(g) : /\ (g.sent => Encodable(g, v)) => Legal(g, v)
                                    /\ g.kind = "tail" => g.at + Len(v) >= m.need
<1>1. g \in ToSet(m.out) \cup (IF m.name \in PackedNames THEN ToSet(m.fields) ELSE {})  OBVIOUS
<1>2. QED  BY <1>1, ValuesAssumption

(* What stands for no attribute is always the same. *)
LEMMA UnnamedFits ==
    ASSUME NEW w, InLine(w), NEW i \in DOMAIN w, w[i].name = NoName, NEW a
    PROVE  Fit(w[i], Attribute(w[i], a)) /\ w[i].kind # "tail"
<1>1. i \in 1 .. Len(w)  BY InLineDomain
<1>2. w[i].kind = "plain" /\ Legal(w[i], w[i].default)  BY <1>1, InLineField
<1>3. Attribute(w[i], a) = w[i].default  BY DEF Attribute
<1>4. Encodable(w[i], w[i].default)  BY <1>2 DEF Encodable
<1>5. QED  BY <1>2, <1>3, <1>4 DEF Fit

(* So every field of a message that bytes() does not refuse fits its value. *)
LEMMA SentFits ==
    ASSUME NEW m \in Classes, m.sends, m.name \notin PackedNames, InLine(m.out), NEW classic,
           InLine(Written(m, classic)), ToSet(Written(m, classic)) \subseteq ToSet(m.out),
           NEW a \in Assignments(m), Writable(m, a, classic)
    PROVE  AllFit(Written(m, classic), a) /\ TailLong(m, Written(m, classic), a)
<1> DEFINE w == Written(m, classic)
<1>1. \A i \in DOMAIN w : Encodable(w[i], Attribute(w[i], a))  BY DEF Writable
<1>2. InLine(w) /\ ToSet(w) \subseteq ToSet(m.out)  OBVIOUS
<1> HIDE DEF w
<1>3. ASSUME NEW i \in DOMAIN w
      PROVE  Fit(w[i], Attribute(w[i], a)) /\ (w[i].kind = "tail" => w[i].at + Len(Attribute(w[i], a)) >= m.need)
    <2> DEFINE g == w[i]
               v == Attribute(g, a)
    <2>1. CASE g.name = NoName  BY <1>2, <2>1, UnnamedFits
    <2>2. CASE g.name # NoName
        <3>1. g \in ToSet(w)  BY DEF ToSet
        <3>2. g \in ToSet(m.out)  BY <1>2, <3>1
        <3>3. Encodable(g, v)  BY <1>1
        <3> HIDE DEF g
        <3>4. g.name \in Attributes(m) /\ FieldNamed(m, g.name) = g  BY <2>2, <3>2, NamedField
        <3>5. /\ Samples(g) # {}
              /\ \A x \in Samples(g) : /\ (g.sent => Encodable(g, x)) => Legal(g, x)
                                       /\ g.kind = "tail" => g.at + Len(x) >= m.need
            BY <3>2, SampleFits
        <3>6. a[g.name] \in Samples(g)  BY <3>4, <3>5, Assigned
        <3>7. v = a[g.name]  BY <2>2 DEF Attribute
        <3> HIDE DEF v
        <3>8. v \in Samples(g)  BY <3>6, <3>7
        <3>9. Legal(g, v) /\ (g.kind = "tail" => g.at + Len(v) >= m.need)  BY <3>3, <3>5, <3>8
        <3>10. Fit(g, v) /\ (g.kind = "tail" => g.at + Len(v) >= m.need)  BY <3>3, <3>9 DEF Fit
        <3>11. QED  BY <3>10 DEF g, v
    <2>3. QED  BY <2>1, <2>2
<1>4. AllFit(w, a)  BY <1>3 DEF AllFit
<1>5. TailLong(m, w, a)  BY <1>3 DEF TailLong
<1>6. QED  BY <1>4, <1>5 DEF w

-----------------------------------------------------------------------------
(* The attributes of a message that was received. *)

(* The field that writes an attribute fits what the field that reads it has read. *)
LEMMA ReadFits ==
    ASSUME NEW m, m.need \in Int, NEW g, WellMade(g), Readable(g), g.at \in Nat, g.at + Span(g) <= 7,
           NEW f, SameField(f, g), NEW d \in Seq(Octet), Len(d) <= 7, ParseError(f, d) = "none",
           NEW prio, NEW rtr, Refuses(m, prio, rtr, d) = "none"
    PROVE  Fit(g, Parsed(f, d)) /\ (g.kind = "tail" => g.at + Len(Parsed(f, d)) >= m.need)
<1>1. Parsed(f, d) = Parsed(g, d) /\ ParseError(f, d) = ParseError(g, d)  BY SameReads
<1>2. g.kind # "plain"  BY DEF Readable
<1>3. d # <<>>  BY <1>1, <1>2 DEF ParseError
<1>4. Span(g) \in 1 .. 4  BY SpanPositive
<1>5. g.at \in 0 .. 7
    <2> DEFINE s == Span(g)
               at == g.at
    <2>1. at \in Nat /\ at + s <= 7 /\ s \in 1 .. 4  BY <1>4
    <2> HIDE DEF s, at
    <2>2. at \in 0 .. 7  BY <2>1
    <2>3. QED  BY <2>2 DEF at
<1>6. Fit(g, Parsed(g, d))  BY <1>1, <1>3, <1>5, FieldsFit
<1>7. ASSUME g.kind = "tail" PROVE g.at + Len(Parsed(g, d)) >= m.need
    <2> DEFINE v == Parsed(g, d)
               n == Len(d)
    <2>1. g.at < n => Len(v) = n - g.at  BY <1>5, <1>7, TailFits
    <2>2. v \in Seq(Int)  BY <1>6 DEF Fit, Legal
    <2>3. Len(v) \in Nat /\ n \in Nat  BY <2>2
    <2>4. m.need > 0 => ~ (n < m.need)  BY <1>3 DEF Refuses
    <2> HIDE DEF v, n
    <2>5. g.at + Len(v) >= m.need
        <3>1. CASE m.need > 0
            <4>1. n >= m.need  BY <2>3, <2>4, <3>1
            <4>2. CASE g.at < n
                <5> DEFINE at == g.at
                <5>1. at \in 0 .. 7 /\ Len(v) = n - at  BY <1>5, <2>1, <4>2
                <5> HIDE DEF at
                <5>2. at + Len(v) = n  BY <2>3, <5>1
                <5>3. QED  BY <4>1, <5>2 DEF at
            <4>3. CASE ~ (g.at < n)  BY <1>5, <2>3, <4>1, <4>3
            <4>4. QED  BY <4>2, <4>3
        <3>2. CASE ~ (m.need > 0)  BY <2>3, <3>2
        <3>3. QED  BY <3>1, <3>2
    <2>6. QED  BY <2>5 DEF v
<1>8. QED  BY <1>1, <1>6, <1>7

(* So the fields of a class fit the attributes of any message it has taken. *)
LEMMA ReceivedFits ==
    ASSUME NEW m, NEW w, w = m.out, InLine(w), Mirrors(m, w), NEW d \in Seq(Octet), Len(d) <= 7,
           NEW prio, NEW rtr, Refuses(m, prio, rtr, d) = "none", FieldError(m, d) = "none"
    PROVE  AllFit(w, Populated(m, d)) /\ TailLong(m, w, Populated(m, d))
<1> DEFINE a == Populated(m, d)
<1>1. /\ m.fields \in Seq(ToSet(m.fields)) /\ NamesApart(m) /\ LongEnough(m, w) /\ AllKept(m, w)
    BY DEF Mirrors
<1>2. \A f \in ToSet(m.fields) : ParseError(f, d) = "none"
    <2>1. Len(m.fields) \in Nat /\ DOMAIN m.fields = 1 .. Len(m.fields)  BY <1>1, LenProperties
    <2>2. QED  BY <2>1, FieldsSucceed
<1>3. m.need \in Int  BY <1>1 DEF LongEnough
<1>4. \A i, j \in DOMAIN w : w[i].name = w[j].name /\ w[i].name # NoName => i = j
    BY Zenon DEF InLine
<1>5. ASSUME NEW i \in DOMAIN w
      PROVE  Fit(w[i], Attribute(w[i], a)) /\ (w[i].kind = "tail" => w[i].at + Len(Attribute(w[i], a)) >= m.need)
    <2> DEFINE g == w[i]
    <2>1. CASE g.name = NoName  BY <2>1, UnnamedFits
    <2>2. CASE g.name # NoName
        <3>1. g \in ToSet(w) /\ g \in ToSet(m.out)  BY DEF ToSet
        <3>2. Attribute(g, a) = a[g.name]  BY <2>2 DEF Attribute
        <3>3. i \in 1 .. Len(w)  BY InLineDomain
        <3>4. WellMade(g) /\ g.at \in Nat /\ g.at + Span(g) <= 7  BY <3>3, InLineField
        <3>5. \A h \in ToSet(m.out) : h.name = g.name => h = g  BY <1>4, <2>2 DEF ToSet
        <3> HIDE DEF g, a
        <3>6. CASE \E f \in ToSet(m.fields) :
                      f.name = g.name /\ SameField(f, g) /\ f.kind \notin {"plain", "text", "utf8"}
            <4>1. PICK f \in ToSet(m.fields) :
                      f.name = g.name /\ SameField(f, g) /\ f.kind \notin {"plain", "text", "utf8"}
                BY <3>6
            <4>2. Readable(g)  BY <4>1 DEF SameField, Readable
            <4>3. a[g.name] = Parsed(f, d)  BY <1>1, <4>1, PopulatedFrom DEF a
            <4>4. ParseError(f, d) = "none"  BY <1>2
            <4>5. Fit(g, Parsed(f, d)) /\ (g.kind = "tail" => g.at + Len(Parsed(f, d)) >= m.need)
                BY <1>3, <3>4, <4>1, <4>2, <4>4, ReadFits
            <4>6. QED  BY <3>2, <4>3, <4>5 DEF g
        <3>7. CASE g.kind # "tail" /\ \E f \in ToSet(m.fields) :
                      f.name = g.name /\ f.kind = "plain" /\ Fit(g, f.default)
            <4>1. PICK f \in ToSet(m.fields) : f.name = g.name /\ f.kind = "plain" /\ Fit(g, f.default)
                BY <3>7
            <4>2. a[g.name] = Parsed(f, d)  BY <1>1, <4>1, PopulatedFrom DEF a
            <4>3. Parsed(f, d) = f.default  BY <4>1 DEF Parsed
            <4>4. QED  BY <3>2, <3>7, <4>1, <4>2, <4>3 DEF g
        <3>8. CASE g.kind # "tail" /\ Fit(g, g.default) /\ \A f \in ToSet(m.fields) : f.name # g.name
            <4>1. a[g.name] = g.default  BY <2>2, <3>1, <3>5, <3>8, PopulatedByDefault DEF a
            <4>2. QED  BY <3>2, <3>8, <4>1 DEF g
        <3>9. QED  BY <1>1, <3>1, <3>6, <3>7, <3>8 DEF AllKept
    <2>3. QED  BY <2>1, <2>2
<1> HIDE DEF a
<1>6. AllFit(w, a)  BY <1>5 DEF AllFit
<1>7. TailLong(m, w, a)  BY <1>5 DEF TailLong
<1>8. QED  BY <1>6, <1>7 DEF a

-----------------------------------------------------------------------------
(* The classes that pack several attributes in a byte. *)

(* What an attribute stands for, and bits that are read. *)
AllLegal(m, a) == \A f \in ToSet(m.fields) : Legal(f, a[f.name])

(* The classes that pack, with the fields they read. *)
LEMMA PsuValues ==
    LET m == PsuValuesMessage
    IN  /\ m.name = "PsuValuesMessage" /\ m.need = 7
        /\ ToSet(m.fields) = {ComputedField("channel", 0, 1, 4, 4), ComputedField("watt", 0, 3, 0, 20),
                              ComputedField("volt", 3, 2, 0, 16), ComputedField("amp", 5, 2, 0, 16)}
<1> DEFINE m == PsuValuesMessage
<1>1. m.name = "PsuValuesMessage" /\ m.need = 7  BY SMT DEF PsuValuesMessage, Message
<1>2. m.fields = <<ComputedField("channel", 0, 1, 4, 4), ComputedField("watt", 0, 3, 0, 20),
                   ComputedField("volt", 3, 2, 0, 16), ComputedField("amp", 5, 2, 0, 16)>>
    BY SMT DEF PsuValuesMessage, Message
<1>3. DOMAIN m.fields = {1, 2, 3, 4}  BY <1>2
<1>4. QED  BY <1>1, <1>2, <1>3 DEF ToSet

(* SetEdgeColorMessage: bits and flags in three bytes. *)
LEMMA EdgeColor ==
    LET m == SetEdgeColorMessage
    IN  /\ m.name = "SetEdgeColorMessage" /\ m.need = -1
        /\ ToSet(m.fields) =
             {BitField("apply_background_color", 0, 0, 1), BitField("custom_color_palette", 0, 7, 1),
              BitField("apply_to_left_edge", 1, 0, 1), BitField("apply_to_top_edge", 1, 1, 1),
              BitField("apply_to_right_edge", 1, 2, 1), BitField("apply_to_bottom_edge", 1, 3, 1),
              BitField("color_idx", 2, 0, 5),
              PlainField("apply_continuous_feedback_color", <<0>>), PlainField("apply_to_all_pages", <<0>>),
              PlainField("background_blinking", <<0>>), PlainField("custom_color_priority", <<1>>)}
<1> DEFINE m == SetEdgeColorMessage
<1>1. m.name = "SetEdgeColorMessage" /\ m.need = -1
    BY SMT DEF SetEdgeColorMessage, Message, AnyPriority, Nothing
<1>2. m.fields = <<BitField("apply_background_color", 0, 0, 1), BitField("custom_color_palette", 0, 7, 1),
              BitField("apply_to_left_edge", 1, 0, 1), BitField("apply_to_top_edge", 1, 1, 1),
              BitField("apply_to_right_edge", 1, 2, 1), BitField("apply_to_bottom_edge", 1, 3, 1),
              BitField("color_idx", 2, 0, 5),
              PlainField("apply_continuous_feedback_color", <<0>>), PlainField("apply_to_all_pages", <<0>>),
              PlainField("background_blinking", <<0>>), PlainField("custom_color_priority", <<1>>)>>
    BY SMT DEF SetEdgeColorMessage, Message, AnyPriority
<1>3. DOMAIN m.fields = {1, 2, 3, 4, 5, 6, 7, 8, 9, 10, 11}  BY <1>2
<1>4. QED  BY <1>1, <1>2, <1>3 DEF ToSet

(* SetCustomColorMessage, which reads nothing. *)
LEMMA CustomColor ==
    LET m == SetCustomColorMessage
    IN  /\ m.name = "SetCustomColorMessage" /\ m.need = -1
        /\ ToSet(m.fields) =
             {PlainField("palette_idx", <<0>>), PlainField("white_mode", <<0>>), PlainField("saturation", <<127>>),
              PlainField("red", <<0>>), PlainField("green", <<0>>), PlainField("blue", <<0>>)}
<1> DEFINE m == SetCustomColorMessage
<1>1. m.name = "SetCustomColorMessage" /\ m.need = -1  BY SMT DEF SetCustomColorMessage, Message, Nothing
<1>2. m.fields = <<PlainField("palette_idx", <<0>>), PlainField("white_mode", <<0>>), PlainField("saturation", <<127>>),
              PlainField("red", <<0>>), PlainField("green", <<0>>), PlainField("blue", <<0>>)>>
    BY SMT DEF SetCustomColorMessage, Message
<1>3. DOMAIN m.fields = {1, 2, 3, 4, 5, 6}  BY <1>2
<1>4. QED  BY <1>1, <1>2, <1>3 DEF ToSet

(* EdgeSetCustomColor: five bytes, the second of a bit and seven bits. *)
LEMMA EdgeCustom ==
    LET m == EdgeSetCustomColor
    IN  /\ m.name = "EdgeSetCustomColor" /\ m.need = -1
        /\ ToSet(m.fields) =
             {Default(ByteField("pallet", 0), <<31>>), BitField("rgb", 1, 7, 1), BitField("saturation", 1, 0, 7),
              ByteField("red", 2), ByteField("green", 3), ByteField("blue", 4)}
<1> DEFINE m == EdgeSetCustomColor
<1>1. m.name = "EdgeSetCustomColor" /\ m.need = -1  BY SMT DEF EdgeSetCustomColor, Message, AnyPriority, Nothing
<1>2. m.fields = <<Default(ByteField("pallet", 0), <<31>>), BitField("rgb", 1, 7, 1), BitField("saturation", 1, 0, 7),
              ByteField("red", 2), ByteField("green", 3), ByteField("blue", 4)>>
    BY SMT DEF EdgeSetCustomColor, Message, AnyPriority
<1>3. DOMAIN m.fields = {1, 2, 3, 4, 5, 6}  BY <1>2
<1>4. QED  BY <1>1, <1>2, <1>3 DEF ToSet

(* The parts of the fields of these classes. *)
LEMMA FieldsOfBits ==
    /\ \A name, at, lo, width :
          LET f == BitField(name, at, lo, width)
          IN  /\ f.name = name /\ f.kind = "number" /\ f.at = at /\ f.size = 1 /\ f.lo = lo /\ f.width = width
              /\ f.offset = 0 /\ f.scale = 1 /\ f.sent = FALSE
    /\ \A name, at, n, lo, width :
          LET f == ComputedField(name, at, n, lo, width)
          IN  /\ f.name = name /\ f.kind = "number" /\ f.at = at /\ f.size = n /\ f.lo = lo /\ f.width = width
              /\ f.offset = 0 /\ f.scale = 1 /\ f.sent = FALSE
    /\ \A name, at :
          LET f == ByteField(name, at)
          IN  /\ f.name = name /\ f.kind = "number" /\ f.at = at /\ f.size = 1 /\ f.lo = 0 /\ f.width = 8
              /\ f.offset = 0 /\ f.scale = 1 /\ f.sent = TRUE
    /\ \A name, at, v :
          LET f == Default(ByteField(name, at), v)
          IN  /\ f.name = name /\ f.kind = "number" /\ f.at = at /\ f.size = 1 /\ f.lo = 0 /\ f.width = 8
              /\ f.offset = 0 /\ f.scale = 1 /\ f.sent = TRUE
    /\ \A name, v :
          LET f == PlainField(name, v)
          IN  f.name = name /\ f.kind = "plain" /\ f.default = v /\ f.sent = FALSE
<1>1. ASSUME NEW name, NEW at
      PROVE  LET f == ByteField(name, at)
             IN  /\ f.name = name /\ f.kind = "number" /\ f.at = at /\ f.size = 1 /\ f.lo = 0 /\ f.width = 8
                 /\ f.offset = 0 /\ f.scale = 1 /\ f.sent = TRUE
    BY DEF ByteField, Field
<1>2. ASSUME NEW name, NEW at, NEW lo, NEW width
      PROVE  LET f == BitField(name, at, lo, width)
             IN  /\ f.name = name /\ f.kind = "number" /\ f.at = at /\ f.size = 1 /\ f.lo = lo /\ f.width = width
                 /\ f.offset = 0 /\ f.scale = 1 /\ f.sent = FALSE
    BY DEF BitField, ByteField, Field
<1>3. ASSUME NEW name, NEW at, NEW n, NEW lo, NEW width
      PROVE  LET f == ComputedField(name, at, n, lo, width)
             IN  /\ f.name = name /\ f.kind = "number" /\ f.at = at /\ f.size = n /\ f.lo = lo /\ f.width = width
                 /\ f.offset = 0 /\ f.scale = 1 /\ f.sent = FALSE
    BY DEF ComputedField, BitField, ByteField, Field
<1>4. ASSUME NEW name, NEW at, NEW v
      PROVE  LET f == Default(ByteField(name, at), v)
             IN  /\ f.name = name /\ f.kind = "number" /\ f.at = at /\ f.size = 1 /\ f.lo = 0 /\ f.width = 8
                 /\ f.offset = 0 /\ f.scale = 1 /\ f.sent = TRUE
    BY DEF Default, ByteField, Field
<1>5. ASSUME NEW name, NEW v
      PROVE  LET f == PlainField(name, v)
             IN  f.name = name /\ f.kind = "plain" /\ f.default = v /\ f.sent = FALSE
    BY DEF PlainField, Field
<1>6. QED  BY <1>1, <1>2, <1>3, <1>4, <1>5, Zenon

(* The number in an attribute that some bits are read for. *)
LEMMA LegalNumber ==
    ASSUME NEW m, NEW a, AllLegal(m, a), NEW f \in ToSet(m.fields), f.kind = "number"
    PROVE  \E n \in Nat : a[f.name] = <<n>> /\ Below(n, f.width)
<1>1. Legal(f, a[f.name])  BY DEF AllLegal
<1>2. QED  BY <1>1, NumberValue DEF Numbers

(* The widths of these fields. *)
LEMMA BelowPowers ==
    ASSUME NEW n \in Nat
    PROVE  /\ Below(n, 1) => n \in {0, 1}
           /\ Below(n, 4) => n \in 0 .. 15
           /\ Below(n, 5) => n \in 0 .. 31
           /\ Below(n, 7) => n \in 0 .. 127
           /\ Below(n, 8) => n \in 0 .. 255
<1>1. Below(n, 1) => n \in {0, 1}  BY SMT, Powers DEF Below
<1>2. Below(n, 4) => n \in 0 .. 15  BY SMT, Powers DEF Below
<1>3. Below(n, 5) => n \in 0 .. 31  BY SMT, Powers DEF Below
<1>4. Below(n, 7) => n \in 0 .. 127  BY SMT, Powers DEF Below
<1>5. Below(n, 8) => n \in 0 .. 255  BY SMT, Powers DEF Below
<1>6. QED  BY <1>1, <1>2, <1>3, <1>4, <1>5

(* The same of the wider ones. *)
LEMMA BelowWide ==
    ASSUME NEW n \in Nat
    PROVE  (Below(n, 16) => n < 65536) /\ (Below(n, 20) => n < 1048576)
<1> DEFINE p == 2^16
           q == 2^20
<1>1. (Below(n, 16) => n < p) /\ (Below(n, 20) => n < q)  BY Zenon DEF Below
<1>2. p = 65536 /\ q = 1048576  BY SMT, Powers
<1> HIDE DEF p, q
<1>3. QED  BY SMT, <1>1, <1>2

(* A flag of one bit is 0 or 1, *)
LEMMA BitValue ==
    ASSUME NEW m, NEW a, AllLegal(m, a), NEW name, NEW at, NEW lo,
           BitField(name, at, lo, 1) \in ToSet(m.fields)
    PROVE  \E x \in {0, 1} : a[name] = <<x>>
<1> DEFINE f == BitField(name, at, lo, 1)
<1>1. f.name = name /\ f.kind = "number" /\ f.width = 1  BY FieldsOfBits
<1>2. f \in ToSet(m.fields)  OBVIOUS
<1> HIDE DEF f
<1>3. PICK n \in Nat : a[f.name] = <<n>> /\ Below(n, f.width)  BY <1>1, <1>2, LegalNumber
<1>4. Below(n, 1)  BY <1>1, <1>3, Zenon
<1>5. n \in {0, 1}  BY <1>4, BelowPowers
<1>6. QED  BY <1>1, <1>3, <1>5

(* and If() gives its weight. *)
LEMMA FlagOfBit ==
    ASSUME NEW x \in {0, 1}, NEW k \in Int
    PROVE  If(<<x>>, k) = IF x = 0 THEN 0 ELSE k
<1>1. <<x>> = <<0>> <=> x = 0  OBVIOUS
<1>2. QED  BY <1>1 DEF If

(* What is read where the bits of a number are. *)
LEMMA BitsRead ==
    ASSUME NEW f, f.kind = "number", f.offset = 0, f.scale = 1, f.at \in Nat, f.size \in Nat,
           NEW d \in Seq(Int), d # <<>>, f.at + f.size <= Len(d), NEW n \in Int,
           BitsOf(Number(d, f.at, f.size), f.lo, f.width) = n
    PROVE  ReadsAs(f, d, <<n>>)
<1>1. f.kind \in Numbers  BY DEF Numbers
<1>2. Parsed(f, d) = <<n>>  BY <1>1, NumberParsed
<1>3. Len(d) \in Nat  OBVIOUS
<1>4. ~ (Len(d) < f.at + f.size)  BY <1>3
<1>5. ParseError(f, d) = "none"  BY <1>4 DEF ParseError
<1>6. QED  BY <1>2, <1>5 DEF ReadsAs

(* A class that takes any length, or the one it writes, and reads its fields. *)
LEMMA PackedReads ==
    ASSUME NEW m, m.name \in PackedNames, NamesApart(m), NEW a, NEW classic, Writable(m, a, classic),
           NEW d, d = Body(m, a, classic), d # <<>>, m.need = -1 \/ (m.need = 7 /\ Len(d) = 7),
           \A f \in ToSet(m.fields) : f.kind = "plain" \/ ReadsAs(f, d, a[f.name])
    PROVE  ReadsItself(m, a, classic)
<1>1. Refuses(m, m.prio, m.rtr, d) = "none"
    <2>1. ~ (m.need = 0 /\ d # <<>>) /\ ~ (m.need > 0 /\ d = <<>>)  OBVIOUS
    <2>2. ~ (m.need > 0 /\ Len(d) < m.need)
        <3>1. CASE m.need = -1  BY <3>1
        <3>2. CASE m.need = 7 /\ Len(d) = 7
            <4>1. ~ (7 < 7)  OBVIOUS
            <4>2. QED  BY <3>2, <4>1
        <3>3. QED  BY <3>1, <3>2
    <2>3. QED  BY <2>1, <2>2 DEF Refuses
<1>2. ASSUME NEW f \in ToSet(m.fields) PROVE ParseError(f, d) = "none"
    <2>1. CASE f.kind = "plain"  BY <2>1 DEF ParseError
    <2>2. CASE f.kind # "plain"  BY <2>2 DEF ReadsAs
    <2>3. QED  BY <2>1, <2>2
<1>3. m.name # "KwhStatusMessage"  BY DEF PackedNames
<1>4. FieldError(m, d) = "none"  BY <1>2, <1>3, NoFieldFails
<1>5. ASSUME NEW f \in TwoWay(m, classic) PROVE Populated(m, d)[f.name] = a[f.name]
    <2>1. f \in ToSet(m.fields) /\ f.kind # "plain"  BY DEF TwoWay
    <2>2. Parsed(f, d) = a[f.name]  BY <2>1 DEF ReadsAs
    <2>3. QED  BY <2>1, <2>2, PopulatedFrom
<1>6. QED  BY <1>1, <1>4, <1>5 DEF ReadsItself

(* A field of bits reads them in its byte. *)
LEMMA BitRead ==
    ASSUME NEW name, NEW at \in Nat, NEW lo, NEW width, NEW d \in Seq(Int), at + 1 <= Len(d), NEW n \in Int,
           BitsOf(d[at + 1], lo, width) = n
    PROVE  ReadsAs(BitField(name, at, lo, width), d, <<n>>)
<1> DEFINE f == BitField(name, at, lo, width)
<1>1. /\ f.kind = "number" /\ f.at = at /\ f.size = 1 /\ f.lo = lo /\ f.width = width
      /\ f.offset = 0 /\ f.scale = 1
    BY FieldsOfBits
<1>2. d # <<>>
    <2>1. Len(d) \in Nat /\ Len(d) # 0  OBVIOUS
    <2>2. QED  BY <2>1
<1>3. Number(d, at, 1) = d[at + 1]  BY DEF Number
<1> HIDE DEF f
<1>4. f.at \in Nat /\ f.size \in Nat /\ f.at + f.size <= Len(d)  BY <1>1
<1>5. BitsOf(Number(d, f.at, f.size), f.lo, f.width) = n  BY <1>1, <1>3
<1>6. ReadsAs(f, d, <<n>>)  BY <1>1, <1>2, <1>4, <1>5, BitsRead
<1>7. QED  BY <1>6 DEF f

(* What SetEdgeColorMessage packs it reads as its flags and its color. *)
LEMMA EdgeColorReads ==
    ASSUME NEW m, m = SetEdgeColorMessage, NamesApart(m), NEW a, AllLegal(m, a), NEW classic, Writable(m, a, classic)
    PROVE  ReadsItself(m, a, classic) /\ Len(Body(m, a, classic)) = 3
<1> DEFINE F == ToSet(m.fields)
<1>1. /\ m.name = "SetEdgeColorMessage" /\ m.need = -1
      /\ F = {BitField("apply_background_color", 0, 0, 1), BitField("custom_color_palette", 0, 7, 1),
              BitField("apply_to_left_edge", 1, 0, 1), BitField("apply_to_top_edge", 1, 1, 1),
              BitField("apply_to_right_edge", 1, 2, 1), BitField("apply_to_bottom_edge", 1, 3, 1),
              BitField("color_idx", 2, 0, 5),
              PlainField("apply_continuous_feedback_color", <<0>>), PlainField("apply_to_all_pages", <<0>>),
              PlainField("background_blinking", <<0>>), PlainField("custom_color_priority", <<1>>)}
    BY EdgeColor
<1>2. PICK bg \in {0, 1} : a["apply_background_color"] = <<bg>>  BY <1>1, BitValue
<1>3. PICK pal \in {0, 1} : a["custom_color_palette"] = <<pal>>  BY <1>1, BitValue
<1>4. PICK left \in {0, 1} : a["apply_to_left_edge"] = <<left>>  BY <1>1, BitValue
<1>5. PICK top \in {0, 1} : a["apply_to_top_edge"] = <<top>>  BY <1>1, BitValue
<1>6. PICK right \in {0, 1} : a["apply_to_right_edge"] = <<right>>  BY <1>1, BitValue
<1>7. PICK bottom \in {0, 1} : a["apply_to_bottom_edge"] = <<bottom>>  BY <1>1, BitValue
<1>8. PICK idx \in 0 .. 31 : a["color_idx"] = <<idx>>
    <2> DEFINE f == BitField("color_idx", 2, 0, 5)
    <2>1. f \in F  BY <1>1
    <2>2. f.name = "color_idx" /\ f.kind = "number" /\ f.width = 5  BY FieldsOfBits
    <2> HIDE DEF f
    <2>3. PICK n \in Nat : a[f.name] = <<n>> /\ Below(n, f.width)  BY <2>1, <2>2, LegalNumber
    <2>4. Below(n, 5)  BY <2>2, <2>3, Zenon
    <2>5. n \in 0 .. 31  BY <2>4, BelowPowers
    <2>6. QED  BY <2>2, <2>3, <2>5
<1>9. PICK prio \in Int : a["custom_color_priority"] = <<prio>>
    <2> DEFINE f == PlainField("custom_color_priority", <<1>>)
    <2>1. f \in F  BY <1>1
    <2>2. f.name = "custom_color_priority" /\ f.kind = "plain"  BY FieldsOfBits
    <2> HIDE DEF f
    <2>3. Legal(f, a[f.name])  BY <2>1 DEF AllLegal
    <2>4. a["custom_color_priority"] \in Seq(Int) /\ Len(a["custom_color_priority"]) = 1
        BY <2>2, <2>3 DEF Legal
    <2>5. QED  BY <2>4, Single
<1> DEFINE cont == If(a["apply_continuous_feedback_color"], 2)
           all == If(a["apply_to_all_pages"], 128)
           blink == If(a["background_blinking"], 128)
           b1 == 128 * pal + bg + cont
           b2 == all + 8 * bottom + 4 * right + 2 * top + left
           b3 == blink + 32 * prio + (idx % 32)
           d == Body(m, a, classic)
<1>10. cont \in {0, 2} /\ all \in {0, 128} /\ blink \in {0, 128}  BY DEF If
<1>11. d = Packed("SetEdgeColorMessage", a)  BY <1>1 DEF Body, PackedNames
<1>12. d = <<If(a["custom_color_palette"], 128) + If(a["apply_background_color"], 1) + cont,
             all + If(a["apply_to_bottom_edge"], 8)
               + If(a["apply_to_right_edge"], 4) + If(a["apply_to_top_edge"], 2) + If(a["apply_to_left_edge"], 1),
             blink + 32 * a["custom_color_priority"][1] + (a["color_idx"][1] % 32)>>
    BY <1>11 DEF Packed
<1> HIDE DEF cont, all, blink
<1>13. d = <<b1, b2, b3>>
    <2>1. If(a["custom_color_palette"], 128) + If(a["apply_background_color"], 1) + cont = b1
        <3>1. If(<<pal>>, 128) = 128 * pal /\ If(<<bg>>, 1) = bg  BY FlagOfBit
        <3>2. QED  BY <1>2, <1>3, <3>1
    <2>2. all + If(a["apply_to_bottom_edge"], 8)
            + If(a["apply_to_right_edge"], 4) + If(a["apply_to_top_edge"], 2) + If(a["apply_to_left_edge"], 1) = b2
        <3>1. /\ If(<<bottom>>, 8) = 8 * bottom /\ If(<<right>>, 4) = 4 * right
              /\ If(<<top>>, 2) = 2 * top /\ If(<<left>>, 1) = left
            BY FlagOfBit
        <3>2. QED  BY <1>4, <1>5, <1>6, <1>7, <3>1
    <2>3. blink + 32 * a["custom_color_priority"][1] + (a["color_idx"][1] % 32) = b3  BY <1>8, <1>9
    <2>4. QED  BY <1>12, <2>1, <2>2, <2>3
<1>14. b1 \in Int /\ b2 \in Int /\ b3 \in Int  BY <1>10
<1>15. /\ BitsOf(b1, 0, 1) = bg /\ BitsOf(b1, 7, 1) = pal
       /\ BitsOf(b2, 0, 1) = left /\ BitsOf(b2, 1, 1) = top /\ BitsOf(b2, 2, 1) = right /\ BitsOf(b2, 3, 1) = bottom
       /\ BitsOf(b3, 0, 5) = idx
    <2>1. bg \in {0, 1} /\ pal \in {0, 1} /\ cont \in {0, 2}  BY <1>2, <1>3, <1>10
    <2>2. /\ left \in {0, 1} /\ top \in {0, 1} /\ right \in {0, 1} /\ bottom \in {0, 1}
          /\ all \in {0, 128}
        BY <1>4, <1>5, <1>6, <1>7, <1>10
    <2>3. idx \in 0 .. 31 /\ blink \in {0, 128} /\ prio \in Int  BY <1>8, <1>9, <1>10
    <2>4. (b1 \div 1) % 2 = bg /\ (b1 \div 128) % 2 = pal  BY <2>1
    <2>5. (b2 \div 1) % 2 = left  BY <2>2
    <2>6. (b2 \div 2) % 2 = top  BY <2>2
    <2>7. (b2 \div 4) % 2 = right  BY <2>2
    <2>8. (b2 \div 8) % 2 = bottom  BY <2>2
    <2>9. (b3 \div 1) % 32 = idx  BY <2>3
    <2> HIDE DEF b1, b2, b3
    <2>10. BitsOf(b1, 0, 1) = bg /\ BitsOf(b1, 7, 1) = pal  BY <2>4, Powers DEF BitsOf
    <2>11. BitsOf(b2, 0, 1) = left /\ BitsOf(b2, 1, 1) = top  BY <2>5, <2>6, Powers DEF BitsOf
    <2>12. BitsOf(b2, 2, 1) = right /\ BitsOf(b2, 3, 1) = bottom  BY <2>7, <2>8, Powers DEF BitsOf
    <2>13. BitsOf(b3, 0, 5) = idx  BY <2>9, Powers DEF BitsOf
    <2>14. QED  BY <2>10, <2>11, <2>12, <2>13
<1> HIDE DEF b1, b2, b3, d
<1>16. d \in Seq(Int) /\ Len(d) = 3 /\ d[1] = b1 /\ d[2] = b2 /\ d[3] = b3 /\ d # <<>>  BY <1>13, <1>14
<1>17. /\ d[0 + 1] = b1 /\ d[1 + 1] = b2 /\ d[2 + 1] = b3 /\ 0 + 1 <= Len(d) /\ 1 + 1 <= Len(d) /\ 2 + 1 <= Len(d)
       /\ bg \in Int /\ pal \in Int /\ left \in Int /\ top \in Int /\ right \in Int /\ bottom \in Int
       /\ idx \in Int
    BY <1>2, <1>3, <1>4, <1>5, <1>6, <1>7, <1>8, <1>16
<1>18. ReadsAs(BitField("apply_background_color", 0, 0, 1), d, <<bg>>)  BY <1>15, <1>16, <1>17, BitRead
<1>19. ReadsAs(BitField("custom_color_palette", 0, 7, 1), d, <<pal>>)  BY <1>15, <1>16, <1>17, BitRead
<1>20. ReadsAs(BitField("apply_to_left_edge", 1, 0, 1), d, <<left>>)  BY <1>15, <1>16, <1>17, BitRead
<1>21. ReadsAs(BitField("apply_to_top_edge", 1, 1, 1), d, <<top>>)  BY <1>15, <1>16, <1>17, BitRead
<1>22. ReadsAs(BitField("apply_to_right_edge", 1, 2, 1), d, <<right>>)  BY <1>15, <1>16, <1>17, BitRead
<1>23. ReadsAs(BitField("apply_to_bottom_edge", 1, 3, 1), d, <<bottom>>)  BY <1>15, <1>16, <1>17, BitRead
<1>24. ReadsAs(BitField("color_idx", 2, 0, 5), d, <<idx>>)  BY <1>15, <1>16, <1>17, BitRead
<1>25. \A f \in F : f.kind = "plain" \/ ReadsAs(f, d, a[f.name])
    BY <1>1, <1>2, <1>3, <1>4, <1>5, <1>6, <1>7, <1>8, <1>18, <1>19, <1>20, <1>21, <1>22, <1>23, <1>24,
       FieldsOfBits
<1>26. m.name \in PackedNames  BY <1>1 DEF PackedNames
<1>27. ReadsItself(m, a, classic)  BY <1>1, <1>16, <1>25, <1>26, PackedReads DEF d
<1>28. QED  BY <1>16, <1>27 DEF d

(* SetCustomColorMessage takes what it packs. *)
LEMMA CustomColorReads ==
    ASSUME NEW m, m = SetCustomColorMessage, NamesApart(m), NEW a, NEW classic, Writable(m, a, classic)
    PROVE  ReadsItself(m, a, classic) /\ Len(Body(m, a, classic)) = 5
<1> DEFINE F == ToSet(m.fields)
           d == Body(m, a, classic)
<1>1. /\ m.name = "SetCustomColorMessage" /\ m.need = -1
      /\ F = {PlainField("palette_idx", <<0>>), PlainField("white_mode", <<0>>), PlainField("saturation", <<127>>),
              PlainField("red", <<0>>), PlainField("green", <<0>>), PlainField("blue", <<0>>)}
    BY CustomColor
<1>2. d = Packed("SetCustomColorMessage", a)  BY <1>1 DEF Body, PackedNames
<1>3. Len(d) = 5 /\ d # <<>>  BY <1>2 DEF Packed
<1>4. \A f \in F : f.kind = "plain"  BY <1>1, FieldsOfBits
<1>5. m.name \in PackedNames  BY <1>1 DEF PackedNames
<1> HIDE DEF d
<1>6. ReadsItself(m, a, classic)  BY <1>1, <1>3, <1>4, <1>5, PackedReads DEF d
<1>7. QED  BY <1>3, <1>6 DEF d

(* The lowest eight bits of a byte are the byte. *)
LEMMA LowByte ==
    ASSUME NEW n \in 0 .. 255
    PROVE  BitsOf(n, 0, 8) = n
<1>1. n \div 1 = n  OBVIOUS
<1>2. n % 256 = n  OBVIOUS
<1>3. QED  BY <1>1, <1>2, Powers DEF BitsOf

IsByte(f, at) ==
    /\ f.kind = "number" /\ f.at = at /\ f.size = 1 /\ f.lo = 0 /\ f.width = 8
    /\ f.offset = 0 /\ f.scale = 1

(* A field of a whole byte reads it. *)
LEMMA ByteRead ==
    ASSUME NEW f, NEW at \in Nat, IsByte(f, at),
           NEW d \in Seq(Int), at + 1 <= Len(d), NEW n \in Int, n \in Octet, d[at + 1] = n
    PROVE  ReadsAs(f, d, <<n>>)
<1>1. d # <<>>
    <2>1. Len(d) \in Nat /\ Len(d) # 0  OBVIOUS
    <2>2. QED  BY <2>1
<1>2. /\ f.kind = "number" /\ f.at = at /\ f.size = 1 /\ f.lo = 0 /\ f.width = 8
      /\ f.offset = 0 /\ f.scale = 1
    BY DEF IsByte
<1>3. Number(d, f.at, f.size) = n  BY <1>2 DEF Number
<1>4. f.at \in Nat /\ f.size \in Nat /\ f.at + f.size <= Len(d) /\ n \in Int  BY <1>2
<1>5. BitsOf(Number(d, f.at, f.size), f.lo, f.width) = n
    <2>1. n \in 0 .. 255  BY DEF Octet
    <2>2. QED  BY <1>2, <1>3, <2>1, LowByte
<1>6. QED  BY <1>1, <1>2, <1>4, <1>5, BitsRead

(* What EdgeSetCustomColor packs fits its bytes, and it reads it as its attributes. *)
LEMMA EdgeCustomReads ==
    ASSUME NEW m, m = EdgeSetCustomColor, NamesApart(m), NEW a, AllLegal(m, a), NEW classic
    PROVE  /\ Writable(m, a, classic) /\ ReadsItself(m, a, classic) /\ Len(Body(m, a, classic)) = 5
<1> DEFINE F == ToSet(m.fields)
           d == Body(m, a, classic)
<1>1. /\ m.name = "EdgeSetCustomColor" /\ m.need = -1
      /\ F = {Default(ByteField("pallet", 0), <<31>>), BitField("rgb", 1, 7, 1), BitField("saturation", 1, 0, 7),
              ByteField("red", 2), ByteField("green", 3), ByteField("blue", 4)}
    BY EdgeCustom
<1>2. ASSUME NEW f \in F, f.kind = "number", f.width = 8 PROVE \E n \in 0 .. 255 : a[f.name] = <<n>>
    <2>1. PICK n \in Nat : a[f.name] = <<n>> /\ Below(n, f.width)  BY <1>2, LegalNumber
    <2>2. Below(n, 8)  BY <1>2, <2>1, Zenon
    <2>3. n \in 0 .. 255  BY <2>2, BelowPowers
    <2>4. QED  BY <2>1, <2>3
<1> DEFINE f1 == Default(ByteField("pallet", 0), <<31>>)
           f4 == ByteField("red", 2)
           f5 == ByteField("green", 3)
           f6 == ByteField("blue", 4)
<1>3. /\ f1.name = "pallet" /\ f1.kind = "number" /\ f1.at = 0 /\ f1.size = 1 /\ f1.lo = 0 /\ f1.width = 8
      /\ f1.offset = 0 /\ f1.scale = 1 /\ f1 \in F
    BY <1>1, FieldsOfBits
<1>4. /\ f4.name = "red" /\ f4.kind = "number" /\ f4.at = 2 /\ f4.size = 1 /\ f4.lo = 0 /\ f4.width = 8
      /\ f4.offset = 0 /\ f4.scale = 1 /\ f4 \in F
    BY <1>1, FieldsOfBits
<1>5. /\ f5.name = "green" /\ f5.kind = "number" /\ f5.at = 3 /\ f5.size = 1 /\ f5.lo = 0 /\ f5.width = 8
      /\ f5.offset = 0 /\ f5.scale = 1 /\ f5 \in F
    BY <1>1, FieldsOfBits
<1>6. /\ f6.name = "blue" /\ f6.kind = "number" /\ f6.at = 4 /\ f6.size = 1 /\ f6.lo = 0 /\ f6.width = 8
      /\ f6.offset = 0 /\ f6.scale = 1 /\ f6 \in F
    BY <1>1, FieldsOfBits
<1>7. F = {f1, BitField("rgb", 1, 7, 1), BitField("saturation", 1, 0, 7), f4, f5, f6}  BY <1>1
<1> HIDE DEF f1, f4, f5, f6
<1>8. PICK pallet \in 0 .. 255 : a["pallet"] = <<pallet>>  BY <1>2, <1>3
<1>9. PICK red \in 0 .. 255 : a["red"] = <<red>>  BY <1>2, <1>4
<1>10. PICK green \in 0 .. 255 : a["green"] = <<green>>  BY <1>2, <1>5
<1>11. PICK blue \in 0 .. 255 : a["blue"] = <<blue>>  BY <1>2, <1>6
<1>12. PICK rgb \in {0, 1} : a["rgb"] = <<rgb>>  BY <1>1, BitValue
<1>13. PICK sat \in 0 .. 127 : a["saturation"] = <<sat>>
    <2> DEFINE f == BitField("saturation", 1, 0, 7)
    <2>1. f \in F  BY <1>1
    <2>2. f.name = "saturation" /\ f.kind = "number" /\ f.width = 7  BY FieldsOfBits
    <2> HIDE DEF f
    <2>3. PICK n \in Nat : a[f.name] = <<n>> /\ Below(n, f.width)  BY <2>1, <2>2, LegalNumber
    <2>4. Below(n, 7)  BY <2>2, <2>3, Zenon
    <2>5. n \in 0 .. 127  BY <2>4, BelowPowers
    <2>6. QED  BY <2>2, <2>3, <2>5
<1> DEFINE b == 128 * rgb + sat
<1>14. d = Packed("EdgeSetCustomColor", a)  BY <1>1 DEF Body, PackedNames
<1>15. d = <<pallet, b, red, green, blue>>
    <2>1. d = <<a["pallet"][1], 128 * a["rgb"][1] + a["saturation"][1], a["red"][1], a["green"][1], a["blue"][1]>>
        BY <1>14 DEF Packed
    <2>2. QED  BY <1>8, <1>9, <1>10, <1>11, <1>12, <1>13, <2>1
<1>16. b \in 0 .. 255 /\ BitsOf(b, 7, 1) = rgb /\ BitsOf(b, 0, 7) = sat
    <2>1. rgb \in {0, 1} /\ sat \in 0 .. 127  BY <1>12, <1>13
    <2>2. b \in 0 .. 255 /\ (b \div 128) % 2 = rgb  BY <2>1
    <2>3. (b \div 1) % 128 = sat  BY <2>1
    <2> HIDE DEF b
    <2>4. QED  BY <2>2, <2>3, Powers DEF BitsOf
<1> HIDE DEF b, d
<1>17. /\ d \in Seq(Int) /\ d \in Seq(0 .. 255) /\ Len(d) = 5 /\ d # <<>>
       /\ d[1] = pallet /\ d[2] = b /\ d[3] = red /\ d[4] = green /\ d[5] = blue
    BY <1>8, <1>9, <1>10, <1>11, <1>15, <1>16
<1>18. ReadsAs(BitField("rgb", 1, 7, 1), d, <<rgb>>)
    <2>1. d[1 + 1] = b /\ 1 + 1 <= Len(d) /\ rgb \in Int  BY <1>12, <1>17
    <2>2. QED  BY <1>16, <1>17, <2>1, BitRead
<1>19. ReadsAs(BitField("saturation", 1, 0, 7), d, <<sat>>)
    <2>1. d[1 + 1] = b /\ 1 + 1 <= Len(d) /\ sat \in Int  BY <1>13, <1>17
    <2>2. QED  BY <1>16, <1>17, <2>1, BitRead
<1>20. ReadsAs(f1, d, <<pallet>>)
    <2>1. PICK at \in Nat : at = 0  OBVIOUS
    <2>2. IsByte(f1, at)  BY <1>3, <2>1 DEF IsByte
    <2>3. d \in Seq(Int) /\ d[at + 1] = pallet /\ at + 1 <= Len(d)  BY <1>17, <2>1
    <2>4. pallet \in Int /\ pallet \in Octet  BY <1>8 DEF Octet
    <2>5. QED  BY <2>2, <2>3, <2>4, ByteRead
<1>21. ReadsAs(f4, d, <<red>>)
    <2>1. PICK at \in Nat : at = 2  OBVIOUS
    <2>2. IsByte(f4, at)  BY <1>4, <2>1 DEF IsByte
    <2>3. d \in Seq(Int) /\ d[at + 1] = red /\ at + 1 <= Len(d)  BY <1>17, <2>1
    <2>4. red \in Int /\ red \in Octet  BY <1>9 DEF Octet
    <2>5. QED  BY <2>2, <2>3, <2>4, ByteRead
<1>22. ReadsAs(f5, d, <<green>>)
    <2>1. PICK at \in Nat : at = 3  OBVIOUS
    <2>2. IsByte(f5, at)  BY <1>5, <2>1 DEF IsByte
    <2>3. d \in Seq(Int) /\ d[at + 1] = green /\ at + 1 <= Len(d)  BY <1>17, <2>1
    <2>4. green \in Int /\ green \in Octet  BY <1>10 DEF Octet
    <2>5. QED  BY <2>2, <2>3, <2>4, ByteRead
<1>23. ReadsAs(f6, d, <<blue>>)
    <2>1. PICK at \in Nat : at = 4  OBVIOUS
    <2>2. IsByte(f6, at)  BY <1>6, <2>1 DEF IsByte
    <2>3. d \in Seq(Int) /\ d[at + 1] = blue /\ at + 1 <= Len(d)  BY <1>17, <2>1
    <2>4. blue \in Int /\ blue \in Octet  BY <1>11 DEF Octet
    <2>5. QED  BY <2>2, <2>3, <2>4, ByteRead
<1>24. \A f \in F : ReadsAs(f, d, a[f.name])
    BY <1>3, <1>4, <1>5, <1>6, <1>7, <1>8, <1>9, <1>10, <1>11, <1>12, <1>13,
       <1>18, <1>19, <1>20, <1>21, <1>22, <1>23, FieldsOfBits
<1>25. m.name \in PackedNames  BY <1>1 DEF PackedNames
<1>26. Writable(m, a, classic)
    <2>1. \A i \in DOMAIN d : d[i] \in Octet
        <3>1. DOMAIN d = 1 .. Len(d)  BY <1>17, LenProperties
        <3>2. QED  BY <1>17, <3>1, ElementOfSeq DEF Octet
    <2>2. ToSet(d) \subseteq Octet  BY <2>1 DEF ToSet
    <2>3. QED  BY <1>1, <1>14, <1>25, <2>2 DEF Writable
<1>27. ReadsItself(m, a, classic)  BY <1>1, <1>17, <1>24, <1>25, <1>26, PackedReads DEF d
<1>28. QED  BY <1>17, <1>26, <1>27 DEF d

(* A number in the bytes from a place on. *)
IsNumber(f, at, size, lo, width) ==
    /\ f.kind = "number" /\ f.at = at /\ f.size = size /\ f.lo = lo /\ f.width = width
    /\ f.offset = 0 /\ f.scale = 1

Finds(d, at, size, lo, width, n) ==
    /\ at \in Nat /\ size \in Nat /\ at + size <= Len(d)
    /\ BitsOf(Number(d, at, size), lo, width) = n

(* A field of several bytes reads the number Finds says is there. *)
LEMMA ReadsNumber ==
    ASSUME NEW f, NEW at, NEW size, NEW lo, NEW width, IsNumber(f, at, size, lo, width),
           NEW d \in Seq(Int), d # <<>>, NEW n \in Int, Finds(d, at, size, lo, width, n)
    PROVE  ReadsAs(f, d, <<n>>)
<1>1. /\ f.kind = "number" /\ f.at = at /\ f.size = size /\ f.lo = lo /\ f.width = width
      /\ f.offset = 0 /\ f.scale = 1
    BY DEF IsNumber
<1>2. f.at \in Nat /\ f.size \in Nat /\ f.at + f.size <= Len(d)  BY <1>1 DEF Finds
<1>3. BitsOf(Number(d, f.at, f.size), f.lo, f.width) = n  BY <1>1 DEF Finds
<1>4. QED  BY <1>1, <1>2, <1>3, BitsRead

(* Twenty bits in three bytes, the four above them in the first. *)
FirstByte(c, w) == 16 * BitsOf(c, 0, 4) + BitsOf(w, 16, 4)
HighByte(n) == BitsOf(n, 8, 8)
LowByteOf(n) == BitsOf(n, 0, 8)

(* The bytes PsuValuesMessage packs: four and four bits, and the bytes of three
   numbers.                                                                 *)
LEMMA BytesOf ==
    ASSUME NEW n \in Nat
    PROVE  /\ HighByte(n) = (n \div 256) % 256 /\ LowByteOf(n) = n % 256
           /\ HighByte(n) \in 0 .. 255 /\ LowByteOf(n) \in 0 .. 255
<1>1. 2^8 = 256 /\ 2^0 = 1  BY SMT, Powers
<1>2. n \div 1 = n  BY SMT
<1>3. HighByte(n) = (n \div 256) % 256  BY SMT, <1>1 DEF HighByte, BitsOf
<1>4. LowByteOf(n) = (n \div 1) % 256  BY SMT, <1>1 DEF LowByteOf, BitsOf
<1>5. (n \div 256) % 256 \in 0 .. 255 /\ n % 256 \in 0 .. 255  BY SMT
<1>6. QED  BY <1>2, <1>3, <1>4, <1>5

(* The twenty bits of the power lie in the low half of the first byte and in
   the next two; the channel is in the high half.                           *)
LEMMA TwentyBits ==
    ASSUME NEW c \in Nat, Below(c, 4), NEW w \in Nat, Below(w, 20)
    PROVE  /\ FirstByte(c, w) \in 0 .. 255 /\ BitsOf(FirstByte(c, w), 4, 4) = c
           /\ BitsOf(65536 * FirstByte(c, w) + 256 * HighByte(w) + LowByteOf(w), 0, 20) = w
<1> DEFINE h == w \div 65536
           b == 16 * c + h
           q == w \div 256
           n == 65536 * b + 256 * (q % 256) + (w % 256)
<1>1. h \in 0 .. 15 /\ c \in 0 .. 15
    <2>1. w < 1048576  BY SMT, BelowWide
    <2>2. c \in 0 .. 15  BY SMT, BelowPowers
    <2>3. QED  BY SMT, <2>1, <2>2
<1>2. q \in Nat /\ w = 65536 * h + 256 * (q % 256) + (w % 256)
    <2>1. q \in Nat /\ w = 256 * q + (w % 256)  BY SMT
    <2>2. q = 256 * (q \div 256) + (q % 256)  BY SMT, <2>1
    <2>3. q \div 256 = h
        <3>1. h = (w \div 256) \div 256  BY SMT
        <3>2. QED  BY SMT, <3>1
    <2> HIDE DEF q
    <2>4. w = 256 * (256 * h + (q % 256)) + (w % 256)  BY SMT, <2>1, <2>2, <2>3
    <2>5. q % 256 \in Int /\ w % 256 \in Int  BY SMT, <2>1
    <2>6. w = 65536 * h + 256 * (q % 256) + (w % 256)  BY SMT, <1>1, <2>4, <2>5
    <2>7. QED  BY SMT, <2>1, <2>6
<1>3. HighByte(w) = q % 256 /\ LowByteOf(w) = w % 256  BY SMT, BytesOf
<1>4. FirstByte(c, w) = b
    <2>1. 2^16 = 65536 /\ 2^4 = 16 /\ 2^0 = 1  BY SMT, Powers
    <2>2. BitsOf(c, 0, 4) = (c \div 1) % 16  BY SMT, <2>1 DEF BitsOf
    <2>3. c \div 1 = c /\ c % 16 = c  BY SMT, <1>1
    <2>4. BitsOf(w, 16, 4) = h % 16  BY SMT, <2>1 DEF BitsOf
    <2> HIDE DEF h
    <2>5. h % 16 = h  BY SMT, <1>1
    <2>6. QED  BY SMT, <2>2, <2>3, <2>4, <2>5 DEF FirstByte
<1> HIDE DEF h, q
<1>5. b \in 0 .. 255 /\ (b \div 16) % 16 = c  BY SMT, <1>1
<1>6. n = 1048576 * c + w
    <2> DEFINE x == 256 * (q % 256)
               y == w % 256
    <2>1. x \in Int /\ y \in Int  BY SMT, <1>2
    <2>2. w = 65536 * h + x + y /\ n = 65536 * b + x + y  BY SMT, <1>2
    <2> HIDE DEF x, y, n
    <2>3. QED  BY SMT, <1>1, <2>1, <2>2
<1>7. n \in Nat /\ n % 1048576 = w
    <2>1. w < 1048576  BY SMT, BelowWide
    <2> HIDE DEF n
    <2>2. QED  BY SMT, <1>6, <2>1
<1>8. 65536 * FirstByte(c, w) + 256 * HighByte(w) + LowByteOf(w) = n  BY SMT, <1>3, <1>4
<1> HIDE DEF b, n
<1>9. BitsOf(b, 4, 4) = c
    <2>1. 2^4 = 16  BY SMT, Powers
    <2>2. QED  BY SMT, <1>5, <2>1 DEF BitsOf
<1>10. BitsOf(n, 0, 20) = w
    <2>1. 2^20 = 1048576 /\ 2^0 = 1  BY SMT, Powers
    <2>2. n \div 1 = n  BY SMT, <1>7
    <2>3. BitsOf(n, 0, 20) = (n \div 1) % 1048576  BY SMT, <2>1 DEF BitsOf
    <2>4. QED  BY SMT, <1>7, <2>2, <2>3
<1>11. QED  BY SMT, <1>4, <1>5, <1>8, <1>9, <1>10

(* Voltage and current take two bytes each. *)
LEMMA SixteenBits ==
    ASSUME NEW n \in Nat, Below(n, 16)
    PROVE  BitsOf(256 * HighByte(n) + LowByteOf(n), 0, 16) = n
<1>1. n < 65536  BY SMT, BelowWide
<1>2. 256 * HighByte(n) + LowByteOf(n) = n
    <2>1. HighByte(n) = (n \div 256) % 256 /\ LowByteOf(n) = n % 256  BY BytesOf
    <2>2. n = 256 * ((n \div 256) % 256) + (n % 256)  BY SMT, <1>1
    <2>3. QED  BY <2>1, <2>2
<1>3. (n \div 1) % 65536 = n
    <2>1. n \div 1 = n  BY SMT
    <2>2. QED  BY SMT, <1>1, <2>1
<1>4. 2^16 = 65536 /\ 2^0 = 1  BY SMT, Powers
<1>5. BitsOf(n, 0, 16) = (n \div 1) % 65536  BY SMT, <1>4 DEF BitsOf
<1>6. QED  BY SMT, <1>2, <1>3, <1>5

(* What PsuValuesMessage packs fits its seven bytes, and it reads it as its
   attributes.                                                              *)
LEMMA PsuReads ==
    ASSUME NEW m, m = PsuValuesMessage, NamesApart(m), NEW a, AllLegal(m, a), NEW classic
    PROVE  /\ Writable(m, a, classic) /\ ReadsItself(m, a, classic) /\ Len(Body(m, a, classic)) = 7
<1> DEFINE F == ToSet(m.fields)
           d == Body(m, a, classic)
           f1 == ComputedField("channel", 0, 1, 4, 4)
           f2 == ComputedField("watt", 0, 3, 0, 20)
           f3 == ComputedField("volt", 3, 2, 0, 16)
           f4 == ComputedField("amp", 5, 2, 0, 16)
<1>1. m.name = "PsuValuesMessage" /\ m.need = 7 /\ F = {f1, f2, f3, f4}  BY PsuValues
<1>2. /\ f1.name = "channel" /\ f1.kind = "number" /\ f1.width = 4 /\ IsNumber(f1, 0, 1, 4, 4)
      /\ f2.name = "watt" /\ f2.kind = "number" /\ f2.width = 20 /\ IsNumber(f2, 0, 3, 0, 20)
      /\ f3.name = "volt" /\ f3.kind = "number" /\ f3.width = 16 /\ IsNumber(f3, 3, 2, 0, 16)
      /\ f4.name = "amp" /\ f4.kind = "number" /\ f4.width = 16 /\ IsNumber(f4, 5, 2, 0, 16)
    BY FieldsOfBits DEF IsNumber
<1> HIDE DEF f1, f2, f3, f4, d
<1>3. PICK c \in Nat : a["channel"] = <<c>> /\ Below(c, 4)
    <2>1. PICK n \in Nat : a[f1.name] = <<n>> /\ Below(n, f1.width)  BY <1>1, <1>2, LegalNumber
    <2>2. QED  BY <1>2, <2>1, Zenon
<1>4. PICK w \in Nat : a["watt"] = <<w>> /\ Below(w, 20)
    <2>1. PICK n \in Nat : a[f2.name] = <<n>> /\ Below(n, f2.width)  BY <1>1, <1>2, LegalNumber
    <2>2. QED  BY <1>2, <2>1, Zenon
<1>5. PICK v \in Nat : a["volt"] = <<v>> /\ Below(v, 16)
    <2>1. PICK n \in Nat : a[f3.name] = <<n>> /\ Below(n, f3.width)  BY <1>1, <1>2, LegalNumber
    <2>2. QED  BY <1>2, <2>1, Zenon
<1>6. PICK i \in Nat : a["amp"] = <<i>> /\ Below(i, 16)
    <2>1. PICK n \in Nat : a[f4.name] = <<n>> /\ Below(n, f4.width)  BY <1>1, <1>2, LegalNumber
    <2>2. QED  BY <1>2, <2>1, Zenon
<1> DEFINE b == FirstByte(c, w)
           w1 == HighByte(w)
           w2 == LowByteOf(w)
           v1 == HighByte(v)
           v2 == LowByteOf(v)
           i1 == HighByte(i)
           i2 == LowByteOf(i)
<1>7. d = Packed("PsuValuesMessage", a)  BY <1>1 DEF d, Body, PackedNames
<1>8. d = <<b, w1, w2, v1, v2, i1, i2>>
    <2>1. d = <<FirstByte(a["channel"][1], a["watt"][1]), HighByte(a["watt"][1]), LowByteOf(a["watt"][1]),
               HighByte(a["volt"][1]), LowByteOf(a["volt"][1]), HighByte(a["amp"][1]), LowByteOf(a["amp"][1])>>
        BY <1>7 DEF Packed, FirstByte, HighByte, LowByteOf
    <2>2. a["channel"][1] = c /\ a["watt"][1] = w /\ a["volt"][1] = v /\ a["amp"][1] = i
        BY <1>3, <1>4, <1>5, <1>6
    <2>3. QED  BY <2>1, <2>2
<1>9. /\ b \in 0 .. 255 /\ BitsOf(b, 4, 4) = c
      /\ BitsOf(65536 * b + 256 * w1 + w2, 0, 20) = w
    BY SMT, <1>3, <1>4, TwentyBits
<1>10. BitsOf(256 * v1 + v2, 0, 16) = v  BY <1>5, SixteenBits
<1>11. BitsOf(256 * i1 + i2, 0, 16) = i  BY <1>6, SixteenBits
<1>12. /\ w1 \in 0 .. 255 /\ w2 \in 0 .. 255 /\ v1 \in 0 .. 255 /\ v2 \in 0 .. 255
       /\ i1 \in 0 .. 255 /\ i2 \in 0 .. 255
    BY <1>4, <1>5, <1>6, BytesOf
<1> HIDE DEF b, w1, w2, v1, v2, i1, i2
<1>13. /\ d \in Seq(Int) /\ Len(d) = 7 /\ d # <<>> /\ d[1] = b /\ d[2] = w1 /\ d[3] = w2
       /\ d[4] = v1 /\ d[5] = v2 /\ d[6] = i1 /\ d[7] = i2
    BY <1>8, <1>9, <1>12
<1>14. Number(d, 0, 1) = b  BY <1>13 DEF Number
<1>15. Number(d, 0, 3) = 65536 * b + 256 * w1 + w2  BY SMT, <1>13 DEF Number
<1>16. Number(d, 3, 2) = 256 * v1 + v2 /\ Number(d, 5, 2) = 256 * i1 + i2  BY SMT, <1>13 DEF Number
<1>17. 0 + 1 <= Len(d) /\ 0 + 3 <= Len(d) /\ 3 + 2 <= Len(d) /\ 5 + 2 <= Len(d)  BY <1>13
<1>18. ReadsAs(f1, d, <<c>>)
    <2>1. Finds(d, 0, 1, 4, 4, c)  BY <1>9, <1>14, <1>17 DEF Finds
    <2>2. QED  BY <1>2, <1>3, <1>13, <2>1, ReadsNumber
<1>19. ReadsAs(f2, d, <<w>>)
    <2>1. Finds(d, 0, 3, 0, 20, w)  BY SMT, <1>9, <1>15, <1>17 DEF Finds
    <2>2. QED  BY <1>2, <1>4, <1>13, <2>1, ReadsNumber
<1>20. ReadsAs(f3, d, <<v>>)
    <2>1. Finds(d, 3, 2, 0, 16, v)  BY <1>10, <1>16, <1>17 DEF Finds
    <2>2. QED  BY <1>2, <1>5, <1>13, <2>1, ReadsNumber
<1>21. ReadsAs(f4, d, <<i>>)
    <2>1. Finds(d, 5, 2, 0, 16, i)  BY <1>11, <1>16, <1>17 DEF Finds
    <2>2. QED  BY <1>2, <1>6, <1>13, <2>1, ReadsNumber
<1>22. \A f \in F : ReadsAs(f, d, a[f.name])
    BY <1>1, <1>2, <1>3, <1>4, <1>5, <1>6, <1>18, <1>19, <1>20, <1>21
<1>23. m.name \in PackedNames  BY <1>1 DEF PackedNames
<1>24. Writable(m, a, classic)
    <2>1. \A j \in DOMAIN d : d[j] \in Octet
        <3>1. d \in Seq(Octet)  BY <1>8, <1>9, <1>12 DEF Octet
        <3>2. DOMAIN d = 1 .. Len(d)  BY <1>13, LenProperties
        <3>3. QED  BY <3>1, <3>2, ElementOfSeq
    <2>2. ToSet(d) \subseteq Octet  BY <2>1 DEF ToSet
    <2>3. QED  BY <1>1, <1>7, <1>23, <2>2 DEF Writable
<1>25. ReadsItself(m, a, classic)  BY <1>1, <1>13, <1>22, <1>23, <1>24, PackedReads DEF d
<1>26. QED  BY <1>13, <1>24, <1>25 DEF d

(* The attributes of a message that is built, and of one that was received. *)
LEMMA PackedSamples ==
    ASSUME NEW m \in Classes, m.sends, m.name \in PackedNames, NamesApart(m), ToSet(m.out) \subseteq ToSet(m.fields),
           NEW a \in Assignments(m), NEW f \in ToSet(m.fields)
    PROVE  a[f.name] # <<>> /\ ((f.sent => Encodable(f, a[f.name])) => Legal(f, a[f.name]))
<1>1. \A g \in ToSet(m.fields) : g.name = f.name => g = f  BY DEF NamesApart
<1>2. f \in Fields(m) /\ f.name \in Attributes(m)  BY DEF Fields, Attributes
<1>3. \A g \in Fields(m) : g.name = f.name => g = f  BY <1>1 DEF Fields
<1>4. FieldNamed(m, f.name) = f
    <2>1. CASE \E g \in ToSet(m.out) : g.name = f.name
        <3>1. f \in ToSet(m.out)  BY <1>1, <2>1
        <3>2. \A g \in ToSet(m.out) : g.name = f.name => g = f  BY <1>1
        <3>3. (CHOOSE g \in ToSet(m.out) : g.name = f.name) = f  BY <3>1, <3>2
        <3>4. QED  BY <2>1, <3>3 DEF FieldNamed
    <2>2. CASE ~ \E g \in ToSet(m.out) : g.name = f.name
        <3>1. (CHOOSE g \in Fields(m) : g.name = f.name) = f  BY <1>2, <1>3
        <3>2. QED  BY <2>2, <3>1 DEF FieldNamed
    <2>3. QED  BY <2>1, <2>2
<1>5. f \in ToSet(m.out) \cup (IF m.name \in PackedNames THEN ToSet(m.fields) ELSE {})  OBVIOUS
<1>6. /\ Samples(f) # {}
      /\ \A v \in Samples(f) : v # <<>> /\ ((f.sent => Encodable(f, v)) => Legal(f, v))
    BY <1>5, ValuesAssumption
<1>7. a[f.name] \in Samples(f)  BY <1>2, <1>4, <1>6, Assigned
<1>8. QED  BY <1>6, <1>7

(* A byte that bytes() has taken is one its field takes. *)
LEMMA OctetEncodable ==
    ASSUME NEW f, NEW at, IsByte(f, at), NEW v, v # <<>>, v[1] \in Octet
    PROVE  Encodable(f, v)
<1> DEFINE x == v[1]
<1>1. f.kind = "number" /\ f.size = 1 /\ f.width = 8  BY DEF IsByte
<1>2. x \in 0 .. 255  BY DEF Octet
<1>3. x >= 0 /\ x >= -(2^16) /\ x < 2^(8 * f.size)
    <2>1. 2^16 \in Nat  BY SMT, Powers
    <2>2. x >= 0 /\ x >= -(2^16)
        <3> DEFINE p == 2^16
        <3>1. p \in Nat  BY <2>1
        <3> HIDE DEF p, x
        <3>2. x >= 0 /\ x >= -p  BY <1>2, <3>1
        <3>3. QED  BY <3>2 DEF p
    <2>3. 8 * f.size = 8  BY <1>1
    <2>4. 2^(8 * f.size) = 2^8  BY <2>3, Zenon
    <2>5. 2^8 = 256  BY SMT, Powers
    <2>6. x < 256
        <3> HIDE DEF x
        <3>1. QED  BY <1>2
    <2>7. QED  BY <2>2, <2>4, <2>5, <2>6
<1>4. QED  BY <1>1, <1>3, Zenon DEF Encodable

(* Twenty bits are below 2^20. *)
LEMMA WattFits ==
    ASSUME NEW f, IsNumber(f, 0, 3, 0, 20), NEW d \in Seq(Octet), ParseError(f, d) = "none"
    PROVE  Legal(f, Parsed(f, d))
<1> DEFINE n == Number(d, 0, 3)
           x == BitsOf(n, 0, 20)
<1>1. /\ f.kind = "number" /\ f.at = 0 /\ f.size = 3 /\ f.lo = 0 /\ f.width = 20
      /\ f.offset = 0 /\ f.scale = 1
    BY DEF IsNumber
<1>2. Len(d) \in Nat /\ ~ (Len(d) < f.at + f.size)  BY <1>1 DEF ParseError
<1>3. n \in Nat
    <2>1. PICK at \in Nat : at = 0  OBVIOUS
    <2>2. PICK size \in 1 .. 3 : size = 3  OBVIOUS
    <2>3. at + size <= Len(d)  BY <1>1, <1>2, <2>1, <2>2
    <2>4. Number(d, at, size) \in Nat  BY <2>3, OctetsThere
    <2>5. QED  BY <2>1, <2>2, <2>4
<1> HIDE DEF n
<1>4. x \in Nat /\ x < 2^20
    <2>1. 2^20 = 1048576 /\ 2^0 = 1  BY SMT, Powers
    <2>2. n \div 1 = n  BY SMT, <1>3
    <2>3. x = n % 1048576  BY SMT, <2>1, <2>2 DEF BitsOf
    <2> HIDE DEF x
    <2>4. QED  BY SMT, <1>3, <2>1, <2>3
<1>5. x \in Int /\ BitsOf(Number(d, f.at, f.size), f.lo, f.width) = x  BY <1>1, <1>4 DEF n
<1> HIDE DEF x
<1>6. f.kind \in Numbers  BY <1>1 DEF Numbers
<1>7. Parsed(f, d) = <<x>>  BY <1>1, <1>5, <1>6, NumberParsed
<1>8. Below(x, f.width)  BY <1>1, <1>4, Zenon DEF Below
<1>9. QED  BY <1>4, <1>6, <1>7, <1>8, NumberValue

(* What these classes read in any body is legal for their fields, *)
LEMMA PackedReceived ==
    ASSUME NEW m, NEW n \in Nat, DOMAIN m.fields = 1 .. n, NamesApart(m), NEW d \in Seq(Octet), Len(d) <= 7,
           FieldError(m, d) = "none",
           \A f \in ToSet(m.fields) : \/ f.kind = "plain" /\ Legal(f, f.default)
                                      \/ WellMade(f) /\ Readable(f) /\ f.at \in 0 .. 7
                                      \/ IsNumber(f, 0, 3, 0, 20)
    PROVE  AllLegal(m, Populated(m, d))
<1>1. \A f \in ToSet(m.fields) : ParseError(f, d) = "none"  BY FieldsSucceed
<1>2. ASSUME NEW f \in ToSet(m.fields) PROVE Legal(f, Populated(m, d)[f.name])
    <2>1. Populated(m, d)[f.name] = Parsed(f, d)  BY PopulatedFrom
    <2>2. CASE f.kind = "plain" /\ Legal(f, f.default)
        <3>1. Parsed(f, d) = f.default  BY <2>2 DEF Parsed
        <3>2. QED  BY <2>1, <2>2, <3>1
    <2>3. CASE WellMade(f) /\ Readable(f) /\ f.at \in 0 .. 7
        <3>1. d # <<>>  BY <1>1, <2>3 DEF ParseError, Readable
        <3>2. Fit(f, Parsed(f, d))  BY <1>1, <2>3, <3>1, FieldsFit
        <3>3. QED  BY <2>1, <3>2 DEF Fit
    <2>4. CASE IsNumber(f, 0, 3, 0, 20)  BY <1>1, <2>1, <2>4, WattFits
    <2>5. QED  BY <2>2, <2>3, <2>4
<1>3. QED  BY <1>2 DEF AllLegal

(* because each of the fields is read in bits of its own width. *)
LEMMA FieldsAreLegal ==
    /\ \A f \in ToSet(PsuValuesMessage.fields) : \/ WellMade(f) /\ Readable(f) /\ f.at \in 0 .. 7
                                                 \/ IsNumber(f, 0, 3, 0, 20)
    /\ \A f \in ToSet(SetEdgeColorMessage.fields) : \/ f.kind = "plain" /\ Legal(f, f.default)
                                                    \/ WellMade(f) /\ Readable(f) /\ f.at \in 0 .. 7
    /\ \A f \in ToSet(EdgeSetCustomColor.fields) : WellMade(f) /\ Readable(f) /\ f.at \in 0 .. 7
<1>1. ASSUME NEW f, f.kind = "number", f.offset = 0, f.scale = 1, f.at \in 0 .. 7,
             \/ f.size \in 1 .. 3 /\ f.lo = 0 /\ f.width = 8 * f.size
             \/ f.size = 1 /\ f.width \in 1 .. 7 /\ f.lo \in 0 .. 8 - f.width
      PROVE  WellMade(f) /\ Readable(f) /\ f.at \in 0 .. 7
    BY <1>1 DEF WellMade, Readable
<1>2. ASSUME NEW f, f.kind = "plain", f.default \in {<< 0 >>, << 1 >>} PROVE Legal(f, f.default)
    <2>1. <<0>> \in Seq(Int) /\ <<1>> \in Seq(Int) /\ Len(<<0>>) = 1 /\ Len(<<1>>) = 1  OBVIOUS
    <2>2. f.default \in Seq(Int) /\ Len(f.default) = 1  BY <1>2, <2>1
    <2>3. QED  BY <1>2, <2>2 DEF Legal
<1>3. ASSUME NEW f \in ToSet(PsuValuesMessage.fields)
      PROVE  (WellMade(f) /\ Readable(f) /\ f.at \in 0 .. 7) \/ IsNumber(f, 0, 3, 0, 20)
    <2>1. CASE f = ComputedField("channel", 0, 1, 4, 4)
        <3>1. /\ f.kind = "number" /\ f.offset = 0 /\ f.scale = 1 /\ f.at = 0 /\ f.size = 1 /\ f.width = 4 /\ f.lo = 4
            BY <2>1, FieldsOfBits
        <3>2. f.at \in 0 .. 7 /\ f.width \in 1 .. 7 /\ f.lo \in 0 .. 8 - f.width  BY <3>1
        <3>3. QED  BY <1>1, <3>1, <3>2
    <2>2. CASE f = ComputedField("watt", 0, 3, 0, 20)  BY <2>2, FieldsOfBits DEF IsNumber
    <2>3. CASE f \in {ComputedField("volt", 3, 2, 0, 16), ComputedField("amp", 5, 2, 0, 16)}
        <3>1. /\ f.kind = "number" /\ f.offset = 0 /\ f.scale = 1 /\ (f.at = 3 \/ f.at = 5)
              /\ f.size = 2 /\ f.width = 16 /\ f.lo = 0
            BY <2>3, FieldsOfBits
        <3>2. f.at \in 0 .. 7 /\ f.size \in 1 .. 3 /\ f.width = 8 * f.size  BY <3>1
        <3>3. QED  BY <1>1, <3>1, <3>2
    <2>4. QED  BY <2>1, <2>2, <2>3, PsuValues
<1>4. ASSUME NEW f \in ToSet(SetEdgeColorMessage.fields)
      PROVE  \/ f.kind = "plain" /\ Legal(f, f.default)
             \/ WellMade(f) /\ Readable(f) /\ f.at \in 0 .. 7
    <2>1. CASE f \in {BitField("apply_background_color", 0, 0, 1), BitField("custom_color_palette", 0, 7, 1),
              BitField("apply_to_left_edge", 1, 0, 1), BitField("apply_to_top_edge", 1, 1, 1),
              BitField("apply_to_right_edge", 1, 2, 1), BitField("apply_to_bottom_edge", 1, 3, 1)}
        <3>1. /\ f.kind = "number" /\ f.offset = 0 /\ f.scale = 1 /\ (f.at = 0 \/ f.at = 1) /\ f.size = 1 /\ f.width = 1
              /\ (f.lo = 0 \/ f.lo = 1 \/ f.lo = 2 \/ f.lo = 3 \/ f.lo = 7)
            BY <2>1, FieldsOfBits
        <3>2. f.at \in 0 .. 7 /\ f.width \in 1 .. 7 /\ f.lo \in 0 .. 8 - f.width  BY <3>1
        <3>3. QED  BY <1>1, <3>1, <3>2
    <2>2. CASE f = BitField("color_idx", 2, 0, 5)
        <3>1. /\ f.kind = "number" /\ f.offset = 0 /\ f.scale = 1 /\ f.at = 2 /\ f.size = 1 /\ f.width = 5 /\ f.lo = 0
            BY <2>2, FieldsOfBits
        <3>2. f.at \in 0 .. 7 /\ f.width \in 1 .. 7 /\ f.lo \in 0 .. 8 - f.width  BY <3>1
        <3>3. QED  BY <1>1, <3>1, <3>2
    <2>3. CASE f \in {PlainField("apply_continuous_feedback_color", <<0>>), PlainField("apply_to_all_pages", <<0>>),
                      PlainField("background_blinking", <<0>>), PlainField("custom_color_priority", <<1>>)}
        <3>1. f.kind = "plain" /\ f.default \in {<<0>>, <<1>>}  BY <2>3, FieldsOfBits
        <3>2. QED  BY <1>2, <3>1
    <2>4. QED  BY <2>1, <2>2, <2>3, EdgeColor
<1>5. ASSUME NEW f \in ToSet(EdgeSetCustomColor.fields) PROVE WellMade(f) /\ Readable(f) /\ f.at \in 0 .. 7
    <2>1. CASE f \in {BitField("rgb", 1, 7, 1), BitField("saturation", 1, 0, 7)}
        <3>1. /\ f.kind = "number" /\ f.offset = 0 /\ f.scale = 1 /\ f.at = 1 /\ f.size = 1
              /\ ((f.width = 1 /\ f.lo = 7) \/ (f.width = 7 /\ f.lo = 0))
            BY <2>1, FieldsOfBits
        <3>2. f.at \in 0 .. 7 /\ f.width \in 1 .. 7 /\ f.lo \in 0 .. 8 - f.width  BY <3>1
        <3>3. QED  BY <1>1, <3>1, <3>2
    <2>2. CASE f \in {Default(ByteField("pallet", 0), <<31>>),
                      ByteField("red", 2), ByteField("green", 3), ByteField("blue", 4)}
        <3>1. /\ f.kind = "number" /\ f.offset = 0 /\ f.scale = 1
              /\ (f.at = 0 \/ f.at = 2 \/ f.at = 3 \/ f.at = 4) /\ f.size = 1 /\ f.width = 8 /\ f.lo = 0
            BY <2>2, FieldsOfBits
        <3>2. f.at \in 0 .. 7 /\ f.size \in 1 .. 3 /\ f.width = 8 * f.size  BY <3>1
        <3>3. QED  BY <1>1, <3>1, <3>2
    <2>3. QED  BY <2>1, <2>2, EdgeCustom
<1>6. QED  BY <1>3, <1>4, <1>5

(* What LayoutAssumption says of these classes. *)
LEMMA PackedLayout ==
    ASSUME NEW m \in Classes, m.sends, m.name \in PackedNames
    PROVE  /\ m \in {PsuValuesMessage, SetEdgeColorMessage, SetCustomColorMessage, EdgeSetCustomColor}
           /\ NamesApart(m) /\ ToSet(m.out) \subseteq ToSet(m.fields)
BY LayoutAssumption

(* A message of these classes that is built is read as it was built, and fits. *)
LEMMA PackedSent ==
    ASSUME NEW m \in Classes, m.sends, m.name \in PackedNames, NEW a \in Assignments(m), NEW classic,
           Writable(m, a, classic)
    PROVE  ReadsItself(m, a, classic) /\ Len(Body(m, a, classic)) \in 0 .. 7
<1>1. /\ m \in {PsuValuesMessage, SetEdgeColorMessage, SetCustomColorMessage, EdgeSetCustomColor}
      /\ NamesApart(m) /\ ToSet(m.out) \subseteq ToSet(m.fields)
    BY PackedLayout
<1>2. \A f \in ToSet(m.fields) :
         a[f.name] # <<>> /\ ((f.sent => Encodable(f, a[f.name])) => Legal(f, a[f.name]))
    BY <1>1, PackedSamples
<1>3. CASE m = PsuValuesMessage
    <2>1. \A f \in ToSet(m.fields) : f.sent = FALSE  BY <1>3, PsuValues, FieldsOfBits
    <2>2. AllLegal(m, a)  BY <1>2, <2>1 DEF AllLegal
    <2>3. ReadsItself(m, a, classic) /\ Len(Body(m, a, classic)) = 7  BY <1>1, <1>3, <2>2, PsuReads
    <2>4. QED  BY <2>3
<1>4. CASE m = SetEdgeColorMessage
    <2>1. \A f \in ToSet(m.fields) : f.sent = FALSE  BY <1>4, EdgeColor, FieldsOfBits
    <2>2. AllLegal(m, a)  BY <1>2, <2>1 DEF AllLegal
    <2>3. ReadsItself(m, a, classic) /\ Len(Body(m, a, classic)) = 3  BY <1>1, <1>4, <2>2, EdgeColorReads
    <2>4. QED  BY <2>3
<1>5. CASE m = SetCustomColorMessage
    <2>1. ReadsItself(m, a, classic) /\ Len(Body(m, a, classic)) = 5  BY <1>1, <1>5, CustomColorReads
    <2>2. QED  BY <2>1
<1>6. CASE m = EdgeSetCustomColor
    <2> DEFINE f1 == Default(ByteField("pallet", 0), <<31>>)
               f4 == ByteField("red", 2)
               f5 == ByteField("green", 3)
               f6 == ByteField("blue", 4)
               bits == {BitField("rgb", 1, 7, 1), BitField("saturation", 1, 0, 7)}
               p == Packed("EdgeSetCustomColor", a)
    <2>1. m.name = "EdgeSetCustomColor" /\ ToSet(m.fields) = bits \cup {f1, f4, f5, f6}  BY <1>6, EdgeCustom
    <2>2. ToSet(p) \subseteq Octet  BY <2>1 DEF Writable
    <2>3. p = <<a["pallet"][1], 128 * a["rgb"][1] + a["saturation"][1], a["red"][1], a["green"][1], a["blue"][1]>>
        BY DEF Packed
    <2>4. 1 \in DOMAIN p /\ 3 \in DOMAIN p /\ 4 \in DOMAIN p /\ 5 \in DOMAIN p  BY <2>3
    <2>5. p[1] = a["pallet"][1] /\ p[3] = a["red"][1] /\ p[4] = a["green"][1] /\ p[5] = a["blue"][1]  BY <2>3
    <2> HIDE DEF p
    <2>6. /\ a["pallet"][1] \in Octet /\ a["red"][1] \in Octet
          /\ a["green"][1] \in Octet /\ a["blue"][1] \in Octet
        BY <2>2, <2>4, <2>5 DEF ToSet
    <2>7. /\ f1.name = "pallet" /\ IsByte(f1, 0) /\ f4.name = "red" /\ IsByte(f4, 2)
          /\ f5.name = "green" /\ IsByte(f5, 3) /\ f6.name = "blue" /\ IsByte(f6, 4)
        BY FieldsOfBits DEF IsByte
    <2>8. \A f \in bits : f.sent = FALSE  BY FieldsOfBits
    <2> HIDE DEF f1, f4, f5, f6, bits
    <2>9. /\ Encodable(f1, a[f1.name]) /\ Encodable(f4, a[f4.name])
          /\ Encodable(f5, a[f5.name]) /\ Encodable(f6, a[f6.name])
        BY <1>2, <2>1, <2>6, <2>7, OctetEncodable
    <2>10. \A f \in ToSet(m.fields) : f.sent => Encodable(f, a[f.name])  BY <2>1, <2>8, <2>9
    <2>11. AllLegal(m, a)  BY <1>2, <2>10 DEF AllLegal
    <2>12. ReadsItself(m, a, classic) /\ Len(Body(m, a, classic)) = 5  BY <1>1, <1>6, <2>11, EdgeCustomReads
    <2>13. QED  BY <2>12
<1>7. QED  BY <1>1, <1>3, <1>4, <1>5, <1>6

(* The three bytes of SetEdgeColorMessage are bytes as long as the priority of the
   color is the default.                                                    *)
LEMMA EdgeColorWritable ==
    ASSUME NEW m, m = SetEdgeColorMessage, NEW a, AllLegal(m, a), NEW classic,
           a["background_blinking"] = << 0 >>, a["custom_color_priority"] = << 1 >>
    PROVE  Writable(m, a, classic)
<1>1. m.name = "SetEdgeColorMessage"  BY EdgeColor
<1>2. PICK idx \in Nat : a["color_idx"] = <<idx>>
    <2> DEFINE f == BitField("color_idx", 2, 0, 5)
    <2>1. f \in ToSet(m.fields)  BY EdgeColor
    <2>2. f.name = "color_idx" /\ f.kind = "number"  BY FieldsOfBits
    <2> HIDE DEF f
    <2>3. PICK n \in Nat : a[f.name] = <<n>>  BY <2>1, <2>2, LegalNumber
    <2>4. QED  BY <2>2, <2>3
<1> DEFINE flag(n, k) == If(a[n], k)
           b1 == flag("custom_color_palette", 128) + flag("apply_background_color", 1)
                   + flag("apply_continuous_feedback_color", 2)
           b2 == flag("apply_to_all_pages", 128) + flag("apply_to_bottom_edge", 8)
                   + flag("apply_to_right_edge", 4) + flag("apply_to_top_edge", 2) + flag("apply_to_left_edge", 1)
           b3 == flag("background_blinking", 128) + 32 * a["custom_color_priority"][1] + (a["color_idx"][1] % 32)
           p == Packed("SetEdgeColorMessage", a)
<1>3. p = <<b1, b2, b3>>  BY DEF Packed
<1>4. \A n : /\ flag(n, 128) \in {0, 128} /\ flag(n, 8) \in {0, 8} /\ flag(n, 4) \in {0, 4}
             /\ flag(n, 2) \in {0, 2} /\ flag(n, 1) \in {0, 1}
    BY DEF If
<1>5. flag("background_blinking", 128) = 0
    <2>1. a["background_blinking"] = <<0>>  OBVIOUS
    <2>2. QED  BY <2>1 DEF If
<1> HIDE DEF flag
<1>6. b1 \in 0 .. 255  BY <1>4
<1>7. b2 \in 0 .. 255  BY <1>4
<1>8. b3 \in 0 .. 255
    <2>1. a["custom_color_priority"][1] = 1 /\ a["color_idx"][1] = idx  BY <1>2
    <2>2. idx % 32 \in 0 .. 31  BY <1>2
    <2>3. b3 = 0 + 32 * 1 + (idx % 32)  BY <1>5, <2>1
    <2> HIDE DEF b3
    <2>4. QED  BY <2>2, <2>3
<1> HIDE DEF b1, b2, b3
<1>9. ToSet(p) \subseteq Octet
    <2>1. DOMAIN p = {1, 2, 3} /\ p[1] = b1 /\ p[2] = b2 /\ p[3] = b3  BY <1>3
    <2> HIDE DEF p
    <2>2. QED  BY <1>6, <1>7, <1>8, <2>1 DEF ToSet, Octet
<1> HIDE DEF p
<1>10. QED  BY <1>1, <1>9 DEF Writable, PackedNames, p

(* The five of SetCustomColorMessage are, by default. *)
LEMMA CustomColorWritable ==
    ASSUME NEW m, m = SetCustomColorMessage, NamesApart(m), NEW d, NEW classic
    PROVE  Writable(m, Populated(m, d), classic)
<1> DEFINE a == Populated(m, d)
           p == Packed("SetCustomColorMessage", a)
           Plain(n, v) == PlainField(n, v) \in ToSet(m.fields)
<1>1. /\ m.name = "SetCustomColorMessage"
      /\ Plain("palette_idx", <<0>>) /\ Plain("white_mode", <<0>>) /\ Plain("saturation", <<127>>)
      /\ Plain("red", <<0>>) /\ Plain("green", <<0>>) /\ Plain("blue", <<0>>)
    BY CustomColor
<1>2. ASSUME NEW n, NEW v, Plain(n, v) PROVE a[n] = v
    <2> DEFINE f == PlainField(n, v)
    <2>1. f.name = n /\ f.kind = "plain" /\ f.default = v  BY FieldsOfBits
    <2>2. a[f.name] = Parsed(f, d)  BY <1>2, PopulatedFrom
    <2> HIDE DEF f
    <2>3. Parsed(f, d) = f.default  BY <2>1 DEF Parsed
    <2>4. QED  BY <2>1, <2>2, <2>3
<1> HIDE DEF Plain, a
<1>3. /\ a["palette_idx"] = <<0>> /\ a["white_mode"] = <<0>> /\ a["saturation"] = <<127>>
      /\ a["red"] = <<0>> /\ a["green"] = <<0>> /\ a["blue"] = <<0>>
    BY <1>1, <1>2
<1>4. p = <<0 % 32, 0 + (127 % 128), 0, 0, 0>>  BY <1>3 DEF Packed, If
<1>5. 0 % 32 = 0 /\ 0 + (127 % 128) = 127  OBVIOUS
<1>6. ToSet(p) \subseteq Octet
    <2>1. p = <<0, 127, 0, 0, 0>>  BY <1>4, <1>5
    <2>2. DOMAIN p = {1, 2, 3, 4, 5} /\ p[1] = 0 /\ p[2] = 127 /\ p[3] = 0 /\ p[4] = 0 /\ p[5] = 0  BY <2>1
    <2> HIDE DEF p
    <2>3. QED  BY <2>2 DEF ToSet, Octet
<1> HIDE DEF p
<1>7. QED  BY <1>1, <1>6 DEF Writable, PackedNames, p, a

(* What these classes have read they write so that they read it again. *)
LEMMA PackedReceivedReads ==
    ASSUME NEW m \in Classes, m.sends, m.name \in PackedNames, NEW d \in Seq(Octet), Len(d) <= 7,
           FieldError(m, d) = "none"
    PROVE  ReadsItself(m, Populated(m, d), FALSE)
<1>1. /\ m \in {PsuValuesMessage, SetEdgeColorMessage, SetCustomColorMessage, EdgeSetCustomColor}
      /\ NamesApart(m)
    BY PackedLayout
<1>2. CASE m = PsuValuesMessage
    <2>1. DOMAIN m.fields = 1 .. 4  BY SMT, <1>2 DEF PsuValuesMessage, Message
    <2>2. AllLegal(m, Populated(m, d))  BY <1>1, <1>2, <2>1, FieldsAreLegal, PackedReceived
    <2>3. QED  BY <1>1, <1>2, <2>2, PsuReads
<1>3. CASE m = SetEdgeColorMessage
    <2> DEFINE a == Populated(m, d)
               f == PlainField("background_blinking", <<0>>)
               g == PlainField("custom_color_priority", <<1>>)
    <2>1. DOMAIN m.fields = 1 .. 11  BY SMT, <1>3 DEF SetEdgeColorMessage, Message, AnyPriority
    <2>2. AllLegal(m, a)  BY <1>1, <1>3, <2>1, FieldsAreLegal, PackedReceived
    <2>3. f \in ToSet(m.fields) /\ g \in ToSet(m.fields)  BY <1>3, EdgeColor
    <2>4. /\ f.name = "background_blinking" /\ f.kind = "plain" /\ f.default = <<0>>
          /\ g.name = "custom_color_priority" /\ g.kind = "plain" /\ g.default = <<1>>
        BY FieldsOfBits
    <2> HIDE DEF f, g
    <2>5. a[f.name] = Parsed(f, d) /\ a[g.name] = Parsed(g, d)  BY <1>1, <2>3, PopulatedFrom
    <2>6. Parsed(f, d) = f.default /\ Parsed(g, d) = g.default  BY <2>4 DEF Parsed
    <2>7. a["background_blinking"] = <<0>> /\ a["custom_color_priority"] = <<1>>  BY <2>4, <2>5, <2>6
    <2> HIDE DEF a
    <2>8. Writable(m, a, FALSE)  BY <1>3, <2>2, <2>7, EdgeColorWritable
    <2>9. ReadsItself(m, a, FALSE)  BY <1>1, <1>3, <2>2, <2>8, EdgeColorReads
    <2>10. QED  BY <2>9 DEF a
<1>4. CASE m = SetCustomColorMessage
    <2>1. Writable(m, Populated(m, d), FALSE)  BY <1>1, <1>4, CustomColorWritable
    <2>2. QED  BY <1>1, <1>4, <2>1, CustomColorReads
<1>5. CASE m = EdgeSetCustomColor
    <2>1. DOMAIN m.fields = 1 .. 6  BY SMT, <1>5 DEF EdgeSetCustomColor, Message, AnyPriority
    <2>2. AllLegal(m, Populated(m, d))  BY <1>1, <1>5, <2>1, FieldsAreLegal, PackedReceived
    <2>3. QED  BY <1>1, <1>5, <2>2, EdgeCustomReads
<1>6. QED  BY <1>1, <1>2, <1>3, <1>4, <1>5

-----------------------------------------------------------------------------
(* A body is as long as its last field leaves it, unless that is a memo text
   with characters that take two bytes.                                     *)
Wide(v) == \E i \in DOMAIN v : v[i] >= 128

(* The body of a message has seven bytes at most, or a wide memo text. *)
LEMMA InLineFits ==
    ASSUME NEW w, InLine(w), NEW a, AllFit(w, a)
    PROVE  \/ Len(Bytes(w, a)) <= 7
           \/ \E g \in ToSet(w) : g.name = "memo_text" /\ Wide(a["memo_text"])
<1> DEFINE n == Len(w)
           g == w[n]
           v == Attribute(g, a)
           s == Serialized(g, v)
           d == Bytes(w, a)
<1>1. n \in Nat /\ DOMAIN w = 1 .. n /\ (w # <<>> => n # 0)  BY InLineDomain
<1>2. LaidOut(w, a, d)  BY Placed
<1>3. CASE w = <<>>
    <2>1. d = <<>>  BY <1>2, <1>3 DEF LaidOut
    <2>2. QED  BY <2>1
<1>4. CASE w # <<>>
    <2>1. n \in 1 .. n  BY <1>1, <1>4
    <2>2. WellMade(g) /\ g.at \in Nat /\ g.at + Span(g) <= 7  BY <2>1, InLineField
    <2>3. Fit(g, v)  BY <1>1, <2>1 DEF AllFit
    <2>4. Len(d) = g.at + Len(s)  BY <1>2, <1>4 DEF LaidOut
    <2>5. g \in ToSet(w)  BY <1>1, <2>1 DEF ToSet
    <2>6. (g.kind = "utf8" => g.name = "memo_text") /\ (g.name = NoName => g.kind = "plain")
        <3>1. \A i \in DOMAIN w : /\ w[i].name = NoName => w[i].kind = "plain" /\ Legal(w[i], w[i].default)
                                  /\ w[i].kind = "utf8" => w[i].name = "memo_text"
            BY Zenon DEF InLine
        <3>2. QED  BY <1>1, <2>1, <3>1
    <2> HIDE DEF g, d
    <2>7. Takes(g, v, s)  BY <2>2, <2>3, FieldsWritten
    <2> HIDE DEF s
    <2>8. CASE ~ Varies(g)
        <3>1. Len(s) = Span(g)  BY <2>7, <2>8 DEF Takes
        <3>2. Len(d) <= 7  BY <2>2, <2>4, <3>1
        <3>3. QED  BY <3>2 DEF d
    <2>9. CASE g.at + Len(s) <= 7
        <3>1. Len(d) <= 7  BY <2>4, <2>9
        <3>2. QED  BY <3>1 DEF d
    <2>10. CASE g.kind = "utf8" /\ \E i \in DOMAIN v : v[i] >= 128
        <3>1. g.name = "memo_text" /\ g.name # NoName  BY <2>6, <2>10
        <3>2. v = a["memo_text"]  BY <3>1 DEF Attribute
        <3> HIDE DEF v
        <3>3. Wide(a["memo_text"])  BY <2>10, <3>2 DEF Wide
        <3>4. QED  BY <2>5, <3>1, <3>3
    <2>11. QED  BY <2>7, <2>8, <2>9, <2>10 DEF Takes
<1>5. QED  BY <1>3, <1>4

-----------------------------------------------------------------------------
(* What the program knows of its classes and of the message it handles: the
   registry holds classes of the type's own specification, a message that was
   sent is what its class writes for some attributes, and the attributes of one
   that was received are what its class reads in some body it takes.         *)
Registered ==
    \A t \in DOMAIN overrides : t \in Types /\ \A c \in DOMAIN overrides[t] : overrides[t][c] \in CommandToClass[t]

AsWritten(x) ==
    /\ x.class \in Classes /\ x.class.sends
    /\ x.classic \in BOOLEAN /\ (x.classic => x.class.classic > 0)
    /\ x.attrs \in Assignments(x.class) /\ Writable(x.class, x.attrs, x.classic)
    /\ x.body = Body(x.class, x.attrs, x.classic)

AsRead(x) ==
    /\ x.class \in Classes /\ x.classic = FALSE /\ x.body \in Bodies
    /\ \E header \in Headers : Refuses(x.class, header.prio, header.rtr, x.body) = "none"
    /\ FieldError(x.class, x.body) = "none" /\ x.attrs = Populated(x.class, x.body)

Genuine(x) == (x.kind = "sent" => AsWritten(x)) /\ (x.kind = "received" => AsRead(x))

XInv == Registered /\ Genuine(current)

(* A class that is registered is one the program knows. *)
LEMMA OfType ==
    ASSUME Registered, NEW t \in DOMAIN overrides, NEW c \in DOMAIN overrides[t]
    PROVE  overrides[t][c] \in Classes
<1>1. t \in Types /\ overrides[t][c] \in CommandToClass[t]  BY DEF Registered
<1>2. QED  BY <1>1 DEF Classes

(* handle() leaves a message that was read, or an error. *)
LEMMA Received ==
    ASSUME NEW m \in Classes, NEW header \in Headers, NEW d \in Bodies
    PROVE  Genuine(Understood(m, header, d))
<1> DEFINE x == Understood(m, header, d)
<1>1. CASE x.kind = "received"
    <2>1. /\ Refuses(m, header.prio, header.rtr, d) = "none" /\ FieldError(m, d) = "none"
          /\ x = [kind |-> "received", class |-> m, attrs |-> Populated(m, d), body |-> d, classic |-> FALSE]
        BY <1>1 DEF Understood
    <2>2. AsRead(x)  BY <2>1 DEF AsRead
    <2>3. QED  BY <1>1, <2>2 DEF Genuine
<1>2. CASE x.kind # "received"
    <2>1. x.kind = "error"  BY <1>2 DEF Understood
    <2>2. QED  BY <2>1 DEF Genuine
<1>3. QED  BY <1>1, <1>2

(* A message that is built has the body its class writes. *)
LEMMA Built ==
    ASSUME NEW m \in Classes, Build(m)
    PROVE  Genuine(current')
<1>1. m.sends  BY DEF Build
<1>2. PICK a \in Assignments(m), classic \in BOOLEAN :
          /\ classic => m.classic > 0
          /\ current' = IF Writable(m, a, classic)
                        THEN [kind |-> "sent", class |-> m, attrs |-> a, body |-> Body(m, a, classic),
                              classic |-> classic]
                        ELSE [kind |-> "error", class |-> m, error |-> "ValueError"]
    BY DEF Build
<1>3. CASE Writable(m, a, classic)
    <2> DEFINE x == [kind |-> "sent", class |-> m, attrs |-> a, body |-> Body(m, a, classic), classic |-> classic]
    <2>1. AsWritten(x)  BY <1>1, <1>2, <1>3 DEF AsWritten
    <2>2. x.kind = "sent"  OBVIOUS
    <2>3. current' = x  BY <1>2, <1>3
    <2> HIDE DEF x
    <2>4. QED  BY <2>1, <2>2, <2>3 DEF Genuine
<1>4. CASE ~ Writable(m, a, classic)
    <2>1. current'.kind = "error"  BY <1>2, <1>4
    <2>2. QED  BY <2>1 DEF Genuine
<1>5. QED  BY <1>3, <1>4

(* Nothing is registered and nothing handled at first. *)
LEMMA XInvInit ==
    XInit => XInv
<1> HAVE XInit
<1>1. DOMAIN overrides = {}  BY DEF XInit
<1>2. Registered  BY <1>1 DEF Registered
<1>3. Genuine(current)  BY DEF XInit, None, Genuine
<1>4. QED  BY <1>2, <1>3 DEF XInv

(* Every step keeps it. *)
LEMMA XInvStep ==
    XInv /\ [XNext]_xvars => XInv'
<1> SUFFICES ASSUME XInv, [XNext]_xvars PROVE XInv'  OBVIOUS
<1> USE DEF XInv
<1>1. ASSUME NEW t \in Types, Initialize(t) PROVE XInv'
    <2> DEFINE registry == [c \in {m.code : m \in CommandToClass[t]} |->
                               CHOOSE m \in CommandToClass[t] : m.code = c]
    <2>1. /\ overrides' = [u \in DOMAIN overrides \cup {t} |-> IF u # t THEN overrides[u] ELSE registry]
          /\ current' = current
        BY <1>1 DEF Initialize
    <2>2. \A c \in DOMAIN registry : registry[c] \in CommandToClass[t]
        <3>1. TAKE c \in DOMAIN registry
        <3>2. PICK m \in CommandToClass[t] : m.code = c  OBVIOUS
        <3>3. (CHOOSE n \in CommandToClass[t] : n.code = c) \in CommandToClass[t]  BY <3>2
        <3>4. QED  BY <3>3
    <2> HIDE DEF registry
    <2>3. ASSUME NEW u \in DOMAIN overrides'
          PROVE  u \in Types /\ \A c \in DOMAIN overrides'[u] : overrides'[u][c] \in CommandToClass[u]
        <3>1. CASE u = t  BY <2>1, <2>2, <3>1
        <3>2. CASE u # t  BY <2>1, <3>2 DEF Registered
        <3>3. QED  BY <3>1, <3>2
    <2>4. Registered'  BY <2>3 DEF Registered
    <2>5. QED  BY <2>1, <2>4
<1>2. ASSUME UNCHANGED overrides, Genuine(current') PROVE XInv'
    <2>1. Registered'  BY <1>2 DEF Registered
    <2>2. QED  BY <1>2, <2>1
<1>3. ASSUME NEW t \in DOMAIN overrides, NEW c \in DOMAIN overrides[t], Receive(t, c) PROVE XInv'
    <2>1. overrides[t][c] \in Classes  BY OfType
    <2>2. PICK header \in Headers, d \in Bodies : current' = Understood(overrides[t][c], header, d)
        BY <1>3 DEF Receive
    <2>3. Genuine(current')  BY <2>1, <2>2, Received
    <2>4. UNCHANGED overrides  BY <1>3 DEF Receive
    <2>5. QED  BY <1>2, <2>3, <2>4
<1>4. ASSUME NEW m \in Classes, Build(m) PROVE XInv'
    <2>1. Genuine(current')  BY <1>4, Built
    <2>2. UNCHANGED overrides  BY <1>4 DEF Build
    <2>3. QED  BY <1>2, <2>1, <2>2
<1>5. ASSUME NEW t \in DOMAIN overrides, NEW c \in DOMAIN overrides[t], Command(t, c) PROVE XInv'
    <2>1. overrides[t][c] \in Classes  BY OfType
    <2>2. Build(overrides[t][c])  BY <1>5 DEF Command
    <2>3. QED  BY <1>4, <2>1, <2>2
<1>6. ASSUME NEW t, NEW c, Drop(t, c) PROVE XInv'
    <2>1. current' = [kind |-> "dropped"] /\ UNCHANGED overrides  BY <1>6 DEF Drop
    <2>2. Genuine(current')  BY <2>1 DEF Genuine
    <2>3. QED  BY <1>2, <2>1, <2>2
<1>7. CASE Handled
    <2>1. Genuine(current')  BY <1>7 DEF Handled, None, Genuine
    <2>2. QED  BY <1>2, <1>7, <2>1 DEF Handled
<1>8. CASE UNCHANGED xvars
    <2>1. Genuine(current')  BY <1>8 DEF xvars
    <2>2. QED  BY <1>2, <1>8, <2>1 DEF xvars
<1>9. \A m \in DirectClasses : m \in Classes  BY DEF Classes
<1>10. QED  BY <1>1, <1>3, <1>4, <1>5, <1>6, <1>7, <1>8, <1>9 DEF XNext

(* What LayoutAssumption says of the classes that do not pack. *)
LEMMA InLineLayout ==
    ASSUME NEW m \in Classes, m.sends, m.name \notin PackedNames, NEW classic \in BOOLEAN, classic => m.classic > 0
    PROVE  /\ InLine(Written(m, classic)) /\ ToSet(Written(m, classic)) \subseteq ToSet(m.out)
           /\ m \notin OneWay => Mirrors(m, Written(m, classic))
           /\ Written(m, FALSE) = m.out /\ InLine(m.out)
<1>1. \A x \in BOOLEAN : (x => m.classic > 0) =>
         /\ InLine(Written(m, x)) /\ ToSet(Written(m, x)) \subseteq ToSet(m.out)
         /\ m \notin OneWay => Mirrors(m, Written(m, x))
    BY LayoutAssumption, Zenon
<1>2. Written(m, FALSE) = m.out  BY DEF Written
<1>3. InLine(Written(m, FALSE))  BY <1>1
<1>4. QED  BY <1>1, <1>2, <1>3

(* A message that was sent, *)
LEMMA SentReadsItself ==
    ASSUME NEW x, AsWritten(x), x.class \notin OneWay
    PROVE  ReadsItself(x.class, x.attrs, x.classic)
<1> DEFINE m == x.class
           a == x.attrs
           classic == x.classic
<1>1. /\ m \in Classes /\ m.sends /\ classic \in BOOLEAN /\ (classic => m.classic > 0)
      /\ a \in Assignments(m) /\ Writable(m, a, classic)
    BY DEF AsWritten
<1>2. m \notin OneWay  OBVIOUS
<1> HIDE DEF m, a, classic
<1>3. CASE m.name \in PackedNames
    <2>1. ReadsItself(m, a, classic)  BY <1>1, <1>3, PackedSent
    <2>2. QED  BY <2>1 DEF m, a, classic
<1>4. CASE m.name \notin PackedNames
    <2>1. /\ InLine(Written(m, classic)) /\ ToSet(Written(m, classic)) \subseteq ToSet(m.out)
          /\ Mirrors(m, Written(m, classic)) /\ InLine(m.out)
        BY <1>1, <1>2, <1>4, InLineLayout
    <2>2. AllFit(Written(m, classic), a) /\ TailLong(m, Written(m, classic), a)  BY <1>1, <1>4, <2>1, SentFits
    <2>3. ReadsItself(m, a, classic)  BY <1>4, <2>1, <2>2, InLineReadsItself
    <2>4. QED  BY <2>3 DEF m, a, classic
<1>5. QED  BY <1>3, <1>4

(* and one that was received, is read as it was written. *)
LEMMA ReceivedReadsItself ==
    ASSUME NEW x, AsRead(x), x.class.sends, x.class \notin OneWay
    PROVE  ReadsItself(x.class, x.attrs, x.classic)
<1> DEFINE m == x.class
           d == x.body
           a == Populated(m, d)
<1>1. /\ m \in Classes /\ x.classic = FALSE /\ d \in Bodies /\ FieldError(m, d) = "none" /\ x.attrs = a
      /\ \E header \in Headers : Refuses(m, header.prio, header.rtr, d) = "none"
    BY DEF AsRead
<1>2. m.sends /\ m \notin OneWay  OBVIOUS
<1> HIDE DEF m, d
<1>3. d \in Seq(Octet) /\ Len(d) <= 7  BY <1>1, LayoutAssumption
<1>4. ReadsItself(m, a, FALSE)
    <2>1. CASE m.name \in PackedNames  BY <1>1, <1>2, <1>3, <2>1, PackedReceivedReads
    <2>2. CASE m.name \notin PackedNames
        <3>1. PICK header \in Headers : Refuses(m, header.prio, header.rtr, d) = "none"  BY <1>1
        <3>2. /\ InLine(Written(m, FALSE)) /\ Mirrors(m, Written(m, FALSE)) /\ Written(m, FALSE) = m.out
            BY <1>1, <1>2, <2>2, InLineLayout
        <3>3. AllFit(m.out, a) /\ TailLong(m, m.out, a)  BY <1>1, <1>3, <3>1, <3>2, ReceivedFits
        <3>4. QED  BY <2>2, <3>2, <3>3, InLineReadsItself
    <2>3. QED  BY <2>1, <2>2
<1>5. QED  BY <1>1, <1>4 DEF m

(* A message that was sent fits a packet, or has a wide memo text. *)
LEMMA SentFitsPacket ==
    ASSUME NEW x, AsWritten(x)
    PROVE  \/ Len(x.body) \in 0 .. 7
           \/ "memo_text" \in DOMAIN x.attrs /\ Wide(x.attrs["memo_text"])
<1> DEFINE m == x.class
           a == x.attrs
           classic == x.classic
           w == Written(m, classic)
<1>1. /\ m \in Classes /\ m.sends /\ classic \in BOOLEAN /\ (classic => m.classic > 0)
      /\ a \in Assignments(m) /\ Writable(m, a, classic) /\ x.body = Body(m, a, classic)
    BY DEF AsWritten
<1> HIDE DEF m, a, classic
<1>2. CASE m.name \in PackedNames
    <2>1. Len(Body(m, a, classic)) \in 0 .. 7  BY <1>1, <1>2, PackedSent
    <2>2. QED  BY <1>1, <2>1
<1>3. CASE m.name \notin PackedNames
    <2>1. InLine(w) /\ ToSet(w) \subseteq ToSet(m.out) /\ InLine(m.out)  BY <1>1, <1>3, InLineLayout
    <2>2. AllFit(w, a)  BY <1>1, <1>3, <2>1, SentFits
    <2>3. x.body = Bytes(w, a)  BY <1>1, <1>3 DEF Body, Bytes
    <2> HIDE DEF w
    <2>4. Len(Bytes(w, a)) \in Nat
        <3>1. Bytes(w, a) \in Seq(Int)  BY <2>1, <2>2, Placed DEF LaidOut
        <3>2. QED  BY <3>1
    <2>5. CASE Len(Bytes(w, a)) <= 7
        <3> DEFINE n == Len(Bytes(w, a))
        <3>1. n \in Nat /\ n <= 7  BY <2>4, <2>5
        <3> HIDE DEF n
        <3>2. n \in 0 .. 7  BY <3>1
        <3>3. QED  BY <2>3, <3>2 DEF n
    <2>6. CASE \E g \in ToSet(w) : g.name = "memo_text" /\ Wide(a["memo_text"])
        <3>1. PICK g \in ToSet(w) : g.name = "memo_text" /\ Wide(a["memo_text"])  BY <2>6
        <3>2. g \in ToSet(m.out)  BY <2>1, <3>1
        <3>3. "memo_text" # NoName  BY Zenon DEF NoName
        <3>4. g.name \in Attributes(m) /\ FieldNamed(m, g.name) = g  BY <2>1, <3>1, <3>2, <3>3, NamedField
        <3>5. Samples(g) # {}  BY <1>1, <3>2, SampleFits
        <3>6. DOMAIN a = Attributes(m)  BY <1>1, <3>4, <3>5, Assigned
        <3>7. QED  BY <3>1, <3>4, <3>6 DEF a
    <2>7. QED  BY <2>1, <2>2, <2>5, <2>6, InLineFits
<1>4. QED  BY <1>2, <1>3

-----------------------------------------------------------------------------
(* The invariant says enough for both properties. *)
LEMMA InvReads ==
    ASSUME XInv
    PROVE  ReadAsSent
<1> SUFFICES ASSUME current.kind \in {"sent", "received"}, current.class.sends, current.class \notin OneWay
             PROVE  ReadsItself(current.class, current.attrs, current.classic)
    BY DEF ReadAsSent
<1>1. CASE current.kind = "sent"
    <2>1. AsWritten(current)  BY <1>1 DEF XInv, Genuine
    <2>2. QED  BY <2>1, SentReadsItself
<1>2. CASE current.kind = "received"
    <2>1. AsRead(current)  BY <1>2 DEF XInv, Genuine
    <2>2. QED  BY <2>1, ReceivedReadsItself
<1>3. QED  BY <1>1, <1>2

(* For the second one too. *)
LEMMA InvFits ==
    ASSUME XInv
    PROVE  BodyFits
<1> SUFFICES ASSUME current.kind = "sent"
             PROVE  \/ 1 + Len(current.body) <= 8
                    \/ "memo_text" \in DOMAIN current.attrs /\ \E i \in DOMAIN current.attrs["memo_text"] :
                           current.attrs["memo_text"][i] >= 128
    BY DEF BodyFits
<1>1. AsWritten(current)  BY DEF XInv, Genuine
<1>2. CASE Len(current.body) \in 0 .. 7
    <2> DEFINE n == Len(current.body)
    <2>1. n \in 0 .. 7  BY <1>2
    <2> HIDE DEF n
    <2>2. 1 + n <= 8  BY <2>1
    <2>3. QED  BY <2>2 DEF n
<1>3. CASE "memo_text" \in DOMAIN current.attrs /\ Wide(current.attrs["memo_text"])  BY <1>3 DEF Wide
<1>4. QED  BY <1>1, <1>2, <1>3, SentFitsPacket

(* The message in hand is always what its class wrote for some attributes, or
   read in some body it did not refuse; the registry holds classes of the
   module types (register_module_commands(), handle(), data_to_binary()).   *)
THEOREM Genuineness == XSpec => []XInv
<1>1. XInv /\ UNCHANGED xvars => XInv'  BY XInvStep
<1>2. QED  BY XInvInit, XInvStep, PTL DEF XSpec

(* What a class writes it reads again as the attributes it was written from, for
   any values of the attributes and any body that was received (ReadAsSent;
   message_fields.py and data_to_binary() of messages/).                    *)
THEOREM ReadsAsSent == XSpec => []ReadAsSent
<1>1. XInv => ReadAsSent  BY InvReads
<1>2. QED  BY <1>1, Genuineness, PTL

(* The body of a message fits a packet, whatever its attributes, unless it is a
   memo text that is not ASCII (BodyFits; data_to_binary() and the limit of
   create() in raw_message.py).                                             *)
THEOREM FitsPackets == XSpec => []BodyFits
<1>1. XInv => BodyFits  BY InvFits
<1>2. QED  BY <1>1, Genuineness, PTL

=============================================================================
