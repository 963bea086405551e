----------------------------- MODULE RepliesProofs -----------------------------
(***************************************************************************)
(* The way of a reply, for texts of every length: first lemmas about       *)
(* sequences, then the four properties of Replies, each on what it needs   *)
(* to know of the scanner.                                                 *)
(***************************************************************************)
EXTENDS Replies, FiniteSetTheorems, SequenceTheorems, WellFoundedInduction, TLAPS

(* Induction, over numbers and over sequences. *)

LEMMA LeastNat ==
    ASSUME NEW S \in SUBSET Nat, S # {}
    PROVE  \E m \in S : \A n \in S : m <= n
<1>1. \E m \in S : \A n \in S : <<n, m>> \notin OpToRel(<, Nat)
  BY NatLessThanWellFounded, WFMin
<1>2. ASSUME NEW m \in S, NEW n \in S, <<n, m>> \notin OpToRel(<, Nat)
      PROVE  m <= n
  BY <1>2 DEF OpToRel
<1> QED
  BY <1>1, <1>2

\* The least number of a set of them that is bounded.
LEMMA LeastUpTo ==
    ASSUME NEW n \in Nat, NEW S \in SUBSET (0..n), S # {}
    PROVE  \E m \in S : m = 0 \/ (m \in 1..n /\ m - 1 \in 0..n /\ m - 1 \notin S)
<1>1. S \in SUBSET Nat
  OBVIOUS
<1>2. PICK m \in S : \A k \in S : m <= k
  BY <1>1, LeastNat
<1>3. m \in 0..n /\ m - 1 \notin S
  BY <1>1, <1>2
<1> QED
  BY <1>3

\* What holds of 0 and of the next number holds of all up to n.
LEMMA CountUp ==
    ASSUME NEW n \in Nat, NEW Good \in SUBSET (0..n), 0 \in Good,
           \A k \in 1..n : k - 1 \in Good => k \in Good
    PROVE  \A k \in 0..n : k \in Good
<1> DEFINE Bad == (0..n) \ Good
<1>1. SUFFICES Bad = {}
  OBVIOUS
<1>2. SUFFICES ASSUME Bad # {} PROVE FALSE
  OBVIOUS
<1>3. PICK m \in Bad : m = 0 \/ (m \in 1..n /\ m - 1 \in 0..n /\ m - 1 \notin Bad)
  <2>1. Bad \in SUBSET (0..n)
    OBVIOUS
  <2> HIDE DEF Bad
  <2> QED
    BY <1>2, <2>1, LeastUpTo
<1> QED
  BY <1>3

\* A sequence is what its elements make of the empty one.
LEMMA Parts ==
    ASSUME NEW S, NEW s \in Seq(S)
    PROVE  \E part \in [0..Len(s) -> Seq(S)] :
              /\ part[0] = <<>> /\ part[Len(s)] = s
              /\ \A k \in 1..Len(s) : s[k] \in S /\ part[k] = Append(part[k - 1], s[k])
<1> DEFINE n == Len(s)
           part == [k \in 0..n |-> SubSeq(s, 1, k)]
<1>1. n \in Nat /\ \A k \in 1..n : s[k] \in S
  OBVIOUS
<1>2. part \in [0..n -> Seq(S)]
  BY <1>1
<1>3. part[0] = <<>> /\ part[n] = s
  BY <1>1, SubSeqEmpty, SubSeqFull
<1>4. ASSUME NEW k \in 1..n PROVE part[k] = Append(part[k - 1], s[k])
  <2>1. 1 \in 1..Len(s) /\ k \in 1..Len(s) /\ k - 1 \in 0..n /\ k \in 0..n
    BY <1>1
  <2>2. SubSeq(s, 1, k) = SubSeq(s, 1, k - 1) \o <<s[k]>>
    BY <2>1, SubSeqRecursiveSecond
  <2>3. SubSeq(s, 1, k - 1) \in Seq(S)
    BY <1>1
  <2>4. Append(SubSeq(s, 1, k - 1), s[k]) = SubSeq(s, 1, k - 1) \o <<s[k]>>
    BY <1>1, <2>3, AppendIsConcat
  <2> QED
    BY <2>1, <2>2, <2>4
<1> QED
  BY <1>1, <1>2, <1>3, <1>4

\* What holds of the empty sequence and of a longer one holds of all.
LEMMA GrowSequence ==
    ASSUME NEW S, NEW Good, <<>> \in Good,
           \A s \in Seq(S), e \in S : s \in Good => Append(s, e) \in Good
    PROVE  \A s \in Seq(S) : s \in Good
<1> SUFFICES ASSUME NEW s \in Seq(S) PROVE s \in Good
  OBVIOUS
<1> DEFINE n == Len(s)
<1>1. PICK part \in [0..n -> Seq(S)] :
        /\ part[0] = <<>> /\ part[n] = s
        /\ \A k \in 1..n : s[k] \in S /\ part[k] = Append(part[k - 1], s[k])
  BY Parts
<1>2. n \in Nat
  OBVIOUS
<1> DEFINE Ok == {k \in 0..n : part[k] \in Good}
<1> HIDE DEF n
<1>3. 0 \in Ok
  <2>1. 0 \in 0..n
    BY <1>2
  <2> QED
    BY <1>1, <2>1, Zenon
<1>4. ASSUME NEW k \in 1..n, k - 1 \in Ok PROVE k \in Ok
  <2>1. k \in 0..n /\ k - 1 \in 0..n
    BY <1>2
  <2>2. part[k - 1] \in Good /\ part[k - 1] \in Seq(S)
    BY <1>1, <1>4, <2>1, Zenon
  <2>3. Append(part[k - 1], s[k]) \in Good
    BY <1>1, <2>2, Zenon
  <2> QED
    BY <1>1, <2>1, <2>3, Zenon
<1>5. Ok \in SUBSET (0..n) /\ n \in 0..n
  BY <1>2
<1>6. \A k \in 0..n : k \in Ok
  <2> HIDE DEF Ok
  <2> QED
    BY <1>2, <1>3, <1>4, <1>5, CountUp
<1> QED
  BY <1>1, <1>5, <1>6, Zenon

\* A function can be built step by step.
Iterates(S, base, n, step) ==
    \E g \in [0..n -> S] : g[0] = base /\ \A i \in 1..n : g[i] = step[i][g[i - 1]]

LEMMA Iteration ==
    ASSUME NEW S, NEW base \in S, NEW n \in Nat, NEW step \in [1..n -> [S -> S]]
    PROVE  Iterates(S, base, n, step)
<1> DEFINE Built(m) == \E g \in [0..m -> S] :
                          g[0] = base /\ \A i \in 1..m : g[i] = step[i][g[i - 1]]
           Bad == {m \in 0..n : ~Built(m)}
<1>1. SUFFICES Bad = {}
  BY n \in 0..n DEF Iterates
<1>2. SUFFICES ASSUME Bad # {} PROVE FALSE
  OBVIOUS
<1>3. PICK m \in Bad : m = 0 \/ (m \in 1..n /\ m - 1 \in 0..n /\ m - 1 \notin Bad)
  <2>1. Bad \in SUBSET (0..n)
    OBVIOUS
  <2> HIDE DEF Bad
  <2> QED
    BY <1>2, <2>1, LeastUpTo
<1>4. Built(0)
  <2>1. /\ [i \in 0..0 |-> base] \in [0..0 -> S]
        /\ [i \in 0..0 |-> base][0] = base /\ 1..0 = {}
    OBVIOUS
  <2> QED
    BY <2>1
<1>5. m \in 1..n /\ Built(m - 1) /\ ~Built(m)
  <2> HIDE DEF Built
  <2> QED
    BY <1>3, <1>4
<1>6. PICK g \in [0..(m - 1) -> S] :
        g[0] = base /\ \A i \in 1..(m - 1) : g[i] = step[i][g[i - 1]]
  BY <1>5
<1> DEFINE end == step[m][g[m - 1]]
           h == [i \in 0..m |-> IF i = m THEN end ELSE g[i]]
<1>7. g[m - 1] \in S /\ end \in S
  BY <1>5, <1>6
<1> HIDE DEF end
<1>8. h \in [0..m -> S]
  BY <1>5, <1>6, <1>7
<1>9. \A i \in 0..(m - 1) : h[i] = g[i]
  BY <1>5
<1>10. h[m] = end
  BY <1>5
<1> HIDE DEF h
<1>11. ASSUME NEW i \in 1..m PROVE h[i] = step[i][h[i - 1]]
  <2>1. CASE i = m
    BY <1>5, <1>9, <1>10, <2>1 DEF end
  <2>2. CASE i # m
    <3>1. i \in 1..(m - 1) /\ i - 1 \in 0..(m - 1) /\ i \in 0..(m - 1)
      BY <1>5, <2>2
    <3> QED
      BY <1>6, <1>9, <3>1
  <2> QED
    BY <2>1, <2>2
<1>12. h[0] = base
  BY <1>5, <1>6, <1>9
<1> QED
  BY <1>5, <1>8, <1>11, <1>12

----------------------------------------------------------------------------
(* Sequences that are put together. *)

\* g joins the first sequences of ss, step by step.
Joins(S, g, ss) ==
    /\ g \in [0..Len(ss) -> Seq(S)]
    /\ g[0] = <<>>
    /\ \A i \in 1..Len(ss) : g[i] = g[i - 1] \o ss[i]

LEMMA JoinExists ==
    ASSUME NEW S, NEW ss \in Seq(Seq(S))
    PROVE  \E g : Joins(S, g, ss)
<1> DEFINE T == Seq(S)
           n == Len(ss)
           step == [i \in 1..n |-> [a \in T |-> a \o ss[i]]]
<1>1. n \in Nat /\ <<>> \in T /\ \A i \in 1..n : ss[i] \in T
  OBVIOUS
<1>2. \A a \in T, b \in T : a \o b \in T
  OBVIOUS
<1> HIDE DEF T, n
<1>3. step \in [1..n -> [T -> T]]
  BY <1>1, <1>2
<1>4. \A i \in 1..n, a \in T : step[i][a] = a \o ss[i]
  OBVIOUS
<1> HIDE DEF step
<1>5. Iterates(T, <<>>, n, step)
  BY <1>1, <1>3, Iteration
<1>6. PICK g \in [0..n -> T] : g[0] = <<>> /\ \A i \in 1..n : g[i] = step[i][g[i - 1]]
  BY <1>5 DEF Iterates
<1>7. \A i \in 1..n : g[i - 1] \in T
  BY <1>1
<1>8. \A i \in 1..n : g[i] = g[i - 1] \o ss[i]
  BY <1>4, <1>6, <1>7
<1> QED
  BY <1>6, <1>8 DEF Joins, T, n

LEMMA FlattenJoins ==
    ASSUME NEW S, NEW ss \in Seq(Seq(S)), NEW g, Joins(S, g, ss)
    PROVE  FlattenSeq(ss) = g[Len(ss)]
<1> DEFINE n == Len(ss)
           Body(f) == [i \in 1..n |-> IF i = 1 THEN ss[i] ELSE f[i - 1] \o ss[i]]
           flatten == CHOOSE f : f = Body(f)
<1>1. n \in Nat /\ \A i \in 1..n : ss[i] \in Seq(S)
  OBVIOUS
<1>2. /\ g \in [0..n -> Seq(S)] /\ g[0] = <<>>
      /\ \A i \in 1..n : g[i] = g[i - 1] \o ss[i]
  BY DEF Joins
<1>2a. n # 0 => g[1] = <<>> \o ss[1] /\ ss[1] \in Seq(S) /\ 1 \in 1..n
  <2>1. n # 0 => 1 \in 1..n /\ 1 - 1 = 0
    BY <1>1
  <2> QED
    BY <1>1, <1>2, <2>1
<1>3. CASE n = 0
  <2>1. FlattenSeq(ss) = ss
    BY <1>3 DEF FlattenSeq
  <2>2. ss = <<>>
    BY <1>3
  <2> QED
    BY <1>2, <1>3, <2>1, <2>2
<1>4. CASE n # 0
  <2>1. FlattenSeq(ss) = flatten[n]
    BY <1>4 DEF FlattenSeq
  <2> HIDE DEF n
  <2>2. \E f : f = Body(f)
    <3> DEFINE h == [i \in 1..n |-> g[i]]
    <3>1. \A i \in 1..n : h[i] = g[i]
      OBVIOUS
    <3>2. \A i \in 1..n : h[i] = IF i = 1 THEN ss[i] ELSE h[i - 1] \o ss[i]
      <4> TAKE i \in 1..n
      <4>1. CASE i = 1
        <5>1. g[1] = ss[1]
          BY <1>2a, <1>4
        <5> QED
          BY <3>1, <4>1, <5>1
      <4>2. CASE i # 1
        <5>1. i - 1 \in 1..n
          BY <1>1, <4>2
        <5>2. h[i - 1] = g[i - 1] /\ h[i] = g[i] /\ g[i] = g[i - 1] \o ss[i]
          BY <1>2, <3>1, <5>1
        <5> HIDE DEF h
        <5> QED
          BY <4>2, <5>2
      <4> QED
        BY <4>1, <4>2
    <3>3. h = [i \in 1..n |-> h[i]]
      OBVIOUS
    <3> HIDE DEF h
    <3>4. h = Body(h)
      BY <3>2, <3>3
    <3> QED
      BY <3>4
  <2> HIDE DEF Body
  <2>3. flatten = Body(flatten)
    BY <2>2, Zenon
  <2> HIDE DEF flatten
  <2>4. \A i \in 1..n : flatten[i] = IF i = 1 THEN ss[i] ELSE flatten[i - 1] \o ss[i]
    <3>1. \A i \in 1..n : Body(flatten)[i] = IF i = 1 THEN ss[i] ELSE flatten[i - 1] \o ss[i]
      BY DEF Body
    <3> QED
      BY <2>3, <3>1
  <2> DEFINE Bad == {i \in 0..n : i # 0 /\ flatten[i] # g[i]}
  <2>5. Bad = {}
    <3>1. SUFFICES ASSUME Bad # {} PROVE FALSE
      OBVIOUS
    <3>2. PICK m \in Bad : m = 0 \/ (m \in 1..n /\ m - 1 \in 0..n /\ m - 1 \notin Bad)
      <4>1. Bad \in SUBSET (0..n)
        OBVIOUS
      <4> HIDE DEF Bad
      <4> QED
        BY <1>1, <3>1, <4>1, LeastUpTo
    <3>3. m \in 1..n /\ flatten[m] # g[m] /\ (m = 1 \/ flatten[m - 1] = g[m - 1])
      BY <1>1, <3>2
    <3>4. CASE m = 1
      <4>1. flatten[1] = ss[1] /\ g[1] = ss[1]
        BY <1>2a, <1>4, <2>4
      <4> QED
        BY <3>3, <3>4, <4>1
    <3>5. CASE m # 1
      <4>1. flatten[m] = flatten[m - 1] \o ss[m]
        BY <2>4, <3>3, <3>5
      <4> QED
        BY <1>2, <3>3, <3>5, <4>1
    <3> QED
      BY <3>4, <3>5
  <2>6. n \in 0..n
    BY <1>1
  <2> QED
    BY <1>4, <2>1, <2>5, <2>6 DEF n
<1> QED
  BY <1>3, <1>4

LEMMA FlattenTyped ==
    ASSUME NEW S, NEW ss \in Seq(Seq(S))
    PROVE  FlattenSeq(ss) \in Seq(S)
<1>1. PICK g : Joins(S, g, ss)
  BY JoinExists
<1>2. Len(ss) \in 0..Len(ss)
  OBVIOUS
<1> QED
  BY <1>1, <1>2, FlattenJoins DEF Joins

LEMMA FlattenAppend ==
    ASSUME NEW S, NEW ss \in Seq(Seq(S)), NEW x \in Seq(S)
    PROVE  /\ FlattenSeq(ss) \in Seq(S)
           /\ FlattenSeq(Append(ss, x)) = FlattenSeq(ss) \o x
<1> DEFINE n == Len(ss)
           more == Append(ss, x)
<1>1. /\ n \in Nat /\ more \in Seq(Seq(S)) /\ Len(more) = n + 1
      /\ more[n + 1] = x /\ \A i \in 1..n : more[i] = ss[i]
  OBVIOUS
<1>2. PICK g : Joins(S, g, ss)
  BY JoinExists
<1>3. /\ g \in [0..n -> Seq(S)] /\ g[0] = <<>>
      /\ \A i \in 1..n : g[i] = g[i - 1] \o ss[i]
  BY <1>2 DEF Joins
<1>4. FlattenSeq(ss) = g[n] /\ g[n] \in Seq(S)
  BY <1>1, <1>2, <1>3, FlattenJoins
<1> DEFINE end == g[n] \o x
           h == [i \in 0..(n + 1) |-> IF i = n + 1 THEN end ELSE g[i]]
<1>5. end \in Seq(S)
  BY <1>4
<1> HIDE DEF n, more, end
<1>6. h \in [0..(n + 1) -> Seq(S)]
  BY <1>1, <1>3, <1>5
<1>7. /\ \A i \in 0..n : h[i] = g[i]
      /\ h[n + 1] = end
  BY <1>1
<1> HIDE DEF h
<1>8. h[0] = <<>>
  BY <1>1, <1>3, <1>7
<1>9. ASSUME NEW i \in 1..(n + 1) PROVE h[i] = h[i - 1] \o more[i]
  <2>1. CASE i = n + 1
    <3>1. n \in 0..n /\ i - 1 = n
      <4>1. n \in Nat
        BY <1>1
      <4> QED
        BY <2>1, <4>1
    <3>2. h[n + 1] = g[n] \o x /\ h[n] = g[n] /\ more[n + 1] = x
      BY <1>1, <1>7, <3>1 DEF end
    <3> QED
      BY <2>1, <3>1, <3>2
  <2>2. CASE i # n + 1
    <3>1. i \in 1..n /\ i \in 0..n /\ i - 1 \in 0..n
      BY <1>1, <2>2
    <3> QED
      BY <1>1, <1>3, <1>7, <3>1
  <2> QED
    BY <2>1, <2>2
<1>10. Joins(S, h, more)
  BY <1>1, <1>6, <1>8, <1>9 DEF Joins
<1>11. FlattenSeq(more) = h[n + 1]
  BY <1>1, <1>10, FlattenJoins
<1> QED
  BY <1>4, <1>7, <1>11 DEF more, end

LEMMA FlattenEmpty == FlattenSeq(<<>>) = <<>>
  BY DEF FlattenSeq

LEMMA FlattenSplit ==
    ASSUME NEW S, NEW ss \in Seq(Seq(S)), NEW tt \in Seq(Seq(S))
    PROVE  FlattenSeq(ss \o tt) = FlattenSeq(ss) \o FlattenSeq(tt)
<1> DEFINE T == Seq(S)
           Good == {t \in Seq(T) : FlattenSeq(ss \o t) = FlattenSeq(ss) \o FlattenSeq(t)}
<1>1. <<>> \in Good
  <2>1. <<>> \in Seq(T) /\ ss \o <<>> = ss /\ FlattenSeq(ss) \in Seq(S)
    BY EmptySeq, ConcatEmptySeq, FlattenTyped
  <2>2. FlattenSeq(ss) \o FlattenSeq(<<>>) = FlattenSeq(ss)
    BY <2>1, ConcatEmptySeq, FlattenEmpty
  <2> HIDE DEF T
  <2> QED
    BY <2>1, <2>2
<1>2. ASSUME NEW t \in Seq(T), NEW e \in T, t \in Good PROVE Append(t, e) \in Good
  <2>1. Append(t, e) \in Seq(T) /\ ss \o t \in Seq(T) /\ ss \o Append(t, e) = Append(ss \o t, e)
    OBVIOUS
  <2>2. /\ FlattenSeq(Append(t, e)) = FlattenSeq(t) \o e
        /\ FlattenSeq(Append(ss \o t, e)) = FlattenSeq(ss \o t) \o e
    BY <2>1, FlattenAppend
  <2>3. FlattenSeq(ss) \in Seq(S) /\ FlattenSeq(t) \in Seq(S) /\ e \in Seq(S)
    BY FlattenTyped
  <2>4. (FlattenSeq(ss) \o FlattenSeq(t)) \o e = FlattenSeq(ss) \o (FlattenSeq(t) \o e)
    <3>1. \A a, b, c \in Seq(S) : (a \o b) \o c = a \o (b \o c)
      BY ConcatAssociative
    <3> QED
      BY <2>3, <3>1, Zenon
  <2> QED
    BY <1>2, <2>1, <2>2, <2>4
<1>3. \A t \in Seq(T) : t \in Good
  <2> HIDE DEF Good, T
  <2> QED
    BY <1>1, <1>2, GrowSequence
<1> QED
  BY <1>3

----------------------------------------------------------------------------
(* How often an element stands in a sequence. *)

Places(s, x) == {k \in DOMAIN s : s[k] = x}
Count(s, x) == Cardinality(Places(s, x))

LEMMA CountTyped ==
    ASSUME NEW S, NEW s \in Seq(S), NEW x
    PROVE  IsFiniteSet(Places(s, x)) /\ Count(s, x) \in Nat
<1>1. IsFiniteSet(1..Len(s)) /\ DOMAIN s = 1..Len(s)
  BY FS_Interval
<1>2. Places(s, x) \in SUBSET (1..Len(s))
  BY <1>1 DEF Places
<1>3. IsFiniteSet(Places(s, x))
  BY <1>1, <1>2, FS_Subset
<1> QED
  BY <1>3, FS_CardinalityType DEF Count

LEMMA CountAppend ==
    ASSUME NEW S, NEW s \in Seq(S), NEW e \in S, NEW x
    PROVE  Count(Append(s, e), x) = Count(s, x) + (IF e = x THEN 1 ELSE 0)
<1> DEFINE n == Len(s)
           more == Append(s, e)
<1>1. /\ n \in Nat /\ DOMAIN s = 1..n /\ DOMAIN more = 1..(n + 1)
      /\ more[n + 1] = e /\ \A k \in 1..n : more[k] = s[k]
  OBVIOUS
<1>2. IsFiniteSet(Places(s, x)) /\ Cardinality(Places(s, x)) \in Nat
  BY CountTyped DEF Count
<1> HIDE DEF n, more
<1>3. n + 1 \notin Places(s, x)
  BY <1>1 DEF Places
<1>4. Places(more, x) = IF e = x THEN Places(s, x) \cup {n + 1} ELSE Places(s, x)
  BY <1>1 DEF Places
<1>5. Cardinality(Places(s, x) \cup {n + 1}) = Cardinality(Places(s, x)) + 1
  BY <1>2, <1>3, FS_AddElement
<1>6. Count(more, x) = Count(s, x) + (IF e = x THEN 1 ELSE 0)
  BY <1>2, <1>4, <1>5 DEF Count
<1> QED
  BY <1>6 DEF more

LEMMA CountEmpty == \A x : Count(<<>>, x) = 0
<1>1. \A x : Places(<<>>, x) = {}
  BY DEF Places
<1> QED
  BY <1>1, FS_EmptySet DEF Count

LEMMA CountConcat ==
    ASSUME NEW S, NEW s \in Seq(S), NEW t \in Seq(S), NEW x
    PROVE  Count(s \o t, x) = Count(s, x) + Count(t, x)
<1> DEFINE Good == {u \in Seq(S) : Count(s \o u, x) = Count(s, x) + Count(u, x)}
<1>1. <<>> \in Good
  <2>1. s \o <<>> = s /\ <<>> \in Seq(S) /\ Count(s, x) \in Nat
    BY ConcatEmptySeq, EmptySeq, CountTyped
  <2>2. Count(<<>>, x) = 0
    BY CountEmpty
  <2> QED
    BY <2>1, <2>2
<1>2. ASSUME NEW u \in Seq(S), NEW e \in S, u \in Good PROVE Append(u, e) \in Good
  <2>1. s \o Append(u, e) = Append(s \o u, e) /\ s \o u \in Seq(S) /\ Append(u, e) \in Seq(S)
    OBVIOUS
  <2>2. \A t1 \in Seq(S) : Count(Append(t1, e), x) = Count(t1, x) + (IF e = x THEN 1 ELSE 0)
    BY CountAppend
  <2>3. Count(s, x) \in Nat /\ Count(u, x) \in Nat
    BY CountTyped
  <2>4. Count(s \o u, x) = Count(s, x) + Count(u, x)
    BY <1>2
  <2>5. /\ Count(s \o Append(u, e), x) = Count(s \o u, x) + (IF e = x THEN 1 ELSE 0)
        /\ Count(Append(u, e), x) = Count(u, x) + (IF e = x THEN 1 ELSE 0)
    BY <2>1, <2>2, Zenon
  <2>6. Count(s \o Append(u, e), x) = Count(s, x) + Count(Append(u, e), x)
    BY <2>3, <2>4, <2>5
  <2> QED
    BY <2>1, <2>6
<1>3. \A u \in Seq(S) : u \in Good
  <2> HIDE DEF Good
  <2> QED
    BY <1>1, <1>2, GrowSequence
<1> QED
  BY <1>3

LEMMA CountOne ==
    ASSUME NEW S, NEW e \in S, NEW x
    PROVE  <<e>> \in Seq(S) /\ Count(<<e>>, x) = IF e = x THEN 1 ELSE 0
<1>1. <<>> \in Seq(S) /\ <<e>> \in Seq(S) /\ Append(<<>>, e) = <<e>>
  OBVIOUS
<1>2. \A t1 \in Seq(S) : Count(Append(t1, e), x) = Count(t1, x) + (IF e = x THEN 1 ELSE 0)
  BY CountAppend
<1>3. Count(Append(<<>>, e), x) = Count(<<>>, x) + (IF e = x THEN 1 ELSE 0)
  BY <1>1, <1>2, Zenon
<1>4. Count(<<e>>, x) = 0 + (IF e = x THEN 1 ELSE 0)
  BY <1>1, <1>3, CountEmpty, Zenon
<1> QED
  BY <1>1, <1>4

\* What counting says of positions.
LEMMA CountSome ==
    ASSUME NEW S, NEW s \in Seq(S), NEW x
    PROVE  Count(s, x) > 0 <=> \E k \in DOMAIN s : s[k] = x
<1>1. IsFiniteSet(Places(s, x)) /\ Count(s, x) \in Nat
  BY CountTyped
<1>2. Count(s, x) = 0 <=> Places(s, x) = {}
  BY <1>1, FS_EmptySet DEF Count
<1>3. Places(s, x) = {} <=> ~\E k \in DOMAIN s : s[k] = x
  BY DEF Places
<1> QED
  BY <1>1, <1>2, <1>3

LEMMA CountOnce ==
    ASSUME NEW S, NEW s \in Seq(S), NEW x,
           \A i, j \in DOMAIN s : s[i] = x /\ s[j] = x => i = j
    PROVE  Count(s, x) <= 1
<1>1. CASE Places(s, x) = {}
  BY <1>1, FS_EmptySet DEF Count
<1>2. CASE Places(s, x) # {}
  <2>1. PICK k : k \in Places(s, x)
    BY <1>2
  <2>2. Places(s, x) = {k}
    BY <2>1 DEF Places
  <2>3. Cardinality({k}) = 1
    BY FS_Singleton
  <2> QED
    BY <2>2, <2>3 DEF Count
<1> QED
  BY <1>1, <1>2

LEMMA OnceCounted ==
    ASSUME NEW S, NEW s \in Seq(S), NEW x, Count(s, x) <= 1,
           NEW i \in DOMAIN s, NEW j \in DOMAIN s, s[i] = x, s[j] = x
    PROVE  i = j
<1>1. IsFiniteSet(Places(s, x)) /\ Count(s, x) \in Nat
  BY CountTyped
<1>2. i \in Places(s, x) /\ j \in Places(s, x)
  BY DEF Places
<1>3. Cardinality(Places(s, x)) # 0
  BY <1>1, <1>2, FS_EmptySet
<1>4. Cardinality(Places(s, x)) = 1
  BY <1>1, <1>3 DEF Count
<1>5. \E y : Places(s, x) = {y}
  BY <1>1, <1>4, FS_Singleton
<1> QED
  BY <1>2, <1>5

----------------------------------------------------------------------------
(* To the client and back. *)

Held == [content : Text, calls : Seq(Call)]

Framed == [type : {"content"}, body : Text] \cup [type : {"begin", "arguments"}, body : Nat \X Call]

LEMMA JoinedTyped == \A m \in Held, f \in Framed : Joined(m, f) \in Held
<1> SUFFICES ASSUME NEW m \in Held, NEW f \in Framed PROVE Joined(m, f) \in Held
  OBVIOUS
<1>1. CASE f \in [type : {"content"}, body : Text]
  <2>1. m.content \in Text /\ f.body \in Text /\ f.type = "content"
    BY <1>1 DEF Held
  <2>2. m.content \o f.body \in Text
    BY <2>1 DEF Text
  <2> QED
    BY <2>1, <2>2 DEF Joined, Held
<1>2. CASE f \in [type : {"begin", "arguments"}, body : Nat \X Call]
  <2>1. m.calls \in Seq(Call) /\ f.body[2] \in Call /\ f.type \in {"begin", "arguments"}
    BY <1>2 DEF Held
  <2>2. Append(m.calls, f.body[2]) \in Seq(Call)
    BY <2>1
  <2> QED
    BY <2>1, <2>2 DEF Joined, Held
<1> QED
  BY <1>1, <1>2 DEF Framed

\* g is what the client has after each of the frames fs.
Assembles(g, fs) ==
    /\ g \in [0..Len(fs) -> Held]
    /\ g[0] = Message(<<>>, <<>>)
    /\ \A k \in 1..Len(fs) : g[k] = Joined(g[k - 1], fs[k])

LEMMA AssembledIs ==
    ASSUME NEW fs \in Seq(Framed)
    PROVE  \E g : Assembles(g, fs) /\ Assembled(fs) = g[Len(fs)]
<1> DEFINE n == Len(fs)
           base == Message(<<>>, <<>>)
           Body(f) == [k \in 0..n |-> IF k = 0 THEN base ELSE Joined(f[k - 1], fs[k])]
           got == CHOOSE f : f = Body(f)
           step == [k \in 1..n |-> [m \in Held |-> Joined(m, fs[k])]]
<1>1. n \in Nat /\ \A k \in 1..n : fs[k] \in Framed
  OBVIOUS
<1>2. base \in Held
  BY DEF Message, Held, Text
<1>3. Assembled(fs) = got[n]
  BY DEF Assembled
<1> HIDE DEF n, base
<1>4. step \in [1..n -> [Held -> Held]]
  BY <1>1, JoinedTyped
<1>5. \A k \in 1..n, m \in Held : step[k][m] = Joined(m, fs[k])
  OBVIOUS
<1> HIDE DEF step
<1>6. PICK g \in [0..n -> Held] : g[0] = base /\ \A k \in 1..n : g[k] = step[k][g[k - 1]]
  <2>1. Iterates(Held, base, n, step)
    BY <1>1, <1>2, <1>4, Iteration
  <2> QED
    BY <2>1 DEF Iterates
<1>7. \A k \in 1..n : g[k] = Joined(g[k - 1], fs[k])
  <2> TAKE k \in 1..n
  <2>1. k - 1 \in 0..n
    BY <1>1
  <2> QED
    BY <1>5, <1>6, <2>1
<1>8. g = Body(g)
  <2>1. \A k \in 0..n : g[k] = IF k = 0 THEN base ELSE Joined(g[k - 1], fs[k])
    <3> TAKE k \in 0..n
    <3>1. k # 0 => k \in 1..n
      BY <1>1
    <3> QED
      BY <1>6, <1>7, <3>1
  <2>2. g = [k \in 0..n |-> g[k]]
    BY <1>6
  <2> QED
    BY <2>1, <2>2
<1> HIDE DEF Body
<1>9. got = Body(got)
  BY <1>8, Zenon
<1> HIDE DEF got
<1>10. \A k \in 0..n : got[k] = IF k = 0 THEN base ELSE Joined(got[k - 1], fs[k])
  <2>1. \A k \in 0..n : Body(got)[k] = IF k = 0 THEN base ELSE Joined(got[k - 1], fs[k])
    BY DEF Body
  <2> QED
    BY <1>9, <2>1
<1> DEFINE Same == {k \in 0..n : got[k] = g[k]}
<1>11. 0 \in Same
  BY <1>1, <1>6, <1>10
<1>12. ASSUME NEW k \in 1..n, k - 1 \in Same PROVE k \in Same
  <2>1. k \in 0..n /\ k # 0 /\ got[k - 1] = g[k - 1]
    BY <1>1, <1>12
  <2> QED
    BY <1>7, <1>10, <2>1
<1>13. \A k \in 0..n : k \in Same
  <2>1. Same \in SUBSET (0..n)
    OBVIOUS
  <2> HIDE DEF Same
  <2> QED
    BY <1>1, <1>11, <1>12, <2>1, CountUp
<1>14. got[n] = g[n]
  BY <1>1, <1>13
<1>15. Assembles(g, fs)
  BY <1>6, <1>7 DEF Assembles, n, base
<1> QED
  BY <1>3, <1>14, <1>15 DEF n

LEMMA AssembledAppend ==
    ASSUME NEW fs \in Seq(Framed), NEW f \in Framed
    PROVE  Assembled(fs) \in Held /\ Assembled(Append(fs, f)) = Joined(Assembled(fs), f)
<1> DEFINE n == Len(fs)
           more == Append(fs, f)
<1>1. /\ n \in Nat /\ more \in Seq(Framed) /\ Len(more) = n + 1
      /\ more[n + 1] = f /\ \A k \in 1..n : more[k] = fs[k]
  OBVIOUS
<1>2. PICK g : Assembles(g, fs) /\ Assembled(fs) = g[n]
  BY AssembledIs
<1>3. PICK h : Assembles(h, more) /\ Assembled(more) = h[n + 1]
  BY <1>1, AssembledIs
<1>4. /\ g \in [0..n -> Held] /\ g[0] = Message(<<>>, <<>>)
      /\ \A k \in 1..n : g[k] = Joined(g[k - 1], fs[k])
  BY <1>2 DEF Assembles
<1> HIDE DEF n, more
<1>5. /\ h[0] = Message(<<>>, <<>>)
      /\ \A k \in 1..(n + 1) : h[k] = Joined(h[k - 1], more[k])
  BY <1>1, <1>3 DEF Assembles
<1> DEFINE Same == {k \in 0..n : h[k] = g[k]}
<1>6. 0 \in Same
  BY <1>1, <1>4, <1>5
<1>7. ASSUME NEW k \in 1..n, k - 1 \in Same PROVE k \in Same
  <2>1. k \in 0..n /\ k \in 1..(n + 1) /\ h[k - 1] = g[k - 1]
    BY <1>1, <1>7
  <2> QED
    BY <1>1, <1>4, <1>5, <2>1
<1>8. \A k \in 0..n : k \in Same
  <2>1. Same \in SUBSET (0..n)
    OBVIOUS
  <2> HIDE DEF Same
  <2> QED
    BY <1>1, <1>6, <1>7, <2>1, CountUp
<1>9. h[n] = g[n] /\ g[n] \in Held
  BY <1>1, <1>4, <1>8
<1>10. h[n + 1] = Joined(h[n], f)
  <2>1. n + 1 \in 1..(n + 1) /\ (n + 1) - 1 = n
    BY <1>1
  <2> QED
    BY <1>1, <1>5, <2>1
<1> QED
  BY <1>2, <1>3, <1>9, <1>10 DEF more

\* How many frames there are, and where they end.
Ends(c) ==
    LET n == (Len(c) + ChunkSize - 1) \div ChunkSize
    IN [k \in 0..n |-> IF k < n THEN k * ChunkSize ELSE Len(c)]

LEMMA Division ==
    ASSUME NEW L \in Nat, NEW C \in Nat \ {0}
    PROVE  LET n == (L + C - 1) \div C
           IN n \in Nat /\ (n = 0 => L = 0) /\ (n > 0 => (n - 1) * C < L)
<1>1. (L + C - 1) \div C \in Nat
  BY SMT
<1>2. (L + C - 1) \div C = 0 => L = 0
  BY SMT
<1>3. (L + C - 1) \div C > 0 => ((L + C - 1) \div C - 1) * C < L
  BY SMT
<1> QED
  BY <1>1, <1>2, <1>3

LEMMA Below ==
    ASSUME NEW C \in Nat \ {0}, NEW n \in Nat, NEW k \in 1..n
    PROVE  (k - 1) * C \in Nat /\ k * C \in Nat /\ (k - 1) * C <= k * C /\ (k - 1) * C <= (n - 1) * C
<1>1. (k - 1) * C \in Nat /\ k * C \in Nat
  BY SMT
<1>2. (k - 1) * C <= k * C
  BY SMT
<1>3. (k - 1) * C <= (n - 1) * C
  BY SMT
<1> QED
  BY <1>1, <1>2, <1>3

LEMMA ChunksAre ==
    ASSUME NEW c \in Text
    PROVE  \E n \in Nat :
              /\ Chunks(c) \in Seq(Text) /\ Len(Chunks(c)) = n
              /\ Ends(c) \in [0..n -> 0..Len(c)] /\ Ends(c)[0] = 0 /\ Ends(c)[n] = Len(c)
              /\ \A k \in 1..n : /\ Ends(c)[k - 1] <= Ends(c)[k]
                                 /\ Chunks(c)[k] = SubSeq(c, Ends(c)[k - 1] + 1, Ends(c)[k])
<1> DEFINE L == Len(c)
           C == ChunkSize
           n == (L + C - 1) \div C
           e == Ends(c)
<1>1. L \in Nat /\ C \in Nat \ {0}
  BY SizeAssumption DEF Text
<1>2. n \in Nat /\ (n = 0 => L = 0) /\ (n > 0 => (n - 1) * C < L)
  BY <1>1, Division
<1>3. e = [k \in 0..n |-> IF k < n THEN k * C ELSE L]
  BY DEF Ends
<1>4. Chunks(c) = [k \in 1..n |-> SubSeq(c, (k - 1) * C + 1, IF k < n THEN k * C ELSE L)]
  BY DEF Chunks
<1> HIDE DEF e, n, C
<1>5. e[n] = L
  BY <1>2, <1>3
<1>6. e[0] = 0
  <2>1. CASE n = 0
    BY <1>2, <1>3, <2>1
  <2>2. CASE n # 0
    <3>1. 0 \in 0..n /\ 0 < n /\ 0 * C = 0
      BY <1>1, <1>2, <2>2
    <3> QED
      BY <1>3, <3>1
  <2> QED
    BY <2>1, <2>2
<1>7. \A k \in 1..n : /\ (k - 1) * C \in Nat /\ k * C \in Nat
                      /\ (k - 1) * C <= k * C /\ (k - 1) * C <= (n - 1) * C
  BY <1>1, <1>2, Below
<1>8. ASSUME NEW k \in 1..n
      PROVE  e[k - 1] = (k - 1) * C /\ e[k - 1] \in 0..L
  <2>1. k - 1 \in 0..n /\ k - 1 < n
    BY <1>2
  <2>2. (n - 1) * C < L
    BY <1>2, <2>1
  <2>3. n \in 1..n
    BY <1>2, <2>1
  <2>4. (k - 1) * C \in Nat /\ (n - 1) * C \in Nat /\ (k - 1) * C <= (n - 1) * C
    BY <1>7, <2>3
  <2>5. (k - 1) * C \in 0..L
    BY <1>1, <2>2, <2>4
  <2> QED
    BY <1>3, <2>1, <2>5
<1>9. ASSUME NEW k \in 1..n
      PROVE  /\ e[k] \in 0..L /\ e[k - 1] <= e[k]
             /\ e[k] = IF k < n THEN k * C ELSE L
  <2>1. k \in 0..n
    BY <1>2
  <2>2. e[k] = IF k < n THEN k * C ELSE L
    BY <1>3, <2>1
  <2>3. CASE k < n
    <3>1. k + 1 \in 1..n /\ (k + 1) - 1 = k
      BY <1>2, <2>3
    <3>2. e[k] \in 0..L
      BY <1>8, <3>1
    <3> QED
      BY <1>7, <1>8, <2>2, <2>3, <3>2
  <2>4. CASE ~(k < n)
    BY <1>1, <1>8, <2>2, <2>4
  <2> QED
    BY <2>3, <2>4
<1>10. e \in [0..n -> 0..L]
  <2>1. \A k \in 0..n : e[k] \in 0..L
    <3> TAKE k \in 0..n
    <3>1. k = 0 \/ k \in 1..n
      BY <1>2
    <3> QED
      BY <1>1, <1>6, <1>9, <3>1
  <2> QED
    BY <1>3, <2>1
<1>11. \A k \in 1..n : Chunks(c)[k] = SubSeq(c, e[k - 1] + 1, e[k])
  BY <1>4, <1>8, <1>9
<1>12. \A k \in 1..n : Chunks(c)[k] \in Text
  <2> TAKE k \in 1..n
  <2>1. e[k - 1] \in 0..L /\ e[k] \in 0..L
    BY <1>8, <1>9
  <2>2. SubSeq(c, e[k - 1] + 1, e[k]) \in Text
    <3>1. \A i \in (e[k - 1] + 1)..e[k] : c[i] \in Piece
      BY <1>1, <2>1 DEF Text
    <3>2. e[k - 1] + 1 \in Int /\ e[k] \in Int
      BY <1>1, <2>1
    <3> QED
      BY <3>1, <3>2, SubSeqProperties DEF Text
  <2> QED
    BY <1>11, <2>2
<1>13. Chunks(c) \in Seq(Text) /\ Len(Chunks(c)) = n
  <2>1. DOMAIN Chunks(c) = 1..n /\ Chunks(c) = [k \in 1..n |-> Chunks(c)[k]]
    BY <1>4
  <2> QED
    BY <1>2, <1>12, <2>1
<1> QED
  BY <1>2, <1>5, <1>6, <1>9, <1>10, <1>11, <1>13 DEF e

ContentFrames(c) == [k \in DOMAIN Chunks(c) |-> Frame("content", Chunks(c)[k])]

\* The frames of the content give the content back.
LEMMA ContentJoined ==
    ASSUME NEW c \in Text
    PROVE  /\ ContentFrames(c) \in Seq(Framed)
           /\ Assembled(ContentFrames(c)) = Message(c, <<>>)
<1> DEFINE fs == ContentFrames(c)
           e == Ends(c)
           L == Len(c)
<1>1. PICK n \in Nat :
        /\ Chunks(c) \in Seq(Text) /\ Len(Chunks(c)) = n
        /\ e \in [0..n -> 0..L] /\ e[0] = 0 /\ e[n] = L
        /\ \A k \in 1..n : e[k - 1] <= e[k] /\ Chunks(c)[k] = SubSeq(c, e[k - 1] + 1, e[k])
  BY ChunksAre
<1> HIDE DEF e
<1>2. L \in Nat
  BY DEF Text
<1>3. \A k \in 1..n : fs[k] = Frame("content", Chunks(c)[k]) /\ Chunks(c)[k] \in Text
  BY <1>1 DEF ContentFrames
<1>4. fs \in Seq(Framed) /\ Len(fs) = n
  <2>1. \A x \in Text : Frame("content", x) \in Framed
    BY DEF Framed, Frame
  <2>2. fs = [k \in 1..n |-> fs[k]]
    BY <1>1 DEF ContentFrames
  <2>3. n \in Nat
    BY <1>1
  <2> HIDE DEF fs
  <2>4. \A k \in 1..n : fs[k] \in Framed
    BY <1>3, <2>1, Zenon
  <2> QED
    BY <2>2, <2>3, <2>4
<1> HIDE DEF fs
<1>5. PICK g : Assembles(g, fs) /\ Assembled(fs) = g[n]
  BY <1>4, AssembledIs
<1>6. /\ g[0] = Message(<<>>, <<>>)
      /\ \A k \in 1..n : g[k] = Joined(g[k - 1], fs[k])
  BY <1>4, <1>5 DEF Assembles
<1> DEFINE So(k) == Message(SubSeq(c, 1, e[k]), <<>>)
           Good == {k \in 0..n : g[k] = So(k)}
<1>7. 0 \in Good
  <2>1. SubSeq(c, 1, 0) = <<>> /\ e[0] = 0 /\ 0 \in 0..n
    BY <1>1, SubSeqEmpty
  <2>2. g[0] = So(0)
    BY <1>6, <2>1, Zenon
  <2> QED
    BY <2>1, <2>2
<1>8. ASSUME NEW k \in 1..n, k - 1 \in Good PROVE k \in Good
  <2>1. k \in 0..n /\ k - 1 \in 0..n /\ e[k - 1] \in 0..L /\ e[k] \in 0..L /\ e[k - 1] <= e[k]
    BY <1>1
  <2>2. g[k] = Joined(So(k - 1), Frame("content", SubSeq(c, e[k - 1] + 1, e[k])))
    BY <1>1, <1>3, <1>6, <1>8
  <2>3. Joined(So(k - 1), Frame("content", SubSeq(c, e[k - 1] + 1, e[k])))
          = Message(SubSeq(c, 1, e[k - 1]) \o SubSeq(c, e[k - 1] + 1, e[k]), <<>>)
    BY DEF Joined, Message, Frame
  <2>4. SubSeq(c, 1, e[k - 1]) \o SubSeq(c, e[k - 1] + 1, e[k]) = SubSeq(c, 1, e[k])
    <3>1. 1 \in 1..(Len(c) + 1) /\ e[k - 1] \in (1 - 1)..Len(c) /\ e[k] \in e[k - 1]..Len(c)
      BY <1>2, <2>1
    <3> QED
      BY <3>1, ConcatAdjacentSubSeq DEF Text
  <2> QED
    BY <2>1, <2>2, <2>3, <2>4
<1>9. n \in Good
  <2>1. Good \in SUBSET (0..n) /\ n \in 0..n
    BY <1>1
  <2> HIDE DEF Good
  <2>2. \A k \in 0..n : k \in Good
    BY <1>1, <1>7, <1>8, <2>1, CountUp
  <2> QED
    BY <2>1, <2>2
<1>10. SubSeq(c, 1, L) = c
  BY SubSeqFull DEF Text
<1> QED
  BY <1>1, <1>4, <1>5, <1>9, <1>10 DEF fs

LEMMA AppendTwo ==
    ASSUME NEW S, NEW s \in Seq(S), NEW t \in Seq(S), NEW a \in S, NEW b \in S
    PROVE  s \o (t \o <<a, b>>) = Append(Append(s \o t, a), b)
<1> DEFINE l == s \o (t \o <<a, b>>)
           r == Append(Append(s \o t, a), b)
<1>1. t \o <<a, b>> \in Seq(S) /\ Len(t \o <<a, b>>) = Len(t) + 2
  OBVIOUS
<1>2. l \in Seq(S) /\ Len(l) = Len(s) + Len(t) + 2
  BY <1>1
<1>3. r \in Seq(S) /\ Len(r) = Len(s) + Len(t) + 2
  OBVIOUS
<1>4. ASSUME NEW i \in 1..Len(l) PROVE l[i] = r[i]
  <2>1. CASE i <= Len(s)
    BY <1>1, <1>2, <2>1
  <2>2. CASE i > Len(s) /\ i <= Len(s) + Len(t)
    BY <1>1, <1>2, <2>2
  <2>3. CASE i = Len(s) + Len(t) + 1
    BY <1>1, <1>2, <2>3
  <2>4. CASE i = Len(s) + Len(t) + 2
    BY <1>1, <1>2, <2>4
  <2> QED
    BY <1>2, <2>1, <2>2, <2>3, <2>4
<1> HIDE DEF l, r
<1>5. l = r
  BY <1>2, <1>3, <1>4, SeqEqual
<1> QED
  BY <1>5 DEF l, r

\* All frames of a message give the message back.
LEMMA StreamJoined ==
    ASSUME NEW c \in Text, NEW cs \in Seq(Call)
    PROVE  Assembled(Stream(c, cs)) = Message(c, cs)
<1> DEFINE n == Len(cs)
           fs == ContentFrames(c)
           begin(i) == Frame("begin", <<i, cs[i]>>)
           args(i) == Frame("arguments", <<i, cs[i]>>)
           pairs(m) == [i \in 1..m |-> <<begin(i), args(i)>>]
           sent(m) == fs \o FlattenSeq(pairs(m))
           Good == {m \in 0..n : /\ sent(m) \in Seq(Framed)
                                 /\ Assembled(sent(m)) = Message(c, SubSeq(cs, 1, m))}
<1>1. n \in Nat /\ DOMAIN cs = 1..n /\ \A i \in 1..n : cs[i] \in Call
  OBVIOUS
<1>2. fs \in Seq(Framed) /\ Assembled(fs) = Message(c, <<>>)
  BY ContentJoined
<1>3. \A i \in 1..n : begin(i) \in Framed /\ args(i) \in Framed
  BY <1>1 DEF Framed, Frame
<1>4. Stream(c, cs) = sent(n)
  BY <1>1 DEF Stream, ContentFrames
<1> HIDE DEF begin, args, fs, n
<1>5. \A m \in 0..n : pairs(m) \in Seq(Seq(Framed))
  <2> TAKE m \in 0..n
  <2>1. \A i \in 1..m : <<begin(i), args(i)>> \in Seq(Framed)
    BY <1>1, <1>3
  <2> QED
    BY <1>1, <2>1
<1>6. 0 \in Good
  <2>1. pairs(0) = <<>> /\ SubSeq(cs, 1, 0) = <<>>
    BY SubSeqEmpty
  <2>2. fs \o <<>> = fs
    BY <1>2, ConcatEmptySeq
  <2>3. sent(0) = fs
    BY <2>1, <2>2, FlattenEmpty
  <2>4. 0 \in 0..n
    BY <1>1
  <2> HIDE DEF sent
  <2> QED
    BY <1>2, <2>1, <2>3, <2>4
<1>7. ASSUME NEW m \in 1..n, m - 1 \in Good PROVE m \in Good
  <2> DEFINE was == sent(m - 1)
             flat == FlattenSeq(pairs(m - 1))
  <2>1. m \in 0..n /\ m - 1 \in 0..n
    BY <1>1
  <2>2. pairs(m) = Append(pairs(m - 1), <<begin(m), args(m)>>)
    BY <1>1
  <2>3. begin(m) \in Framed /\ args(m) \in Framed
    BY <1>3
  <2>4. flat \in Seq(Framed) /\ FlattenSeq(pairs(m)) = flat \o <<begin(m), args(m)>>
    <3>1. pairs(m - 1) \in Seq(Seq(Framed)) /\ <<begin(m), args(m)>> \in Seq(Framed)
      BY <1>5, <2>1, <2>3
    <3> HIDE DEF pairs
    <3> QED
      BY <2>2, <3>1, FlattenAppend
  <2>5. was \in Seq(Framed) /\ Assembled(was) = Message(c, SubSeq(cs, 1, m - 1))
    BY <1>7
  <2> HIDE DEF flat, pairs
  <2>6. sent(m) = Append(Append(was, begin(m)), args(m))
    BY <1>2, <2>3, <2>4, AppendTwo DEF flat
  <2> HIDE DEF was
  <2>7. /\ Append(was, begin(m)) \in Seq(Framed)
        /\ Append(Append(was, begin(m)), args(m)) \in Seq(Framed)
    BY <2>3, <2>5
  <2>8. Assembled(sent(m)) = Joined(Joined(Message(c, SubSeq(cs, 1, m - 1)), begin(m)), args(m))
    <3>1. \A s \in Seq(Framed), f \in Framed : Assembled(Append(s, f)) = Joined(Assembled(s), f)
      BY AssembledAppend
    <3> QED
      BY <2>3, <2>5, <2>6, <2>7, <3>1, Zenon
  <2>9. Joined(Joined(Message(c, SubSeq(cs, 1, m - 1)), begin(m)), args(m))
          = Message(c, Append(SubSeq(cs, 1, m - 1), cs[m]))
    BY DEF Joined, Message, Frame, begin, args
  <2>10. Append(SubSeq(cs, 1, m - 1), cs[m]) = SubSeq(cs, 1, m)
    <3>1. 1 \in 1..Len(cs) /\ m \in 1..Len(cs)
      BY <1>1 DEF n
    <3>2. SubSeq(cs, 1, m) = SubSeq(cs, 1, m - 1) \o <<cs[m]>>
      BY <3>1, SubSeqRecursiveSecond
    <3>3. SubSeq(cs, 1, m - 1) \in Seq(Call)
      BY <1>1, <2>1 DEF n
    <3> QED
      BY <1>1, <3>2, <3>3, AppendIsConcat
  <2>11. sent(m) \in Seq(Framed)
    BY <2>6, <2>7
  <2> HIDE DEF sent
  <2> QED
    BY <2>1, <2>8, <2>9, <2>10, <2>11
<1>8. n \in Good
  <2>1. Good \in SUBSET (0..n) /\ n \in 0..n
    BY <1>1
  <2> HIDE DEF Good
  <2>2. \A m \in 0..n : m \in Good
    BY <1>1, <1>6, <1>7, <2>1, CountUp
  <2> QED
    BY <2>1, <2>2
<1>9. SubSeq(cs, 1, n) = cs
  BY SubSeqFull DEF n
<1> QED
  BY <1>4, <1>8, <1>9

\* A message with null for no content is read as it was recorded.
LEMMA CompletionParsed ==
    ASSUME NEW c \in Text, NEW cs \in Seq(Call)
    PROVE  Parsed(Completion(c, cs)) = Message(c, cs) /\ Parsed(Message(c, cs)) = Message(c, cs)
<1>1. c # Absent
  BY AbsentAssumption
<1> QED
  BY <1>1 DEF Parsed, Completion, Message

----------------------------------------------------------------------------
(* Texts, and what the scanner finds in them. *)

LEMMA PieceToken ==
    /\ \A k \in Kind, n \in 1..MaxSegments : Token(k, n) \in Piece
    /\ \A x \in Piece : x.kind \in Kind /\ x.n \in 1..MaxSegments /\ x = Token(x.kind, x.n)
  BY DEF Piece, Token

LEMMA NextOfFinds ==
    ASSUME NEW t \in Text, NEW n \in Nat \ {0}, NEW kinds
    PROVE  \/ /\ NextOf(t, n, kinds) = 0
              /\ \A i \in n..Len(t) : t[i].kind \notin kinds
           \/ /\ NextOf(t, n, kinds) \in n..Len(t)
              /\ t[NextOf(t, n, kinds)].kind \in kinds
              /\ \A i \in n..(NextOf(t, n, kinds) - 1) : t[i].kind \notin kinds
<1> DEFINE I == {i \in n..Len(t) : t[i].kind \in kinds}
           m == NextOf(t, n, kinds)
<1>1. m = IF I # {} THEN Min(I) ELSE 0
  BY DEF NextOf, SelectInSubSeq
<1>2. Len(t) \in Nat /\ I \in SUBSET Nat
  BY DEF Text
<1> SUFFICES \/ m = 0 /\ \A i \in n..Len(t) : t[i].kind \notin kinds
             \/ /\ m \in n..Len(t) /\ t[m].kind \in kinds
                /\ \A i \in n..(m - 1) : t[i].kind \notin kinds
  OBVIOUS
<1> HIDE DEF m
<1>3. CASE I = {}
  BY <1>1, <1>3
<1>4. CASE I # {}
  <2>1. \E x \in I : \A y \in I : x <= y
    <3> HIDE DEF I
    <3> QED
      BY <1>2, <1>4, LeastNat
  <2>2. Min(I) \in I /\ \A y \in I : Min(I) <= y
    BY <2>1 DEF Min
  <2>3. m \in I /\ \A y \in I : m <= y
    BY <1>1, <1>4, <2>2
  <2>4. \A i \in n..(m - 1) : i \notin I
    BY <1>2, <2>3
  <2>5. \A i \in n..(m - 1) : i \in n..Len(t)
    BY <1>2, <2>3
  <2>6. \A i \in n..(m - 1) : t[i].kind \notin kinds
    BY <2>4, <2>5
  <2>7. m \in n..Len(t) /\ t[m].kind \in kinds
    BY <2>3
  <2> QED
    BY <2>6, <2>7
<1> QED
  BY <1>3, <1>4

LEMMA NextOfIs ==
    ASSUME NEW t \in Text, NEW n \in Nat \ {0}, NEW kinds, NEW k \in n..Len(t),
           t[k].kind \in kinds, \A i \in n..(k - 1) : t[i].kind \notin kinds
    PROVE  NextOf(t, n, kinds) = k
<1> DEFINE m == NextOf(t, n, kinds)
<1>1. Len(t) \in Nat
  BY DEF Text
<1>2. \/ m = 0 /\ \A i \in n..Len(t) : t[i].kind \notin kinds
      \/ /\ m \in n..Len(t) /\ t[m].kind \in kinds
         /\ \A i \in n..(m - 1) : t[i].kind \notin kinds
  BY NextOfFinds
<1> HIDE DEF m
<1>3. m \in n..Len(t) /\ t[m].kind \in kinds /\ \A i \in n..(m - 1) : t[i].kind \notin kinds
  BY <1>2
<1>4. ~(m < k) /\ ~(k < m)
  BY <1>1, <1>3
<1>5. m = k
  BY <1>1, <1>3, <1>4
<1> QED
  BY <1>5 DEF m

SegmentName == {"word", "code", "call", "pair", "bare", "barePair", "quoting", "unclosed", "mention"}

LEMMA TokensAre ==
    ASSUME NEW n
    PROVE  /\ Tokens("word", n) = <<Token("word", n)>>
           /\ Tokens("code", n) = <<Token("ticks", n), Token("word", n), Token("ticks", n)>>
           /\ Tokens("call", n) = <<Token("open", n), Token("call", n), Token("ticks", n)>>
           /\ Tokens("pair", n) = <<Token("open", n), Token("pair", n), Token("ticks", n)>>
           /\ Tokens("bare", n) = <<Token("call", n)>>
           /\ Tokens("barePair", n) = <<Token("pair", n)>>
           /\ Tokens("quoting", n) = <<Token("open", n), Token("head", n), Token("ticks", n),
                                       Token("tail", n), Token("ticks", n)>>
           /\ Tokens("unclosed", n) = <<Token("open", n), Token("call", n)>>
           /\ Tokens("mention", n) = <<Token("open", n), Token("word", n)>>
<1>1. /\ Tokens("word", n) = <<Token("word", n)>>
      /\ Tokens("bare", n) = <<Token("call", n)>>
      /\ Tokens("barePair", n) = <<Token("pair", n)>>
  BY DEF Tokens
<1>2. /\ Tokens("unclosed", n) = <<Token("open", n), Token("call", n)>>
      /\ Tokens("mention", n) = <<Token("open", n), Token("word", n)>>
  BY DEF Tokens
<1>3. Tokens("code", n) = <<Token("ticks", n), Token("word", n), Token("ticks", n)>>
  BY DEF Tokens
<1>4. Tokens("call", n) = <<Token("open", n), Token("call", n), Token("ticks", n)>>
  BY DEF Tokens
<1>5. Tokens("pair", n) = <<Token("open", n), Token("pair", n), Token("ticks", n)>>
  BY DEF Tokens
<1>6. Tokens("quoting", n) = <<Token("open", n), Token("head", n), Token("ticks", n),
                               Token("tail", n), Token("ticks", n)>>
  BY DEF Tokens
<1> QED
  BY <1>1, <1>2, <1>3, <1>4, <1>5, <1>6

LEMMA TokensTyped ==
    ASSUME NEW seg \in SegmentName, NEW n \in 1..MaxSegments
    PROVE  /\ Tokens(seg, n) \in Text
           /\ Len(Tokens(seg, n)) \in 1..5
           /\ \A i \in 1..Len(Tokens(seg, n)) : Tokens(seg, n)[i].n = n
<1> DEFINE T(k) == Token(k, n)
<1>1. \A k \in Kind : T(k) \in Piece /\ T(k).n = n
  BY DEF Piece, Token
<1>2. /\ \A a \in Piece : <<a>> \in Text
      /\ \A a, b \in Piece : <<a, b>> \in Text
      /\ \A a, b, c \in Piece : <<a, b, c>> \in Text
      /\ \A a, b, c, d, e \in Piece : <<a, b, c, d, e>> \in Text
  BY DEF Text
<1> HIDE DEF T
<1>3. seg \in {"word", "bare", "barePair"} =>
        \E k \in Kind : Tokens(seg, n) = <<T(k)>>
  BY TokensAre DEF Kind, T
<1>4. seg \in {"unclosed", "mention"} =>
        \E k, l \in Kind : Tokens(seg, n) = <<T(k), T(l)>>
  BY TokensAre DEF Kind, T
<1>5. seg \in {"code", "call", "pair"} =>
        \E k, l, m \in Kind : Tokens(seg, n) = <<T(k), T(l), T(m)>>
  BY TokensAre DEF Kind, T
<1>6. /\ seg = "quoting" =>
           Tokens(seg, n) = <<T("open"), T("head"), T("ticks"), T("tail"), T("ticks")>>
      /\ T("open") \in Piece /\ T("head") \in Piece /\ T("ticks") \in Piece /\ T("tail") \in Piece
  <2>1. "open" \in Kind /\ "head" \in Kind /\ "ticks" \in Kind /\ "tail" \in Kind
    BY DEF Kind
  <2>2. Tokens("quoting", n) = <<T("open"), T("head"), T("ticks"), T("tail"), T("ticks")>>
    BY TokensAre DEF T
  <2> QED
    BY <1>1, <2>1, <2>2, Zenon
<1>7. CASE seg \in {"word", "bare", "barePair"}
  BY <1>1, <1>2, <1>3, <1>7
<1>8. CASE seg \in {"unclosed", "mention"}
  BY <1>1, <1>2, <1>4, <1>8
<1>9. CASE seg \in {"code", "call", "pair"}
  BY <1>1, <1>2, <1>5, <1>9
<1>10. CASE seg = "quoting"
  <2>1. Tokens(seg, n) = <<T("open"), T("head"), T("ticks"), T("tail"), T("ticks")>>
    BY <1>6, <1>10
  <2>2. Len(Tokens(seg, n)) = 5 /\ \A i \in 1..5 : Tokens(seg, n)[i].n = n
    BY <2>1 DEF Token, T
  <2>3. Tokens(seg, n) \in Text
    BY <1>2, <1>6, <2>1, Zenon
  <2> QED
    BY <2>2, <2>3
<1> QED
  BY <1>7, <1>8, <1>9, <1>10 DEF SegmentName

\* A sequence of sequences is joined one by one.
LEMMA FlattenSteps ==
    ASSUME NEW S, NEW N \in Nat, NEW f \in [1..N -> Seq(S)]
    PROVE  /\ FlattenSeq([n \in 1..0 |-> f[n]]) = <<>>
           /\ \A m \in 0..N : FlattenSeq([n \in 1..m |-> f[n]]) \in Seq(S)
           /\ \A m \in 1..N : FlattenSeq([n \in 1..m |-> f[n]])
                                = FlattenSeq([n \in 1..(m - 1) |-> f[n]]) \o f[m]
           /\ FlattenSeq([n \in 1..N |-> f[n]]) = FlattenSeq(f)
<1> DEFINE P(m) == [n \in 1..m |-> f[n]]
<1>1. \A m \in 0..N : P(m) \in Seq(Seq(S))
  OBVIOUS
<1>2. ASSUME NEW m \in 1..N PROVE FlattenSeq(P(m)) = FlattenSeq(P(m - 1)) \o f[m]
  <2>1. P(m) = Append(P(m - 1), f[m]) /\ P(m - 1) \in Seq(Seq(S)) /\ f[m] \in Seq(S)
    OBVIOUS
  <2> HIDE DEF P
  <2> QED
    BY <2>1, FlattenAppend
<1>3. P(0) = <<>> /\ P(N) = f
  OBVIOUS
<1>4. \A m \in 0..N : FlattenSeq(P(m)) \in Seq(S)
  <2> HIDE DEF P
  <2> QED
    BY <1>1, FlattenTyped
<1> QED
  BY <1>2, <1>3, <1>4, FlattenEmpty

Shapes == {s \in Seq(SegmentName) : Len(s) <= MaxSegments}

\* The text of the first m segments.
First(s, m) == FlattenSeq([n \in 1..m |-> Tokens(s[n], n)])

LEMMA ShapeTyped ==
    ASSUME NEW s \in Shapes
    PROVE  /\ Len(s) \in Nat /\ Len(s) <= MaxSegments /\ DOMAIN s = 1..Len(s)
           /\ \A m \in 1..Len(s) : s[m] \in SegmentName /\ m \in 1..MaxSegments
  BY SizeAssumption DEF Shapes

LEMMA FirstSteps ==
    ASSUME NEW s \in Shapes
    PROVE  /\ First(s, 0) = <<>>
           /\ \A m \in 0..Len(s) : First(s, m) \in Text
           /\ \A m \in 1..Len(s) : First(s, m) = First(s, m - 1) \o Tokens(s[m], m)
           /\ First(s, Len(s)) = TextOf(s)
<1> DEFINE N == Len(s)
           f == [n \in 1..N |-> Tokens(s[n], n)]
<1>1. N \in Nat /\ DOMAIN s = 1..N
  BY ShapeTyped
<1>2. f \in [1..N -> Text]
  BY ShapeTyped, TokensTyped
<1>3. \A m \in 0..N : First(s, m) = FlattenSeq([n \in 1..m |-> f[n]])
  <2> TAKE m \in 0..N
  <2>1. [n \in 1..m |-> Tokens(s[n], n)] = [n \in 1..m |-> f[n]]
    BY <1>1
  <2> QED
    BY <2>1 DEF First
<1>4. TextOf(s) = FlattenSeq(f)
  BY <1>1 DEF TextOf
<1>5. \A m \in 1..N : f[m] = Tokens(s[m], m)
  OBVIOUS
<1> HIDE DEF f, N
<1>6. /\ FlattenSeq([n \in 1..0 |-> f[n]]) = <<>>
      /\ \A m \in 0..N : FlattenSeq([n \in 1..m |-> f[n]]) \in Text
      /\ \A m \in 1..N : FlattenSeq([n \in 1..m |-> f[n]])
                           = FlattenSeq([n \in 1..(m - 1) |-> f[n]]) \o f[m]
      /\ FlattenSeq([n \in 1..N |-> f[n]]) = FlattenSeq(f)
  BY <1>1, <1>2, FlattenSteps DEF Text
<1>7. 0 \in 0..N /\ N \in 0..N /\ \A m \in 1..N : m \in 0..N /\ m - 1 \in 0..N
  BY <1>1
<1>8. First(s, 0) = <<>> /\ First(s, N) = TextOf(s)
  BY <1>3, <1>4, <1>6, <1>7, Zenon
<1>9. \A m \in 0..N : First(s, m) \in Text
  BY <1>3, <1>6, Zenon
<1>10. \A m \in 1..N : First(s, m) = First(s, m - 1) \o Tokens(s[m], m)
  BY <1>3, <1>5, <1>6, <1>7, Zenon
<1> QED
  BY <1>8, <1>9, <1>10 DEF N

----------------------------------------------------------------------------
(* What is true of every text that is fetched: each object has a number of *)
(* its own, and the two parts of a call that quotes ``` stand together.    *)

Object == {"call", "pair", "head", "half"}

OwnNumbers(t) ==
    \A i, j \in DOMAIN t :
        t[i].kind \in Object /\ t[j].kind \in Object /\ t[i].n = t[j].n => i = j

TailsFollow(t) ==
    \A i \in DOMAIN t : t[i].kind = "tail" =>
        i - 2 \in DOMAIN t /\ t[i - 2] = Token("head", t[i].n)

HeadsLead(t) ==
    \A i \in DOMAIN t : t[i].kind = "head" /\ i + 2 \in DOMAIN t =>
        t[i + 1].kind = "ticks" /\ t[i + 2] = Token("tail", t[i].n)

Proper(t) == OwnNumbers(t) /\ TailsFollow(t) /\ HeadsLead(t)

\* No call ends in the middle.
Closed(t) == \A i \in DOMAIN t : t[i].kind = "head" => i + 2 \in DOMAIN t

LEMMA ProperTokens ==
    ASSUME NEW seg \in SegmentName, NEW n \in 1..MaxSegments
    PROVE  Proper(Tokens(seg, n)) /\ Closed(Tokens(seg, n))
<1> DEFINE t == Tokens(seg, n)
<1>1. CASE seg \in {"word", "bare", "barePair"}
  <2>1. DOMAIN t = 1..1 /\ t[1].kind \in {"word", "call", "pair"}
    BY <1>1, TokensAre DEF Token
  <2> HIDE DEF t
  <2>2. Proper(t) /\ Closed(t)
    BY <2>1 DEF Proper, OwnNumbers, TailsFollow, HeadsLead, Closed
  <2> QED
    BY <2>2 DEF t
<1>2. CASE seg \in {"unclosed", "mention"}
  <2>1. DOMAIN t = 1..2 /\ t[1].kind = "open" /\ t[2].kind \in {"word", "call"}
    BY <1>2, TokensAre DEF Token
  <2> HIDE DEF t
  <2>2. Proper(t) /\ Closed(t)
    BY <2>1 DEF Proper, OwnNumbers, TailsFollow, HeadsLead, Closed, Object
  <2> QED
    BY <2>2 DEF t
<1>3. CASE seg \in {"code", "call", "pair"}
  <2>1. /\ DOMAIN t = 1..3 /\ t[1].kind \in {"open", "ticks"}
        /\ t[2].kind \in {"word", "call", "pair"} /\ t[3].kind = "ticks"
    BY <1>3, TokensAre DEF Token
  <2> HIDE DEF t
  <2>2. Proper(t) /\ Closed(t)
    BY <2>1 DEF Proper, OwnNumbers, TailsFollow, HeadsLead, Closed, Object
  <2> QED
    BY <2>2 DEF t
<1>4. CASE seg = "quoting"
  <2>1. /\ DOMAIN t = 1..5 /\ t[1].kind = "open" /\ t[2] = Token("head", n)
        /\ t[3].kind = "ticks" /\ t[4] = Token("tail", n) /\ t[5].kind = "ticks"
    BY <1>4, TokensAre DEF Token
  <2>2. t[2].kind = "head" /\ t[2].n = n /\ t[4].kind = "tail" /\ t[4].n = n
    BY <2>1 DEF Token
  <2> HIDE DEF t
  <2>3. \A i \in DOMAIN t : i = 1 \/ i = 2 \/ i = 3 \/ i = 4 \/ i = 5
    BY <2>1
  <2>4. OwnNumbers(t)
    BY <2>1, <2>2, <2>3 DEF OwnNumbers, Object
  <2>5. TailsFollow(t)
    BY <2>1, <2>2, <2>3 DEF TailsFollow
  <2>6. HeadsLead(t) /\ Closed(t)
    BY <2>1, <2>2, <2>3 DEF HeadsLead, Closed
  <2> QED
    BY <2>4, <2>5, <2>6 DEF Proper, t
<1> QED
  BY <1>1, <1>2, <1>3, <1>4 DEF SegmentName

LEMMA ProperConcat ==
    ASSUME NEW s \in Text, NEW t \in Text, NEW m \in Nat,
           Proper(s), Closed(s), \A i \in DOMAIN s : s[i].n <= m,
           Proper(t), Closed(t), \A i \in DOMAIN t : t[i].n = m + 1
    PROVE  Proper(s \o t) /\ Closed(s \o t) /\ \A i \in DOMAIN (s \o t) : (s \o t)[i].n <= m + 1
<1> DEFINE u == s \o t
           a == Len(s)
           b == Len(t)
<1>1. /\ a \in Nat /\ b \in Nat /\ DOMAIN s = 1..a /\ DOMAIN t = 1..b
      /\ DOMAIN u = 1..(a + b)
      /\ \A i \in 1..a : u[i] = s[i] /\ s[i].n \in Nat
      /\ \A i \in (a + 1)..(a + b) : u[i] = t[i - a] /\ i - a \in 1..b
      /\ \A i \in 1..b : t[i].n \in Nat
  <2>1. a \in Nat /\ b \in Nat /\ DOMAIN s = 1..a /\ DOMAIN t = 1..b /\ DOMAIN u = 1..(a + b)
    BY DEF Text
  <2>2. \A i \in 1..a : u[i] = s[i]
    BY DEF Text
  <2>3. \A i \in (a + 1)..(a + b) : u[i] = t[i - a] /\ i - a \in 1..b
    BY <2>1 DEF Text
  <2>4. (\A i \in 1..a : s[i] \in Piece) /\ (\A i \in 1..b : t[i] \in Piece)
    BY DEF Text
  <2>5. \A x \in Piece : x.n \in Nat
    BY SizeAssumption DEF Piece
  <2> HIDE DEF a, b, u
  <2> QED
    BY <2>1, <2>2, <2>3, <2>4, <2>5
<1> HIDE DEF a, b, u
<1>2. \A i \in DOMAIN u : \/ i \in 1..a /\ u[i] = s[i] /\ u[i].n <= m
                          \/ /\ i \in (a + 1)..(a + b) /\ i - a \in 1..b
                             /\ u[i] = t[i - a] /\ u[i].n = m + 1
  <2> TAKE i \in DOMAIN u
  <2>1. i \in 1..a \/ i \in (a + 1)..(a + b)
    BY <1>1
  <2> QED
    BY <1>1, <2>1
<1>3. OwnNumbers(u)
  <2> SUFFICES ASSUME NEW i \in DOMAIN u, NEW j \in DOMAIN u, u[i].kind \in Object,
                      u[j].kind \in Object, u[i].n = u[j].n
               PROVE  i = j
    BY DEF OwnNumbers
  <2>1. CASE i \in 1..a /\ j \in 1..a
    BY <1>1, <2>1 DEF Proper, OwnNumbers
  <2>2. CASE i \in (a + 1)..(a + b) /\ j \in (a + 1)..(a + b)
    <3>1. t[i - a] = u[i] /\ t[j - a] = u[j] /\ i - a \in 1..b /\ j - a \in 1..b
      BY <1>1, <2>2
    <3>2. i - a = j - a
      BY <1>1, <3>1 DEF Proper, OwnNumbers
    <3> QED
      BY <1>1, <2>2, <3>2
  <2>3. (i \in 1..a) <=> (j \in 1..a)
    BY <1>1, <1>2
  <2> QED
    BY <1>2, <2>1, <2>2, <2>3
<1>4. TailsFollow(u)
  <2> SUFFICES ASSUME NEW i \in DOMAIN u, u[i].kind = "tail"
               PROVE  i - 2 \in DOMAIN u /\ u[i - 2] = Token("head", u[i].n)
    BY DEF TailsFollow
  <2>1. CASE i \in 1..a
    BY <1>1, <2>1 DEF Proper, TailsFollow
  <2>2. CASE i \in (a + 1)..(a + b)
    <3>1. t[i - a] = u[i] /\ i - a \in DOMAIN t
      BY <1>1, <2>2
    <3>2. (i - a) - 2 \in DOMAIN t /\ t[(i - a) - 2] = Token("head", u[i].n)
      BY <3>1 DEF Proper, TailsFollow
    <3>3. i - 2 \in (a + 1)..(a + b) /\ (i - a) - 2 = (i - 2) - a
      BY <1>1, <2>2, <3>2
    <3> QED
      BY <1>1, <3>2, <3>3
  <2> QED
    BY <1>2, <2>1, <2>2
<1>5. ASSUME NEW i \in DOMAIN u, u[i].kind = "head"
      PROVE  /\ i + 2 \in DOMAIN u /\ u[i + 1].kind = "ticks"
             /\ u[i + 2] = Token("tail", u[i].n)
  <2>1. CASE i \in 1..a
    <3>1. i + 2 \in 1..a /\ i + 1 \in 1..a /\ s[i].kind = "head" /\ s[i] = u[i]
      BY <1>1, <1>5, <2>1 DEF Closed
    <3>2. s[i + 1].kind = "ticks" /\ s[i + 2] = Token("tail", s[i].n)
      BY <1>1, <2>1, <3>1 DEF Proper, HeadsLead
    <3> QED
      BY <1>1, <3>1, <3>2
  <2>2. CASE i \in (a + 1)..(a + b)
    <3> DEFINE j == i - a
    <3>1. t[j] = u[i] /\ j \in 1..b
      BY <1>1, <2>2
    <3>2. j + 2 \in 1..b /\ t[j].kind = "head"
      BY <1>1, <1>5, <3>1 DEF Closed
    <3>3. t[j + 1].kind = "ticks" /\ t[j + 2] = Token("tail", t[j].n)
      BY <1>1, <3>1, <3>2 DEF Proper, HeadsLead
    <3>4. /\ i + 1 \in (a + 1)..(a + b) /\ i + 2 \in (a + 1)..(a + b)
          /\ (i + 1) - a = j + 1 /\ (i + 2) - a = j + 2
      BY <1>1, <2>2, <3>2
    <3>5. u[i + 1] = t[j + 1] /\ u[i + 2] = t[j + 2]
      BY <1>1, <3>4
    <3> QED
      BY <1>1, <3>1, <3>3, <3>4, <3>5
  <2> QED
    BY <1>2, <2>1, <2>2
<1>6. HeadsLead(u) /\ Closed(u)
  BY <1>5 DEF HeadsLead, Closed
<1>7. \A i \in DOMAIN u : u[i].n <= m + 1
  <2> TAKE i \in DOMAIN u
  <2>1. u[i].n \in Nat
    BY <1>1, <1>2
  <2> QED
    BY <1>2, <2>1
<1> QED
  BY <1>3, <1>4, <1>6, <1>7 DEF Proper, u

LEMMA ProperText ==
    ASSUME NEW s \in Shapes
    PROVE  TextOf(s) \in Text /\ Proper(TextOf(s))
<1> DEFINE N == Len(s)
           Fine(m) == /\ Proper(First(s, m)) /\ Closed(First(s, m))
                      /\ \A i \in DOMAIN First(s, m) : First(s, m)[i].n <= m
           Good == {m \in 0..N : Fine(m)}
<1>1. /\ N \in Nat /\ N <= MaxSegments
      /\ \A m \in 1..N : s[m] \in SegmentName /\ m \in 1..MaxSegments
  BY ShapeTyped
<1>2. /\ First(s, 0) = <<>> /\ First(s, N) = TextOf(s)
      /\ \A m \in 0..N : First(s, m) \in Text
      /\ \A m \in 1..N : First(s, m) = First(s, m - 1) \o Tokens(s[m], m)
  BY FirstSteps
<1> HIDE DEF N
<1>3. 0 \in Good
  <2>1. 0 \in 0..N
    BY <1>1
  <2>2. Fine(0)
    BY <1>2 DEF Proper, OwnNumbers, TailsFollow, HeadsLead, Closed
  <2> QED
    BY <2>1, <2>2
<1>4. ASSUME NEW m \in 1..N, m - 1 \in Good PROVE m \in Good
  <2> DEFINE u == First(s, m - 1)
             t == Tokens(s[m], m)
  <2>1. m \in 0..N /\ m - 1 \in 0..N /\ m - 1 \in Nat /\ (m - 1) + 1 = m
    BY <1>1
  <2>2. /\ t \in Text /\ Proper(t) /\ Closed(t)
        /\ \A i \in DOMAIN t : t[i].n = m
    <3>1. t \in Text /\ \A i \in 1..Len(t) : t[i].n = m
      BY <1>1, TokensTyped
    <3>2. DOMAIN t = 1..Len(t)
      BY <3>1 DEF Text
    <3> QED
      BY <1>1, <3>1, <3>2, ProperTokens
  <2>3. u \in Text /\ Fine(m - 1)
    BY <1>2, <1>4, <2>1
  <2>4. First(s, m) = u \o t
    BY <1>2
  <2> HIDE DEF t
  <2>5. Proper(u \o t) /\ Closed(u \o t) /\ \A i \in DOMAIN (u \o t) : (u \o t)[i].n <= m
    BY <2>1, <2>2, <2>3, ProperConcat
  <2>6. Fine(m)
    BY <2>4, <2>5
  <2> QED
    BY <2>1, <2>6
<1>5. N \in Good
  <2>1. Good \in SUBSET (0..N) /\ N \in 0..N
    BY <1>1
  <2> HIDE DEF Good
  <2>2. \A m \in 0..N : m \in Good
    BY <1>1, <1>3, <1>4, <2>1, CountUp
  <2> QED
    BY <2>1, <2>2
<1>6. N \in 0..N
  BY <1>1
<1> QED
  BY <1>2, <1>5, <1>6

LEMMA ProperCut ==
    ASSUME NEW t \in Text, Proper(t), NEW c \in Cuts(t)
    PROVE  c \in Text /\ Proper(c)
<1> DEFINE L == Len(t)
<1>1. L \in Nat /\ DOMAIN t = 1..L /\ \A i \in 1..L : t[i] \in Piece
  BY DEF Text
<1>2. ASSUME NEW k \in 0..L
      PROVE  /\ SubSeq(t, 1, k) \in Text /\ DOMAIN SubSeq(t, 1, k) = 1..k
             /\ \A i \in 1..k : SubSeq(t, 1, k)[i] = t[i] /\ i \in DOMAIN t
  BY <1>1 DEF Text
<1> HIDE DEF L
<1>3. ASSUME NEW k \in 0..L, c = SubSeq(t, 1, k)
      PROVE  c \in Text /\ Proper(c)
  <2>1. /\ c \in Text /\ DOMAIN c = 1..k
        /\ \A i \in 1..k : c[i] = t[i] /\ i \in DOMAIN t
    BY <1>2, <1>3
  <2>2. OwnNumbers(c)
    BY <2>1 DEF Proper, OwnNumbers
  <2>3. TailsFollow(c)
    <3> SUFFICES ASSUME NEW i \in DOMAIN c, c[i].kind = "tail"
                 PROVE  i - 2 \in DOMAIN c /\ c[i - 2] = Token("head", c[i].n)
      BY DEF TailsFollow
    <3>1. i - 2 \in DOMAIN t /\ t[i - 2] = Token("head", t[i].n)
      BY <2>1 DEF Proper, TailsFollow
    <3>2. i - 2 \in 1..k
      BY <1>1, <2>1, <3>1
    <3> QED
      BY <2>1, <3>1, <3>2
  <2>4. HeadsLead(c)
    <3> SUFFICES ASSUME NEW i \in DOMAIN c, c[i].kind = "head", i + 2 \in DOMAIN c
                 PROVE  c[i + 1].kind = "ticks" /\ c[i + 2] = Token("tail", c[i].n)
      BY DEF HeadsLead
    <3>1. i + 1 \in 1..k /\ i + 2 \in 1..k /\ i + 2 \in DOMAIN t
      BY <1>1, <2>1
    <3>2. t[i + 1].kind = "ticks" /\ t[i + 2] = Token("tail", t[i].n)
      BY <2>1, <3>1 DEF Proper, HeadsLead
    <3> QED
      BY <2>1, <3>1, <3>2
  <2> QED
    BY <2>1, <2>2, <2>3, <2>4 DEF Proper
<1>4. ASSUME NEW k \in 1..L, t[k].kind = "pair", c = Append(SubSeq(t, 1, k - 1), Token("half", t[k].n))
      PROVE  c \in Text /\ Proper(c)
  <2> DEFINE b == SubSeq(t, 1, k - 1)
             h == Token("half", t[k].n)
  <2>1. k - 1 \in 0..L /\ k \in DOMAIN t
    BY <1>1
  <2>2. b \in Text /\ DOMAIN b = 1..(k - 1) /\ \A i \in 1..(k - 1) : b[i] = t[i] /\ i \in DOMAIN t
    BY <1>2, <2>1
  <2>3. h \in Piece /\ h.kind = "half" /\ h.n = t[k].n
    <3>1. "half" \in Kind /\ t[k].n \in 1..MaxSegments
      BY <1>1, PieceToken DEF Kind
    <3> QED
      BY <3>1, PieceToken DEF Token
  <2> HIDE DEF b, h
  <2>4. /\ c \in Text /\ DOMAIN c = 1..k /\ c[k] = h
        /\ \A i \in 1..(k - 1) : c[i] = b[i]
    <3>1. Len(b) = k - 1
      BY <1>1, <2>2 DEF Text
    <3> QED
      BY <1>1, <1>4, <2>2, <2>3, <3>1 DEF b, h, Text
  <2>5. \A i \in 1..k : \/ i = k /\ c[i] = h
                        \/ i \in 1..(k - 1) /\ c[i] = t[i] /\ i \in DOMAIN t
    BY <1>1, <2>2, <2>4
  <2>6. OwnNumbers(c)
    <3> SUFFICES ASSUME NEW i \in 1..k, NEW j \in 1..k, c[i].kind \in Object,
                        c[j].kind \in Object, c[i].n = c[j].n
                 PROVE  i = j
      BY <2>4 DEF OwnNumbers
    <3>1. /\ t[i].kind \in Object /\ t[i].n = c[i].n /\ i \in DOMAIN t
          /\ t[j].kind \in Object /\ t[j].n = c[j].n /\ j \in DOMAIN t
      BY <1>4, <2>1, <2>3, <2>5 DEF Object
    <3> QED
      BY <3>1 DEF Proper, OwnNumbers
  <2>7. TailsFollow(c)
    <3> SUFFICES ASSUME NEW i \in 1..k, c[i].kind = "tail"
                 PROVE  i - 2 \in 1..k /\ c[i - 2] = Token("head", c[i].n)
      BY <2>4 DEF TailsFollow
    <3>1. i \in 1..(k - 1) /\ c[i] = t[i] /\ i \in DOMAIN t
      BY <2>3, <2>5
    <3>2. i - 2 \in DOMAIN t /\ t[i - 2] = Token("head", t[i].n)
      BY <3>1 DEF Proper, TailsFollow
    <3>3. i - 2 \in 1..(k - 1)
      BY <1>1, <3>1, <3>2
    <3> QED
      BY <2>2, <2>4, <3>1, <3>2, <3>3
  <2>8. HeadsLead(c)
    <3> SUFFICES ASSUME NEW i \in 1..k, c[i].kind = "head", i + 2 \in 1..k
                 PROVE  c[i + 1].kind = "ticks" /\ c[i + 2] = Token("tail", c[i].n)
      BY <2>4 DEF HeadsLead
    <3>1. c[i] = t[i] /\ i \in DOMAIN t /\ i + 2 \in DOMAIN t /\ i + 1 \in 1..(k - 1)
      BY <1>1, <2>3, <2>5
    <3>2. t[i + 1].kind = "ticks" /\ t[i + 2] = Token("tail", t[i].n)
      BY <3>1 DEF Proper, HeadsLead
    <3>3. t[i + 2].kind = "tail"
      BY <3>2 DEF Token
    <3>4. i + 2 \in 1..(k - 1)
      BY <1>1, <1>4, <3>1, <3>3
    <3> QED
      BY <2>2, <2>4, <3>1, <3>2, <3>4
  <2> QED
    BY <2>4, <2>6, <2>7, <2>8 DEF Proper
<1>5. \/ \E k \in 0..L : c = SubSeq(t, 1, k)
      \/ \E k \in 1..L : t[k].kind = "pair" /\ c = Append(SubSeq(t, 1, k - 1), Token("half", t[k].n))
  BY <1>1 DEF Cuts, L
<1> QED
  BY <1>3, <1>4, <1>5

----------------------------------------------------------------------------
(* The steps of the scanner. *)

LEMMA CallsOfTyped ==
    ASSUME NEW x \in Piece
    PROVE  CallsOf(x) \in Seq(Call)
<1>1. <<x.n, 1>> \in Call /\ <<x.n, 2>> \in Call
  BY DEF Piece, Call
<1>2. CallsOf(x) \in {<< <<x.n, 1>> >>, << <<x.n, 1>>, <<x.n, 2>> >>, <<>>}
  BY DEF CallsOf
<1>3. /\ <<>> \in Seq(Call)
      /\ \A c \in Call : <<c>> \in Seq(Call)
      /\ \A c, d \in Call : <<c, d>> \in Seq(Call)
  BY EmptySeq
<1> HIDE DEF Call
<1> QED
  BY <1>1, <1>2, <1>3

LEMMA SpliceTyped ==
    ASSUME NEW t \in Text, NEW i \in 1..Len(t), NEW j \in i..Len(t), NEW left \in Text
    PROVE  /\ SubSeq(t, 1, i - 1) \in Text /\ SubSeq(t, i, j) \in Text
           /\ SubSeq(t, j + 1, Len(t)) \in Text
           /\ Splice(t, i, j, left) \in Text
<1>1. Len(t) \in Nat /\ \A k \in 1..Len(t) : t[k] \in Piece
  BY DEF Text
<1>2. SubSeq(t, 1, i - 1) \in Text
  BY <1>1 DEF Text
<1>3. SubSeq(t, i, j) \in Text
  BY <1>1 DEF Text
<1>4. SubSeq(t, j + 1, Len(t)) \in Text
  BY <1>1 DEF Text
<1>5. Splice(t, i, j, left) \in Text
  BY <1>2, <1>4 DEF Splice, Text
<1> QED
  BY <1>2, <1>3, <1>4, <1>5

LEMMA CountSplice ==
    ASSUME NEW t \in Text, NEW i \in 1..Len(t), NEW j \in i..Len(t), NEW left \in Text, NEW x
    PROVE  /\ Count(Splice(t, i, j, left), x) + Count(SubSeq(t, i, j), x)
                = Count(t, x) + Count(left, x)
           /\ Count(t, x) \in Nat /\ Count(left, x) \in Nat
           /\ Count(Splice(t, i, j, left), x) \in Nat /\ Count(SubSeq(t, i, j), x) \in Nat
<1> DEFINE a == SubSeq(t, 1, i - 1)
           b == SubSeq(t, i, j)
           c == SubSeq(t, j + 1, Len(t))
<1>1. a \in Text /\ b \in Text /\ c \in Text /\ Splice(t, i, j, left) \in Text
  BY SpliceTyped
<1>2. Splice(t, i, j, left) = (a \o left) \o c
  BY DEF Splice
<1>3. (a \o b) \o c = t
  <2>1. Len(t) \in Nat
    BY DEF Text
  <2>2. 1 \in 1..(Len(t) + 1) /\ i - 1 \in (1 - 1)..Len(t) /\ j \in (i - 1)..Len(t) /\ (i - 1) + 1 = i
    BY <2>1
  <2>3. a \o b = SubSeq(t, 1, j)
    BY <2>2, ConcatAdjacentSubSeq DEF Text
  <2>4. j \in (1 - 1)..Len(t) /\ Len(t) \in j..Len(t)
    BY <2>1
  <2>5. SubSeq(t, 1, j) \o c = SubSeq(t, 1, Len(t))
    BY <2>2, <2>4, ConcatAdjacentSubSeq DEF Text
  <2> QED
    BY <2>3, <2>5, SubSeqFull DEF Text
<1> HIDE DEF a, b, c
<1>4. \A s, u \in Text : s \o u \in Text /\ Count(s \o u, x) = Count(s, x) + Count(u, x)
  BY CountConcat DEF Text
<1>5. a \o left \in Text /\ a \o b \in Text
  BY <1>1, <1>4
<1>6. /\ Count((a \o left) \o c, x) = Count(a, x) + Count(left, x) + Count(c, x)
      /\ Count((a \o b) \o c, x) = Count(a, x) + Count(b, x) + Count(c, x)
  BY <1>1, <1>4, <1>5
<1>7. \A s \in Text : Count(s, x) \in Nat
  BY CountTyped DEF Text
<1>8. /\ Count(a, x) \in Nat /\ Count(b, x) \in Nat /\ Count(c, x) \in Nat /\ Count(left, x) \in Nat
      /\ Count(t, x) \in Nat /\ Count(Splice(t, i, j, left), x) \in Nat
  BY <1>1, <1>7
<1>9. Count(Splice(t, i, j, left), x) + Count(b, x) = Count(t, x) + Count(left, x)
  BY <1>2, <1>3, <1>6, <1>8
<1> QED
  BY <1>8, <1>9 DEF b

LEMMA SpliceCounted ==
    \A left \in Text : \A x : \A t \in Text : \A i \in 1..Len(t) : \A j \in i..Len(t) :
        /\ Count(Splice(t, i, j, left), x) + Count(SubSeq(t, i, j), x)
              = Count(t, x) + Count(left, x)
        /\ Count(t, x) \in Nat /\ Count(Splice(t, i, j, left), x) \in Nat
  BY CountSplice

\* A block that is taken is ```tool_call, one object and the next ```.
LEMMA BlockIs ==
    ASSUME NEW t \in Text, FirstBlock(t).calls # <<>>
    PROVE  LET i == FirstBlock(t).from
           IN /\ i \in 1..Len(t) /\ i + 1 \in 1..Len(t) /\ i + 2 \in 1..Len(t)
              /\ FirstBlock(t).to = i + 2
              /\ t[i].kind = "open" /\ t[i + 1].kind \in {"call", "pair"}
              /\ t[i + 2].kind \in {"open", "ticks"}
              /\ FirstBlock(t).calls = CallsOf(t[i + 1])
<1> DEFINE i == NextOf(t, 1, {"open"})
           j == NextOf(t, i + 1, {"open", "ticks"})
           block == SubSeq(t, i + 1, j - 1)
<1>1. FirstBlock(t) = [from |-> i, to |-> j,
                       calls |-> IF i = 0 \/ j = 0 THEN <<>> ELSE ParseBlock(block)]
  BY DEF FirstBlock
<1>2. Len(t) \in Nat
  BY DEF Text
<1> HIDE DEF i
<1>3. i # 0 /\ j # 0 /\ ParseBlock(block) # <<>>
  BY <1>1
<1>4. i \in 1..Len(t) /\ t[i].kind = "open"
  BY <1>3, NextOfFinds DEF i
<1>5. i + 1 \in Nat \ {0}
  BY <1>2, <1>4
<1>6. j \in (i + 1)..Len(t) /\ t[j].kind \in {"open", "ticks"}
  BY <1>3, <1>5, NextOfFinds
<1> HIDE DEF j
<1>7. Len(block) = 1 /\ block[1].kind \in {"call", "pair"} /\ ParseBlock(block) = CallsOf(block[1])
  BY <1>3 DEF ParseBlock
<1>8. j = i + 2
  BY <1>2, <1>4, <1>6, <1>7
<1>9. block[1] = t[i + 1]
  BY <1>2, <1>4, <1>6, <1>8
<1>10. /\ FirstBlock(t).from = i /\ FirstBlock(t).to = j
       /\ FirstBlock(t).calls = ParseBlock(block)
  BY <1>1, <1>3
<1> HIDE DEF block
<1>11. i + 1 \in 1..Len(t) /\ i + 2 \in 1..Len(t)
  BY <1>2, <1>4, <1>6, <1>8
<1> QED
  BY <1>4, <1>6, <1>7, <1>8, <1>9, <1>10, <1>11

FoundSet == [calls : Seq(Call), rest : Text]

\* What the next turn leaves where the block stood.
Left(f) ==
    LET fence == f.rest[FirstBlock(f.rest).to]
    IN IF fence.kind = "open" THEN <<Token("name", fence.n)>> ELSE <<>>

LEMMA TakeBlockIs ==
    ASSUME NEW f \in FoundSet
    PROVE  LET block == FirstBlock(f.rest)
           IN /\ block.calls = <<>> => TakeBlock(f) = f
              /\ block.calls # <<>> =>
                    /\ Left(f) \in {<<>>} \cup {<<Token("name", n)>> : n \in 1..MaxSegments}
                    /\ Left(f) \in Text
                    /\ TakeBlock(f) = Found(f.calls \o block.calls,
                                            Splice(f.rest, block.from, block.to, Left(f)))
              /\ TakeBlock(f) \in FoundSet
<1> DEFINE block == FirstBlock(f.rest)
<1>1. f.rest \in Text /\ f.calls \in Seq(Call)
  BY DEF FoundSet
<1>2. CASE block.calls = <<>>
  BY <1>2 DEF TakeBlock
<1>3. CASE block.calls # <<>>
  <2> DEFINE i == block.from
  <2>1. /\ i \in 1..Len(f.rest) /\ i + 1 \in 1..Len(f.rest) /\ i + 2 \in 1..Len(f.rest)
        /\ block.to = i + 2 /\ block.calls = CallsOf(f.rest[i + 1])
    BY <1>1, <1>3, BlockIs
  <2>2. Left(f) \in {<<>>} \cup {<<Token("name", n)>> : n \in 1..MaxSegments}
    <3>1. f.rest[i + 2] \in Piece
      BY <1>1, <2>1 DEF Text
    <3> QED
      BY <2>1, <3>1, PieceToken DEF Left
  <2>3. Left(f) \in Text
    <3>1. \A n \in 1..MaxSegments : Token("name", n) \in Piece
      BY PieceToken DEF Kind
    <3>2. <<>> \in Text /\ \A x \in Piece : <<x>> \in Text
      BY EmptySeq DEF Text
    <3> QED
      BY <2>2, <3>1, <3>2, Zenon
  <2>4. TakeBlock(f) = Found(f.calls \o block.calls, Splice(f.rest, block.from, block.to, Left(f)))
    BY <1>3 DEF TakeBlock, Left
  <2>5. f.calls \o block.calls \in Seq(Call)
    <3>1. f.rest[i + 1] \in Piece
      BY <1>1, <2>1 DEF Text
    <3>2. CallsOf(f.rest[i + 1]) \in Seq(Call)
      BY <3>1, CallsOfTyped
    <3> QED
      BY <1>1, <2>1, <3>2
  <2>6. Splice(f.rest, block.from, block.to, Left(f)) \in Text
    <3>1. i + 2 \in i..Len(f.rest)
      BY <2>1
    <3> QED
      BY <1>1, <2>1, <2>3, <3>1, SpliceTyped
  <2> HIDE DEF block
  <2>7. TakeBlock(f) \in FoundSet
    BY <2>4, <2>5, <2>6 DEF Found, FoundSet
  <2> QED
    BY <1>3, <2>2, <2>3, <2>4, <2>7 DEF block
<1> QED
  BY <1>2, <1>3

\* The turns, one after the other.
LEMMA TurnsAre ==
    ASSUME NEW t \in Text
    PROVE  /\ Turns(t) \in [0..Len(t) -> FoundSet]
           /\ Turns(t)[0] = Found(<<>>, t)
           /\ \A k \in 1..Len(t) : Turns(t)[k] = TakeBlock(Turns(t)[k - 1])
<1> DEFINE n == Len(t)
           base == Found(<<>>, t)
           Body(f) == [k \in 0..n |-> IF k = 0 THEN base ELSE TakeBlock(f[k - 1])]
           after == Turns(t)
           step == [k \in 1..n |-> [f \in FoundSet |-> TakeBlock(f)]]
<1>1. n \in Nat
  BY DEF Text
<1>2. base \in FoundSet
  BY EmptySeq DEF Found, FoundSet
<1>3. after = CHOOSE f : f = Body(f)
  BY DEF Turns
<1> HIDE DEF n, base, after
<1>4. step \in [1..n -> [FoundSet -> FoundSet]]
  BY TakeBlockIs
<1>5. \A k \in 1..n, f \in FoundSet : step[k][f] = TakeBlock(f)
  OBVIOUS
<1> HIDE DEF step
<1>6. PICK g \in [0..n -> FoundSet] : g[0] = base /\ \A k \in 1..n : g[k] = step[k][g[k - 1]]
  <2>1. Iterates(FoundSet, base, n, step)
    BY <1>1, <1>2, <1>4, Iteration
  <2> QED
    BY <2>1 DEF Iterates
<1>7. \A k \in 1..n : g[k] = TakeBlock(g[k - 1])
  <2> TAKE k \in 1..n
  <2>1. k - 1 \in 0..n
    BY <1>1
  <2> QED
    BY <1>5, <1>6, <2>1
<1>8. g = Body(g)
  <2>1. \A k \in 0..n : g[k] = IF k = 0 THEN base ELSE TakeBlock(g[k - 1])
    <3> TAKE k \in 0..n
    <3>1. k # 0 => k \in 1..n
      BY <1>1
    <3> QED
      BY <1>6, <1>7, <3>1
  <2>2. g = [k \in 0..n |-> g[k]]
    BY <1>6
  <2> QED
    BY <2>1, <2>2
<1> HIDE DEF Body
<1>9. after = Body(after)
  BY <1>3, <1>8, Zenon
<1>10. \A k \in 0..n : after[k] = IF k = 0 THEN base ELSE TakeBlock(after[k - 1])
  <2>1. \A k \in 0..n : Body(after)[k] = IF k = 0 THEN base ELSE TakeBlock(after[k - 1])
    BY DEF Body
  <2> QED
    BY <1>9, <2>1
<1>11. after[0] = base /\ \A k \in 1..n : after[k] = TakeBlock(after[k - 1])
  <2>1. 0 \in 0..n /\ \A k \in 1..n : k \in 0..n /\ k # 0
    BY <1>1
  <2> QED
    BY <1>10, <2>1
<1> DEFINE Typed == {k \in 0..n : after[k] \in FoundSet}
<1>12. 0 \in Typed
  BY <1>1, <1>2, <1>11
<1>13. ASSUME NEW k \in 1..n, k - 1 \in Typed PROVE k \in Typed
  <2>1. k \in 0..n /\ after[k - 1] \in FoundSet
    BY <1>1, <1>13
  <2>2. TakeBlock(after[k - 1]) \in FoundSet
    BY <2>1, TakeBlockIs
  <2> QED
    BY <1>11, <2>1, <2>2
<1>14. \A k \in 0..n : k \in Typed
  <2>1. Typed \in SUBSET (0..n)
    OBVIOUS
  <2> HIDE DEF Typed
  <2> QED
    BY <1>1, <1>12, <1>13, <2>1, CountUp
<1>15. after \in [0..n -> FoundSet]
  <2>1. after = [k \in 0..n |-> after[k]]
    BY <1>9 DEF Body
  <2> QED
    BY <1>14, <2>1
<1> QED
  BY <1>11, <1>15 DEF n, base, after

----------------------------------------------------------------------------
(* Nothing is lost: each token of t that matters is kept or made a call.   *)

Kept(t, f) ==
    /\ \A x \in Piece : x.kind = "word" => Count(f.rest, x) = Count(t, x)
    /\ \A x \in Piece : x.kind \in Object \cup {"tail"} =>
          IF Count(t, x) > 0 THEN Count(f.rest, x) + Count(f.calls, <<x.n, 1>>) = Count(t, x)
          ELSE Count(f.rest, x) = 0
    /\ \A n \in 1..MaxSegments : /\ Count(f.calls, <<n, 2>>) <= Count(f.calls, <<n, 1>>)
                                 /\ Count(f.calls, <<n, 1>>) <= 1

LEMMA TextCount ==
    /\ \A x : \A t \in Text :
          Count(t, x) \in Nat /\ (Count(t, x) > 0 <=> \E k \in DOMAIN t : t[k] = x)
    /\ \A x : \A cs \in Seq(Call) : Count(cs, x) \in Nat
  BY CountTyped, CountSome DEF Text

LEMMA KeptAtFirst ==
    ASSUME NEW t \in Text
    PROVE  Kept(t, Found(<<>>, t)) /\ Found(<<>>, t) \in FoundSet
<1>1. \A x : Count(<<>>, x) = 0 /\ Count(t, x) \in Nat
  BY CountEmpty, TextCount
<1>2. <<>> \in Seq(Call)
  BY EmptySeq
<1>3. Found(<<>>, t).calls = <<>> /\ Found(<<>>, t).rest = t /\ Found(<<>>, t) \in FoundSet
  BY <1>2 DEF Found, FoundSet
<1> QED
  BY <1>1, <1>3 DEF Kept

LEMMA CallsOfCount ==
    ASSUME NEW x \in Piece, x.kind \in Object, NEW n
    PROVE  /\ Count(CallsOf(x), <<n, 1>>) = IF n = x.n THEN 1 ELSE 0
           /\ Count(CallsOf(x), <<n, 2>>) \in Nat
           /\ Count(CallsOf(x), <<n, 2>>) <= Count(CallsOf(x), <<n, 1>>)
<1> DEFINE a == <<x.n, 1>>
           b == <<x.n, 2>>
<1>1. a \in Call /\ b \in Call
  BY DEF Piece, Call
<1>2. CallsOf(x) = <<a>> \/ CallsOf(x) = <<a, b>>
  BY DEF CallsOf, Object
<1>3. /\ <<n, 1>> = a <=> n = x.n
      /\ <<n, 2>> = b <=> n = x.n
      /\ <<n, 1>> # b /\ <<n, 2>> # a
  OBVIOUS
<1> HIDE DEF a, b
<1>4. <<a>> \in Seq(Call) /\ \A y : Count(<<a>>, y) = IF a = y THEN 1 ELSE 0
  BY <1>1, CountOne
<1>5. \A y : Count(<<a, b>>, y) = (IF a = y THEN 1 ELSE 0) + (IF b = y THEN 1 ELSE 0)
  <2> TAKE y
  <2>1. <<a, b>> = Append(<<a>>, b)
    OBVIOUS
  <2>2. <<a>> \in Seq(Call) /\ b \in Call
    BY <1>1, <1>4
  <2>3. \A s \in Seq(Call) : Count(Append(s, b), y) = Count(s, y) + (IF b = y THEN 1 ELSE 0)
    BY <1>1, CountAppend
  <2>4. Count(Append(<<a>>, b), y) = Count(<<a>>, y) + (IF b = y THEN 1 ELSE 0)
    BY <2>2, <2>3, Zenon
  <2> QED
    BY <1>4, <2>1, <2>4
<1>6. CASE CallsOf(x) = <<a>>
  BY <1>3, <1>4, <1>6
<1>7. CASE CallsOf(x) = <<a, b>>
  BY <1>3, <1>5, <1>7
<1> QED
  BY <1>2, <1>6, <1>7

\* What of a text a call takes.
Taking(x, y) == y = x \/ (x.kind = "head" /\ y = Token("tail", x.n))

LEMMA KeptStep ==
    ASSUME NEW t \in Text, Proper(t), NEW f \in FoundSet, Kept(t, f),
           NEW i \in 1..Len(f.rest), NEW j \in i..Len(f.rest), NEW left \in Text,
           NEW o \in Piece, o.kind \in Object,
           \A x \in Piece : x.kind \in Object \cup {"tail", "word"} =>
                /\ Count(left, x) = 0
                /\ Count(SubSeq(f.rest, i, j), x) = IF Taking(o, x) THEN 1 ELSE 0
    PROVE  Kept(t, Found(f.calls \o CallsOf(o), Splice(f.rest, i, j, left)))
<1> DEFINE cs == f.calls \o CallsOf(o)
           rest == Splice(f.rest, i, j, left)
           Of(x) == IF Taking(o, x) THEN 1 ELSE 0
<1>1. f.rest \in Text /\ f.calls \in Seq(Call)
  BY DEF FoundSet
<1>2. ASSUME NEW x \in Piece, x.kind \in Object \cup {"tail", "word"}
      PROVE  /\ Count(rest, x) + Of(x) = Count(f.rest, x)
             /\ Count(rest, x) \in Nat /\ Count(f.rest, x) \in Nat
  <2>1. /\ Count(rest, x) + Count(SubSeq(f.rest, i, j), x) = Count(f.rest, x) + Count(left, x)
        /\ Count(rest, x) \in Nat /\ Count(f.rest, x) \in Nat
    BY <1>1, SpliceCounted, Zenon
  <2>2. Count(left, x) = 0 /\ Count(SubSeq(f.rest, i, j), x) = Of(x)
    BY <1>2
  <2> HIDE DEF rest
  <2> QED
    BY <2>1, <2>2
<1>3. CallsOf(o) \in Seq(Call) /\ cs \in Seq(Call)
  BY <1>1, CallsOfTyped
<1>4. ASSUME NEW n
      PROVE  /\ Count(cs, <<n, 1>>) = Count(f.calls, <<n, 1>>) + (IF n = o.n THEN 1 ELSE 0)
             /\ Count(f.calls, <<n, 1>>) \in Nat
             /\ Count(f.calls, <<n, 2>>) \in Nat
             /\ n # o.n => Count(cs, <<n, 2>>) = Count(f.calls, <<n, 2>>)
             /\ Count(cs, <<n, 2>>) <= Count(f.calls, <<n, 2>>) + 1
  <2>1. \A y : Count(cs, y) = Count(f.calls, y) + Count(CallsOf(o), y)
    BY <1>1, <1>3, CountConcat
  <2>2. /\ Count(CallsOf(o), <<n, 1>>) = IF n = o.n THEN 1 ELSE 0
        /\ Count(CallsOf(o), <<n, 2>>) \in Nat
        /\ Count(CallsOf(o), <<n, 2>>) <= Count(CallsOf(o), <<n, 1>>)
    BY CallsOfCount
  <2>3. Count(f.calls, <<n, 1>>) \in Nat /\ Count(f.calls, <<n, 2>>) \in Nat
    BY <1>1, TextCount
  <2>4. /\ Count(cs, <<n, 1>>) = Count(f.calls, <<n, 1>>) + Count(CallsOf(o), <<n, 1>>)
        /\ Count(cs, <<n, 2>>) = Count(f.calls, <<n, 2>>) + Count(CallsOf(o), <<n, 2>>)
    BY <2>1
  <2> HIDE DEF cs
  <2> QED
    BY <2>2, <2>3, <2>4
<1> HIDE DEF cs, rest
\* Every object and every tail is in t at most once, and o is.
<1>5. \A x \in Piece : x.kind \in Object => Count(t, x) <= 1
  <2> TAKE x \in Piece
  <2> HAVE x.kind \in Object
  <2>1. \A k, l \in DOMAIN t : t[k] = x /\ t[l] = x => k = l
    BY DEF Proper, OwnNumbers
  <2> QED
    BY <2>1, CountOnce DEF Text
<1>6. \A x \in Piece : x.kind = "tail" => Count(t, x) <= 1
  <2> TAKE x \in Piece
  <2> HAVE x.kind = "tail"
  <2>1. \A k, l \in DOMAIN t : t[k] = x /\ t[l] = x => k = l
    <3> TAKE k, l \in DOMAIN t
    <3> HAVE t[k] = x /\ t[l] = x
    <3>1. /\ k - 2 \in DOMAIN t /\ t[k - 2] = Token("head", x.n)
          /\ l - 2 \in DOMAIN t /\ t[l - 2] = Token("head", x.n)
      BY DEF Proper, TailsFollow
    <3>2. Token("head", x.n).kind \in Object
      BY DEF Token, Object
    <3>3. k - 2 = l - 2
      BY <3>1, <3>2 DEF Proper, OwnNumbers
    <3>4. DOMAIN t \in SUBSET Nat
      BY DEF Text
    <3> QED
      BY <3>3, <3>4
  <2> QED
    BY <2>1, CountOnce DEF Text
<1>7. Count(f.rest, o) > 0
  <2>1. Of(o) = 1
    BY DEF Taking
  <2> QED
    BY <1>2, <2>1
<1>8. Count(t, o) = 1 /\ Count(f.calls, <<o.n, 1>>) = 0
  <2>1. Count(t, o) \in Nat /\ Count(t, o) <= 1 /\ Count(f.rest, o) \in Nat
    BY <1>1, <1>5, TextCount
  <2>2. Count(t, o) > 0 /\ Count(f.rest, o) + Count(f.calls, <<o.n, 1>>) = Count(t, o)
    BY <1>7, <2>1 DEF Kept
  <2>3. Count(f.calls, <<o.n, 1>>) \in Nat
    BY <1>4
  <2> QED
    BY <1>7, <2>1, <2>2, <2>3
<1>9. \E k \in DOMAIN t : t[k] = o
  BY <1>8, TextCount
<1>10. \A x \in Piece : x.kind \in Object /\ x.n = o.n /\ Count(t, x) > 0 => x = o
  <2> TAKE x \in Piece
  <2> HAVE x.kind \in Object /\ x.n = o.n /\ Count(t, x) > 0
  <2>1. \E k \in DOMAIN t : t[k] = x
    BY TextCount
  <2> QED
    BY <1>9, <2>1 DEF Proper, OwnNumbers
<1>11. \A x \in Piece : x.kind = "tail" /\ x.n = o.n /\ Count(t, x) > 0 => Taking(o, x)
  <2> TAKE x \in Piece
  <2> HAVE x.kind = "tail" /\ x.n = o.n /\ Count(t, x) > 0
  <2>1. PICK k \in DOMAIN t : t[k] = x
    BY TextCount
  <2>2. k - 2 \in DOMAIN t /\ t[k - 2] = Token("head", o.n)
    BY <2>1 DEF Proper, TailsFollow
  <2>3. t[k - 2].kind = "head" /\ t[k - 2].n = o.n
    BY <2>2 DEF Token
  <2>4. t[k - 2] = o
    BY <1>9, <2>2, <2>3 DEF Proper, OwnNumbers, Object
  <2>5. x = Token("tail", o.n)
    BY PieceToken
  <2> QED
    BY <2>3, <2>4, <2>5 DEF Taking
<1>12. \A x \in Piece : Taking(o, x) => x.n = o.n
  BY DEF Taking, Token
<1>13. \A x \in Piece : x.kind = "word" => Count(rest, x) = Count(t, x)
  <2> TAKE x \in Piece
  <2> HAVE x.kind = "word"
  <2>1. ~Taking(o, x)
    BY DEF Taking, Token, Object
  <2>2. Count(f.rest, x) = Count(t, x)
    BY DEF Kept
  <2> QED
    BY <1>2, <2>1, <2>2
<1>14. ASSUME NEW x \in Piece, x.kind \in Object \cup {"tail"}
       PROVE  IF Count(t, x) > 0 THEN Count(rest, x) + Count(cs, <<x.n, 1>>) = Count(t, x)
              ELSE Count(rest, x) = 0
  <2>1. Count(t, x) \in Nat /\ Count(t, x) <= 1
    BY <1>5, <1>6, <1>14, TextCount
  <2>2. IF Count(t, x) > 0 THEN Count(f.rest, x) + Count(f.calls, <<x.n, 1>>) = Count(t, x)
        ELSE Count(f.rest, x) = 0
    BY <1>14 DEF Kept
  <2>3. /\ Count(rest, x) + Of(x) = Count(f.rest, x)
        /\ Count(rest, x) \in Nat /\ Count(f.rest, x) \in Nat
    BY <1>2, <1>14
  <2>4. /\ Count(cs, <<x.n, 1>>) = Count(f.calls, <<x.n, 1>>) + (IF x.n = o.n THEN 1 ELSE 0)
        /\ Count(f.calls, <<x.n, 1>>) \in Nat
    BY <1>4
  <2>5. CASE Count(t, x) > 0 /\ x.n = o.n
    <3>1. Taking(o, x)
      BY <1>10, <1>11, <1>14, <2>5 DEF Taking
    <3> QED
      BY <2>1, <2>2, <2>3, <2>4, <2>5, <3>1
  <2>6. CASE Count(t, x) > 0 /\ x.n # o.n
    <3>1. ~Taking(o, x)
      BY <1>12, <2>6
    <3> QED
      BY <2>1, <2>2, <2>3, <2>4, <2>6, <3>1
  <2>7. CASE ~(Count(t, x) > 0)
    BY <2>2, <2>3, <2>7
  <2> QED
    BY <2>5, <2>6, <2>7
<1>15. ASSUME NEW n \in 1..MaxSegments
       PROVE  Count(cs, <<n, 2>>) <= Count(cs, <<n, 1>>) /\ Count(cs, <<n, 1>>) <= 1
  <2>1. /\ Count(f.calls, <<n, 2>>) <= Count(f.calls, <<n, 1>>)
        /\ Count(f.calls, <<n, 1>>) <= 1
    BY DEF Kept
  <2>2. Count(cs, <<n, 2>>) \in Nat
    BY <1>3, TextCount
  <2> QED
    BY <1>4, <1>8, <2>1, <2>2
<1>16. Found(cs, rest).calls = cs /\ Found(cs, rest).rest = rest
  BY DEF Found
<1>17. Kept(t, Found(cs, rest))
  BY <1>13, <1>14, <1>15, <1>16 DEF Kept
<1> QED
  BY <1>17 DEF cs, rest

\* What a span of one token or of three counts.
LEMMA SpanCount ==
    ASSUME NEW t \in Text, NEW i \in 1..Len(t), NEW x
    PROVE  /\ Count(SubSeq(t, i, i), x) = IF t[i] = x THEN 1 ELSE 0
           /\ i + 2 \in 1..Len(t) =>
                 Count(SubSeq(t, i, i + 2), x)
                   = (IF t[i] = x THEN 1 ELSE 0) + (IF t[i + 1] = x THEN 1 ELSE 0)
                     + (IF t[i + 2] = x THEN 1 ELSE 0)
<1>1. Len(t) \in Nat /\ \A k \in 1..Len(t) : t[k] \in Piece
  BY DEF Text
<1>2. \A a \in Piece : <<a>> \in Text /\ Count(<<a>>, x) = IF a = x THEN 1 ELSE 0
  BY CountOne DEF Text
<1>3. \A s \in Text : \A a \in Piece :
          Append(s, a) \in Text /\ Count(Append(s, a), x) = Count(s, x) + (IF a = x THEN 1 ELSE 0)
  <2>1. \A s \in Seq(Piece) : \A a \in Piece : Append(s, a) \in Seq(Piece)
    OBVIOUS
  <2>2. \A s \in Seq(Piece) : \A a \in Piece : Count(Append(s, a), x) = Count(s, x) + (IF a = x THEN 1 ELSE 0)
    BY CountAppend
  <2> QED
    BY <2>1, <2>2, Zenon DEF Text
<1>4. SubSeq(t, i, i) = <<t[i]>>
  <2> DEFINE s == SubSeq(t, i, i)
  <2>1. s \in Seq(Piece) /\ Len(s) = 1 /\ s[1] = t[i]
    BY <1>1 DEF Text
  <2> HIDE DEF s
  <2>2. s = <<s[1]>>
    BY <2>1
  <2> QED
    BY <2>1, <2>2 DEF s
<1>5. ASSUME i + 2 \in 1..Len(t)
      PROVE  Count(SubSeq(t, i, i + 2), x)
               = (IF t[i] = x THEN 1 ELSE 0) + (IF t[i + 1] = x THEN 1 ELSE 0)
                 + (IF t[i + 2] = x THEN 1 ELSE 0)
  <2> DEFINE a == t[i]
             b == t[i + 1]
             c == t[i + 2]
  <2>1. a \in Piece /\ b \in Piece /\ c \in Piece
    BY <1>1, <1>5
  <2>2. SubSeq(t, i, i + 2) = <<a, b, c>>
    <3> DEFINE s == SubSeq(t, i, i + 2)
    <3>1. s \in Seq(Piece) /\ Len(s) = 3 /\ s[1] = a /\ s[2] = b /\ s[3] = c
      BY <1>1, <1>5 DEF Text
    <3> HIDE DEF s
    <3>2. s = <<s[1], s[2], s[3]>>
      BY <3>1
    <3> QED
      BY <3>1, <3>2 DEF s
  <2>3. SubSeq(t, i, i + 2) = Append(Append(<<a>>, b), c)
    BY <2>2
  <2> HIDE DEF a, b, c
  <2>4. <<a>> \in Text /\ Count(<<a>>, x) = IF a = x THEN 1 ELSE 0
    BY <1>2, <2>1, Zenon
  <2>5. /\ Append(<<a>>, b) \in Text
        /\ Count(Append(<<a>>, b), x) = Count(<<a>>, x) + (IF b = x THEN 1 ELSE 0)
    BY <1>3, <2>1, <2>4, Zenon
  <2>6. Count(Append(Append(<<a>>, b), c), x) = Count(Append(<<a>>, b), x) + (IF c = x THEN 1 ELSE 0)
    BY <1>3, <2>1, <2>5, Zenon
  <2> DEFINE r == Count(Append(Append(<<a>>, b), c), x)
             q == Count(Append(<<a>>, b), x)
             p == Count(<<a>>, x)
  <2>7. /\ p = IF a = x THEN 1 ELSE 0
        /\ q = p + (IF b = x THEN 1 ELSE 0)
        /\ r = q + (IF c = x THEN 1 ELSE 0)
    BY <2>4, <2>5, <2>6
  <2> HIDE DEF p, q, r
  <2>8. r = (IF a = x THEN 1 ELSE 0) + (IF b = x THEN 1 ELSE 0) + (IF c = x THEN 1 ELSE 0)
    BY <2>7
  <2> QED
    BY <2>3, <2>8 DEF a, b, c, r
<1> QED
  BY <1>2, <1>1, <1>4, <1>5

LEMMA SpanCounted ==
    \A x : \A t \in Text : \A i \in 1..Len(t) :
        /\ Count(SubSeq(t, i, i), x) = IF t[i] = x THEN 1 ELSE 0
        /\ i + 2 \in 1..Len(t) =>
              Count(SubSeq(t, i, i + 2), x)
                = (IF t[i] = x THEN 1 ELSE 0) + (IF t[i + 1] = x THEN 1 ELSE 0)
                  + (IF t[i + 2] = x THEN 1 ELSE 0)
  BY SpanCount

LEMMA BlockKept ==
    ASSUME NEW t \in Text, Proper(t), NEW f \in FoundSet, Kept(t, f)
    PROVE  Kept(t, TakeBlock(f))
<1> DEFINE block == FirstBlock(f.rest)
           i == block.from
           o == f.rest[i + 1]
<1>1. f.rest \in Text
  BY DEF FoundSet
<1>2. CASE block.calls = <<>>
  BY <1>2, TakeBlockIs
<1>3. CASE block.calls # <<>>
  <2>1. /\ i \in 1..Len(f.rest) /\ i + 1 \in 1..Len(f.rest) /\ i + 2 \in 1..Len(f.rest)
        /\ block.to = i + 2
        /\ f.rest[i].kind = "open" /\ o.kind \in {"call", "pair"}
        /\ f.rest[i + 2].kind \in {"open", "ticks"}
        /\ block.calls = CallsOf(o)
    BY <1>1, <1>3, BlockIs
  <2>2. /\ Left(f) \in {<<>>} \cup {<<Token("name", n)>> : n \in 1..MaxSegments}
        /\ Left(f) \in Text
        /\ TakeBlock(f) = Found(f.calls \o block.calls, Splice(f.rest, i, block.to, Left(f)))
    BY <1>3, TakeBlockIs
  <2>3. o \in Piece /\ o.kind \in Object
    BY <1>1, <2>1 DEF Text, Object
  <2>4. i + 2 \in i..Len(f.rest)
    BY <2>1
  <2>5. ASSUME NEW x \in Piece, x.kind \in Object \cup {"tail", "word"}
        PROVE  /\ Count(Left(f), x) = 0
               /\ Count(SubSeq(f.rest, i, i + 2), x) = IF Taking(o, x) THEN 1 ELSE 0
    <3>1. \A n \in 1..MaxSegments : Count(<<Token("name", n)>>, x) = 0
      <4> TAKE n \in 1..MaxSegments
      <4>1. Token("name", n) \in Piece
        BY PieceToken DEF Kind
      <4>2. Token("name", n) # x
        BY <2>5 DEF Token, Object
      <4> QED
        BY <4>1, <4>2, CountOne
    <3>2. Count(Left(f), x) = 0
      BY <2>2, <3>1, CountEmpty
    <3>3. f.rest[i] # x /\ f.rest[i + 2] # x
      BY <2>1, <2>5 DEF Object
    <3>4. Taking(o, x) <=> o = x
      BY <2>1 DEF Taking
    <3>5. Count(SubSeq(f.rest, i, i + 2), x)
             = (IF f.rest[i] = x THEN 1 ELSE 0) + (IF o = x THEN 1 ELSE 0)
               + (IF f.rest[i + 2] = x THEN 1 ELSE 0)
      <4>1. i \in 1..Len(f.rest) /\ i + 2 \in 1..Len(f.rest)
        BY <2>1
      <4> HIDE DEF i
      <4> QED
        BY <1>1, <4>1, SpanCounted, Zenon
    <3> HIDE DEF o
    <3> QED
      BY <3>2, <3>3, <3>4, <3>5
  <2> HIDE DEF o, i, block
  <2>6. Kept(t, Found(f.calls \o CallsOf(o), Splice(f.rest, i, i + 2, Left(f))))
    BY <2>1, <2>2, <2>3, <2>4, <2>5, KeptStep
  <2> QED
    BY <2>1, <2>2, <2>6
<1> QED
  BY <1>2, <1>3

LEMMA FencedKept ==
    ASSUME NEW t \in Text, Proper(t)
    PROVE  Fenced(t) \in FoundSet /\ Kept(t, Fenced(t))
<1> DEFINE n == Len(t)
           after == Turns(t)
           Good == {k \in 0..n : Kept(t, after[k])}
<1>1. n \in Nat
  BY DEF Text
<1>2. /\ after \in [0..n -> FoundSet]
      /\ after[0] = Found(<<>>, t)
      /\ \A k \in 1..n : after[k] = TakeBlock(after[k - 1])
  BY TurnsAre
<1>3. Fenced(t) = after[n]
  BY DEF Fenced
<1> HIDE DEF n, after
<1>4. 0 \in Good
  BY <1>1, <1>2, KeptAtFirst
<1>5. ASSUME NEW k \in 1..n, k - 1 \in Good PROVE k \in Good
  <2>1. k \in 0..n /\ k - 1 \in 0..n
    BY <1>1
  <2>2. after[k - 1] \in FoundSet /\ Kept(t, after[k - 1])
    BY <1>2, <1>5, <2>1
  <2>3. Kept(t, TakeBlock(after[k - 1]))
    BY <2>2, BlockKept
  <2> QED
    BY <1>2, <2>1, <2>3
<1>6. \A k \in 0..n : k \in Good
  <2>1. Good \in SUBSET (0..n)
    OBVIOUS
  <2> HIDE DEF Good
  <2> QED
    BY <1>1, <1>4, <1>5, <2>1, CountUp
<1>7. n \in 0..n
  BY <1>1
<1> QED
  BY <1>2, <1>3, <1>6, <1>7

\* What the search for an object outside the blocks comes to.
LEMMA BareIs ==
    ASSUME NEW t \in Text, Proper(t), NEW kinds \in SUBSET Object
    PROVE  \/ Bare(t, kinds) = Found(<<>>, t)
           \/ \E i \in 1..Len(t) : \E j \in i..Len(t) :
                 \E left \in {<<>>} \cup {<<Token("stub", n)>> : n \in 1..MaxSegments} :
                    /\ t[i].kind \in kinds
                    /\ Bare(t, kinds) = Found(CallsOf(t[i]), Splice(t, i, j, left))
                    /\ \/ t[i].kind # "head" /\ j = i
                       \/ /\ t[i].kind = "head" /\ j = i + 2
                          /\ t[i + 1].kind = "ticks" /\ t[i + 2] = Token("tail", t[i].n)
<1> DEFINE at == NextOf(t, 1, kinds)
           ends == at > 0 /\ (t[at].kind = "head" => at + 2 <= Len(t))
           last == IF t[at].kind = "head" THEN at + 2 ELSE at
           left == IF t[at].kind = "half" THEN <<Token("stub", t[at].n)>> ELSE <<>>
<1>1. Bare(t, kinds) = IF ends THEN Found(CallsOf(t[at]), Splice(t, at, last, left))
                       ELSE Found(<<>>, t)
  BY DEF Bare
<1>2. Len(t) \in Nat /\ DOMAIN t = 1..Len(t)
  BY DEF Text
<1>3. at # 0 => at \in 1..Len(t) /\ t[at].kind \in kinds
  BY NextOfFinds
<1> HIDE DEF at
<1>4. CASE ~ends
  BY <1>1, <1>4
<1>5. CASE ends
  <2>1. at \in 1..Len(t) /\ t[at].kind \in kinds
    BY <1>3, <1>5
  <2>2. left \in {<<>>} \cup {<<Token("stub", n)>> : n \in 1..MaxSegments}
    <3>1. t[at] \in Piece
      BY <2>1 DEF Text
    <3> QED
      BY <3>1, PieceToken
  <2>3. last \in at..Len(t)
    BY <1>2, <1>5, <2>1
  <2>4. \/ t[at].kind # "head" /\ last = at
        \/ /\ t[at].kind = "head" /\ last = at + 2
           /\ t[at + 1].kind = "ticks" /\ t[at + 2] = Token("tail", t[at].n)
    <3>1. t[at].kind = "head" => at + 2 \in DOMAIN t
      BY <1>2, <1>5, <2>1
    <3> QED
      BY <1>2, <2>1, <3>1 DEF Proper, HeadsLead
  <2>5. Bare(t, kinds) = Found(CallsOf(t[at]), Splice(t, at, last, left))
    BY <1>1, <1>5
  <2> HIDE DEF last, left
  <2> QED
    BY <2>1, <2>2, <2>3, <2>4, <2>5
<1> QED
  BY <1>4, <1>5

LEMMA BareKept ==
    ASSUME NEW t \in Text, Proper(t), NEW kinds \in SUBSET Object
    PROVE  Bare(t, kinds) \in FoundSet /\ Kept(t, Bare(t, kinds))
<1> DEFINE f == Found(<<>>, t)
<1>1. f \in FoundSet /\ Kept(t, f)
  BY KeptAtFirst
<1>2. f.rest = t /\ f.calls = <<>>
  BY DEF Found
<1> HIDE DEF f
<1>3. ASSUME NEW i \in 1..Len(t), NEW j \in i..Len(t),
             NEW left \in {<<>>} \cup {<<Token("stub", n)>> : n \in 1..MaxSegments},
             t[i].kind \in kinds,
             \/ t[i].kind # "head" /\ j = i
             \/ /\ t[i].kind = "head" /\ j = i + 2
                /\ t[i + 1].kind = "ticks" /\ t[i + 2] = Token("tail", t[i].n)
      PROVE  LET r == Found(CallsOf(t[i]), Splice(t, i, j, left))
             IN r \in FoundSet /\ Kept(t, r)
  <2> DEFINE o == t[i]
  <2>1. o \in Piece /\ o.kind \in Object /\ Len(t) \in Nat
    BY <1>3 DEF Text
  <2>2. left \in Text
    <3>1. \A n \in 1..MaxSegments : Token("stub", n) \in Piece
      BY PieceToken DEF Kind
    <3>2. <<>> \in Text /\ \A x \in Piece : <<x>> \in Text
      BY EmptySeq DEF Text
    <3> QED
      BY <3>1, <3>2, Zenon
  <2>3. ASSUME NEW x \in Piece, x.kind \in Object \cup {"tail", "word"}
        PROVE  /\ Count(left, x) = 0
               /\ Count(SubSeq(t, i, j), x) = IF Taking(o, x) THEN 1 ELSE 0
    <3>1. \A n \in 1..MaxSegments : Count(<<Token("stub", n)>>, x) = 0
      <4> TAKE n \in 1..MaxSegments
      <4>1. Token("stub", n) \in Piece
        BY PieceToken DEF Kind
      <4>2. Token("stub", n) # x
        BY <2>3 DEF Token, Object
      <4> QED
        BY <4>1, <4>2, CountOne
    <3>2. Count(left, x) = 0
      BY <3>1, CountEmpty
    <3>3. CASE o.kind # "head"
      <4>1. j = i
        BY <1>3, <3>3
      <4>2. Count(SubSeq(t, i, i), x) = IF o = x THEN 1 ELSE 0
        BY SpanCounted, Zenon
      <4>3. Taking(o, x) <=> o = x
        BY <3>3 DEF Taking
      <4> QED
        BY <3>2, <4>1, <4>2, <4>3
    <3>4. CASE o.kind = "head"
      <4>1. /\ j = i + 2 /\ t[i + 1].kind = "ticks" /\ t[i + 2] = Token("tail", o.n)
            /\ i + 2 \in 1..Len(t)
        BY <1>3, <2>1, <3>4
      <4>2. Count(SubSeq(t, i, i + 2), x)
              = (IF t[i] = x THEN 1 ELSE 0) + (IF t[i + 1] = x THEN 1 ELSE 0)
                + (IF t[i + 2] = x THEN 1 ELSE 0)
        BY <4>1, SpanCounted, Zenon
      <4>3. t[i + 1] # x
        BY <2>3, <4>1 DEF Object
      <4>4. o # t[i + 2]
        BY <3>4, <4>1 DEF Token
      <4>5. Taking(o, x) <=> o = x \/ t[i + 2] = x
        BY <3>4, <4>1 DEF Taking
      <4> QED
        BY <3>2, <4>1, <4>2, <4>3, <4>4, <4>5
    <3> QED
      BY <3>3, <3>4
  <2> HIDE DEF o
  <2>4. Kept(t, Found(<<>> \o CallsOf(o), Splice(t, i, j, left)))
    BY <1>1, <1>2, <2>1, <2>2, <2>3, KeptStep
  <2>5. CallsOf(o) \in Seq(Call)
    BY <2>1, CallsOfTyped
  <2>6. <<>> \o CallsOf(o) = CallsOf(o)
    BY <2>5, ConcatEmptySeq
  <2>7. Splice(t, i, j, left) \in Text
    BY <2>2, SpliceTyped
  <2> QED
    BY <2>4, <2>5, <2>6, <2>7 DEF o, Found, FoundSet
<1>4. CASE Bare(t, kinds) = Found(<<>>, t)
  BY <1>1, <1>4 DEF f
<1>5. CASE Bare(t, kinds) # Found(<<>>, t)
  <2>1. PICK i \in 1..Len(t) : \E j \in i..Len(t) :
                 \E left \in {<<>>} \cup {<<Token("stub", n)>> : n \in 1..MaxSegments} :
                    /\ t[i].kind \in kinds
                    /\ Bare(t, kinds) = Found(CallsOf(t[i]), Splice(t, i, j, left))
                    /\ \/ t[i].kind # "head" /\ j = i
                       \/ /\ t[i].kind = "head" /\ j = i + 2
                          /\ t[i + 1].kind = "ticks" /\ t[i + 2] = Token("tail", t[i].n)
    BY <1>5, BareIs
  <2> QED
    BY <1>3, <2>1
<1> QED
  BY <1>4, <1>5

LEMMA ExtractKept ==
    ASSUME NEW t \in Text, Proper(t)
    PROVE  ExtractToolCalls(t) \in FoundSet /\ Kept(t, ExtractToolCalls(t))
<1>1. Fenced(t) \in FoundSet /\ Kept(t, Fenced(t))
  BY FencedKept
<1>2. {"pair"} \in SUBSET Object /\ {"call", "head", "half"} \in SUBSET Object
  BY DEF Object
<1>3. Bare(t, {"pair"}) \in FoundSet /\ Kept(t, Bare(t, {"pair"}))
  BY <1>2, BareKept
<1>4. /\ Bare(t, {"call", "head", "half"}) \in FoundSet
      /\ Kept(t, Bare(t, {"call", "head", "half"}))
  BY <1>2, BareKept
<1> QED
  BY <1>1, <1>3, <1>4 DEF ExtractToolCalls

----------------------------------------------------------------------------
(* The inductive invariant: what has been fetched is a cut of the reply,   *)
(* and each step has handed on what the one before it made.                *)

\* What TakeCalls makes of the text.
Handed(c, cs) ==
    LET found == ExtractToolCalls(text)
    IN IF tools /\ found.calls # <<>> THEN c = found.rest /\ cs = found.calls
       ELSE c = text /\ cs = <<>>

Fetched == pc \in {"take", "record", "deliver", "delivered"}

IInv ==
    /\ reply \in Shapes /\ reply \in Seq(Segment)
    /\ tools \in BOOLEAN /\ stream \in BOOLEAN
    /\ pc \in {"poll", "take", "record", "deliver", "delivered", "failed"}
    /\ finish \in {"stop", "length", "tool_calls"}
    /\ IF Fetched THEN text \in Cuts(TextOf(reply)) ELSE text = <<>>
    /\ IF Taken THEN Handed(content, calls) ELSE content = <<>> /\ calls = <<>>
    /\ recorded = IF pc \in {"deliver", "delivered"} THEN Message(content, calls)
                  ELSE Message(<<>>, <<>>)
    /\ received = IF pc # "delivered" THEN Message(<<>>, <<>>)
                  ELSE IF stream THEN Assembled(Stream(content, calls))
                  ELSE Completion(content, calls)

LEMMA InitInv == Init => IInv
<1> SUFFICES ASSUME Init PROVE IInv
  OBVIOUS
<1>1. reply \in Shapes /\ reply \in Seq(Segment)
  <2>1. PICK m \in 0..MaxSegments : reply \in [1..m -> Segment]
    BY DEF Init, BoundedSeq, SeqOf
  <2>2. reply \in Seq(Segment) /\ Len(reply) = m /\ m <= MaxSegments
    BY <2>1, SizeAssumption
  <2>3. reply \in Seq(SegmentName)
    <3>1. Segment \subseteq SegmentName
      BY SegmentAssumption DEF SegmentName
    <3>2. reply \in [1..m -> SegmentName] /\ m \in Nat
      BY <2>1, <3>1, SizeAssumption
    <3> QED
      BY <3>2
  <2> QED
    BY <2>2, <2>3 DEF Shapes
<1> QED
  BY <1>1 DEF Init, IInv, Fetched, Taken

LEMMA NextInv == IInv /\ [Next]_vars => IInv'
<1> SUFFICES ASSUME IInv, [Next]_vars PROVE IInv'
  OBVIOUS
<1> USE DEF IInv
<1>1. ASSUME NEW shown \in Cuts(TextOf(reply)), NEW finished \in BOOLEAN,
             PollReturns(shown, finished)
      PROVE  IInv'
  BY <1>1 DEF PollReturns, Goto, Fetched, Taken
<1>2. CASE PollFails
  BY <1>2 DEF PollFails, Goto, Fetched, Taken
<1>3. CASE TakeCalls
  <2>1. /\ pc = "take" /\ pc' = "record"
        /\ UNCHANGED <<reply, tools, stream, text, recorded, received>>
    BY <1>3 DEF TakeCalls, Goto
  <2>2. content = <<>> /\ calls = <<>>
    BY <2>1 DEF Taken
  <2>3. Handed(content', calls') /\ finish' \in {"stop", "length", "tool_calls"}
    BY <1>3, <2>2 DEF TakeCalls, Handed
  <2>4. (Handed(content, calls))'
    BY <2>1, <2>3 DEF Handed
  <2> QED
    BY <2>1, <2>3, <2>4 DEF Fetched, Taken
<1>4. CASE FinalizeConversation
  <2>1. /\ pc = "record" /\ pc' = "deliver" /\ recorded' = Message(content, calls)
        /\ UNCHANGED <<reply, tools, stream, text, finish, content, calls, received>>
    BY <1>4 DEF FinalizeConversation, Goto
  <2>2. (Handed(content, calls))'
    BY <2>1 DEF Handed, Taken
  <2> QED
    BY <2>1, <2>2 DEF Fetched, Taken
<1>5. CASE Deliver
  <2>1. /\ pc = "deliver" /\ pc' = "delivered"
        /\ received' = IF stream THEN Assembled(Stream(content, calls)) ELSE Completion(content, calls)
        /\ UNCHANGED <<reply, tools, stream, text, finish, content, calls, recorded>>
    BY <1>5 DEF Deliver, Goto
  <2>2. (Handed(content, calls))'
    BY <2>1 DEF Handed, Taken
  <2>3. /\ (content' = content) /\ (calls' = calls) /\ (stream' = stream)
    BY <2>1
  <2> QED
    BY <2>1, <2>2, <2>3 DEF Fetched, Taken
<1>6. CASE UNCHANGED vars
  BY <1>6 DEF vars, Fetched, Taken, Handed
<1> QED
  BY <1>1, <1>2, <1>3, <1>4, <1>5, <1>6 DEF Next

THEOREM Invariance == Spec => []IInv
  BY InitInv, NextInv, PTL DEF Spec

\* What is handed on are texts and calls.
LEMMA HandedTyped ==
    ASSUME IInv
    PROVE  /\ Fetched => text \in Text /\ Proper(text)
           /\ text \in Text /\ content \in Text /\ calls \in Seq(Call)
<1>1. <<>> \in Text /\ <<>> \in Seq(Call)
  BY EmptySeq DEF Text
<1>2. ASSUME Fetched PROVE text \in Text /\ Proper(text)
  <2>1. TextOf(reply) \in Text /\ Proper(TextOf(reply))
    BY ProperText DEF IInv
  <2>2. text \in Cuts(TextOf(reply))
    BY <1>2 DEF IInv
  <2> QED
    BY <2>1, <2>2, ProperCut
<1>3. text \in Text
  BY <1>1, <1>2 DEF IInv
<1>4. CASE Taken
  <2>1. Fetched /\ Handed(content, calls)
    BY <1>4 DEF IInv, Taken, Fetched
  <2>2. ExtractToolCalls(text) \in FoundSet
    BY <1>2, <2>1, ExtractKept
  <2> QED
    BY <1>1, <1>2, <1>3, <2>1, <2>2 DEF Handed, FoundSet
<1>5. CASE ~Taken
  BY <1>1, <1>2, <1>3, <1>5 DEF IInv
<1> QED
  BY <1>4, <1>5

\* What a client has received, streamed or not, is a message.
LEMMA ReceivedParsed ==
    ASSUME NEW c \in Text, NEW cs \in Seq(Call)
    PROVE  /\ Message(c, cs) \in [content : Text, calls : Seq(Call)]
           /\ Completion(c, cs) \in [content : Text \cup {Absent}, calls : Seq(Call)]
           /\ Assembled(Stream(c, cs)) = Message(c, cs)
           /\ Parsed(Assembled(Stream(c, cs))) = Message(c, cs)
           /\ Parsed(Completion(c, cs)) = Message(c, cs)
<1>1. Assembled(Stream(c, cs)) = Message(c, cs)
  BY StreamJoined
<1>2. Parsed(Completion(c, cs)) = Message(c, cs) /\ Parsed(Message(c, cs)) = Message(c, cs)
  BY CompletionParsed
<1>3. /\ Message(c, cs) \in [content : Text, calls : Seq(Call)]
      /\ Completion(c, cs) \in [content : Text \cup {Absent}, calls : Seq(Call)]
  BY DEF Message, Completion
<1> QED
  BY <1>1, <1>2, <1>3

\* Every variable keeps to its type: in particular what the scanner leaves of
\* a text is a text, and what the frames add up to is a message.
THEOREM TypeCorrect == Spec => []TypeOK
<1>1. ASSUME IInv PROVE TypeOK
  <2>1. text \in Text /\ content \in Text /\ calls \in Seq(Call)
    BY <1>1, HandedTyped
  <2>2. <<>> \in Text /\ <<>> \in Seq(Call)
    BY EmptySeq DEF Text
  <2>3. \A c \in Text : \A cs \in Seq(Call) :
           /\ Message(c, cs) \in [content : Text, calls : Seq(Call)]
           /\ Message(c, cs) \in [content : Text \cup {Absent}, calls : Seq(Call)]
           /\ Completion(c, cs) \in [content : Text \cup {Absent}, calls : Seq(Call)]
           /\ Assembled(Stream(c, cs)) = Message(c, cs)
    <3>1. \A c \in Text : \A cs \in Seq(Call) :
           Message(c, cs) \in [content : Text \cup {Absent}, calls : Seq(Call)]
      BY DEF Message
    <3> QED
      BY <3>1, ReceivedParsed
  <2>4. recorded \in [content : Text, calls : Seq(Call)]
    <3>1. recorded = Message(content, calls) \/ recorded = Message(<<>>, <<>>)
      BY <1>1 DEF IInv
    <3> QED
      BY <2>1, <2>2, <2>3, <3>1, Zenon
  <2>5. received \in [content : Text \cup {Absent}, calls : Seq(Call)]
    <3>1. \/ received = Message(<<>>, <<>>)
          \/ received = Assembled(Stream(content, calls))
          \/ received = Completion(content, calls)
      BY <1>1 DEF IInv
    <3> QED
      BY <2>1, <2>2, <2>3, <3>1, Zenon
  <2> QED
    BY <1>1, <2>1, <2>4, <2>5 DEF TypeOK, IInv
<1> QED
  BY <1>1, Invariance, PTL

\* What the client sends back has the fingerprint that was recorded, for
\* texts and lists of calls of every length, streamed or not
\* (internal/server/request.go:206-207).
THEOREM Echoes == Spec => []EchoMatches
<1>1. ASSUME IInv PROVE EchoMatches
  <2> SUFFICES ASSUME pc = "delivered" PROVE Parsed(received) = recorded
    BY DEF EchoMatches
  <2>1. content \in Text /\ calls \in Seq(Call)
    BY <1>1, HandedTyped
  <2>2. /\ recorded = Message(content, calls)
        /\ received = IF stream THEN Assembled(Stream(content, calls)) ELSE Completion(content, calls)
    BY <1>1 DEF IInv
  <2>3. /\ Parsed(Assembled(Stream(content, calls))) = Message(content, calls)
        /\ Parsed(Completion(content, calls)) = Message(content, calls)
    BY <2>1, ReceivedParsed
  <2> QED
    BY <2>2, <2>3
<1> QED
  BY <1>1, Invariance, PTL

\* What the calls and the rest of a text have kept of it, in the words of the
\* property.
LEMMA KeptSaid ==
    ASSUME NEW t \in Text, NEW f \in FoundSet, Kept(t, f)
    PROVE  /\ \A x \in ToSet(t) : x.kind \in {"word", "call", "pair", "head", "tail"} =>
                 Count(f.rest, x) + (IF x.kind = "word" THEN 0 ELSE Count(f.calls, <<x.n, 1>>))
                    = Count(t, x)
           /\ \A i, j \in DOMAIN f.calls : i < j => f.calls[i] # f.calls[j]
<1>1. f.rest \in Text /\ f.calls \in Seq(Call)
  BY DEF FoundSet
<1>2. ASSUME NEW x \in ToSet(t), x.kind \in {"word", "call", "pair", "head", "tail"}
      PROVE  Count(f.rest, x) + (IF x.kind = "word" THEN 0 ELSE Count(f.calls, <<x.n, 1>>))
                    = Count(t, x)
  <2>1. PICK k \in DOMAIN t : t[k] = x
    BY DEF ToSet
  <2>2. x \in Piece
    BY <2>1 DEF Text
  <2>3. Count(t, x) > 0
    BY <2>1, TextCount
  <2>4. Count(f.rest, x) \in Nat /\ Count(t, x) \in Nat
    BY <1>1, TextCount
  <2>5. CASE x.kind = "word"
    <3>1. Count(f.rest, x) = Count(t, x)
      BY <2>2, <2>5 DEF Kept
    <3> QED
      BY <2>4, <2>5, <3>1
  <2>6. CASE x.kind # "word"
    <3>1. x.kind \in Object \cup {"tail"}
      BY <1>2, <2>6 DEF Object
    <3>2. Count(f.rest, x) + Count(f.calls, <<x.n, 1>>) = Count(t, x)
      BY <2>2, <2>3, <3>1 DEF Kept
    <3> QED
      BY <2>6, <3>2
  <2> QED
    BY <2>5, <2>6
<1>3. ASSUME NEW c \in Call PROVE Count(f.calls, c) <= 1
  <2>1. PICK n \in 1..MaxSegments : c = <<n, 1>> \/ c = <<n, 2>>
    BY DEF Call
  <2>2. Count(f.calls, <<n, 2>>) <= Count(f.calls, <<n, 1>>) /\ Count(f.calls, <<n, 1>>) <= 1
    BY DEF Kept
  <2>3. Count(f.calls, <<n, 2>>) \in Nat /\ Count(f.calls, <<n, 1>>) \in Nat
    BY <1>1, TextCount
  <2> QED
    BY <2>1, <2>2, <2>3
<1>4. ASSUME NEW i \in DOMAIN f.calls, NEW j \in DOMAIN f.calls, i < j, f.calls[i] = f.calls[j]
      PROVE  FALSE
  <2>1. f.calls[i] \in Call
    BY <1>1
  <2>2. Count(f.calls, f.calls[i]) <= 1
    BY <1>3, <2>1
  <2>3. i = j
    BY <1>1, <1>4, <2>2, OnceCounted
  <2>4. i \in Nat
    BY <1>1
  <2> QED
    BY <1>4, <2>3, <2>4
<1> QED
  BY <1>2, <1>4

\* Whatever the model writes, and however much of it is there, each object and
\* each word is kept or made a call, and no call is made twice
\* (internal/server/tools.go:89-122).
THEOREM LosesNothing == Spec => []NothingLost
<1>1. ASSUME IInv PROVE NothingLost
  <2> SUFFICES ASSUME Taken
               PROVE  /\ \A x \in ToSet(text) : x.kind \in {"word", "call", "pair", "head", "tail"} =>
                            Count(content, x)
                             + (IF x.kind = "word" THEN 0 ELSE Count(calls, <<x.n, 1>>))
                                = Count(text, x)
                      /\ \A i, j \in DOMAIN calls : i < j => calls[i] # calls[j]
    BY DEF NothingLost, Count, Places
  <2>1. text \in Text /\ Proper(text) /\ Handed(content, calls)
    BY <1>1, HandedTyped DEF IInv, Taken, Fetched
  <2> DEFINE f == Found(calls, content)
  <2>2. f.calls = calls /\ f.rest = content
    BY DEF Found
  <2>3. f \in FoundSet /\ Kept(text, f)
    <3>1. CASE tools /\ ExtractToolCalls(text).calls # <<>>
      <4>1. ExtractToolCalls(text) \in FoundSet /\ Kept(text, ExtractToolCalls(text))
        BY <2>1, ExtractKept
      <4>2. content = ExtractToolCalls(text).rest /\ calls = ExtractToolCalls(text).calls
        BY <2>1, <3>1 DEF Handed
      <4>3. f = ExtractToolCalls(text)
        BY <4>1, <4>2 DEF Found, FoundSet
      <4> QED
        BY <4>1, <4>3
    <3>2. CASE ~(tools /\ ExtractToolCalls(text).calls # <<>>)
      <4>1. content = text /\ calls = <<>>
        BY <2>1, <3>2 DEF Handed
      <4> QED
        BY <2>1, <4>1, KeptAtFirst
    <3> QED
      BY <3>1, <3>2
  <2> HIDE DEF f
  <2> QED
    BY <2>1, <2>2, <2>3, KeptSaid
<1> QED
  BY <1>1, Invariance, PTL

----------------------------------------------------------------------------
(* What a reply in the form that was asked for comes to. *)

LEMMA TextJoins ==
    /\ <<>> \in Text
    /\ \A a \in Text : a \o <<>> = a /\ <<>> \o a = a /\ Len(a) \in Nat
    /\ \A a, b \in Text : a \o b \in Text /\ Len(a \o b) = Len(a) + Len(b)
    /\ \A a, b, c \in Text : (a \o b) \o c = a \o (b \o c)
    /\ \A a, b, c \in Text : a \o b = a \o c => b = c
<1>1. <<>> \in Text
  BY EmptySeq DEF Text
<1>2. \A a \in Text : a \o <<>> = a /\ <<>> \o a = a /\ Len(a) \in Nat
  BY ConcatEmptySeq DEF Text
<1>3. \A a, b \in Text : a \o b \in Text /\ Len(a \o b) = Len(a) + Len(b)
  BY DEF Text
<1>4. \A a, b, c \in Text : (a \o b) \o c = a \o (b \o c)
  BY ConcatAssociative DEF Text
<1>5. \A a, b, c \in Text : a \o b = a \o c => b = c
  <2>1. \A S : \A s, t, v \in Seq(S) : s \o t = s \o v => t = v
    BY ConcatSimplifications
  <2> QED
    BY <2>1, Zenon DEF Text
<1> QED
  BY <1>1, <1>2, <1>3, <1>4, <1>5

LEMMA TextParts ==
    ASSUME NEW a \in Text, NEW b \in Text
    PROVE  /\ DOMAIN (a \o b) = 1..(Len(a) + Len(b)) /\ Len(a) \in Nat /\ Len(b) \in Nat
           /\ \A i \in 1..Len(a) : (a \o b)[i] = a[i]
           /\ \A i \in 1..Len(b) : (a \o b)[Len(a) + i] = b[i]
  BY DEF Text

\* The calls of a text are those of its parts.
LEMMA CallsInJoined ==
    /\ CallsIn(<<>>) = <<>>
    /\ \A t \in Text : CallsIn(t) \in Seq(Call)
    /\ \A t, u \in Text : CallsIn(t \o u) = CallsIn(t) \o CallsIn(u)
    /\ \A x \in Piece : CallsIn(<<x>>) = CallsOf(x)
<1> DEFINE g(t) == [k \in DOMAIN t |-> CallsOf(t[k])]
<1>1. \A t \in Text : g(t) \in Seq(Seq(Call))
  <2> TAKE t \in Text
  <2>1. Len(t) \in Nat /\ DOMAIN t = 1..Len(t) /\ \A k \in 1..Len(t) : t[k] \in Piece
    BY DEF Text
  <2>2. \A k \in 1..Len(t) : CallsOf(t[k]) \in Seq(Call)
    BY <2>1, CallsOfTyped
  <2> DEFINE S == Seq(Call)
  <2> HIDE DEF S
  <2>3. g(t) \in [1..Len(t) -> S]
    BY <2>1, <2>2 DEF S
  <2>4. g(t) \in Seq(S)
    BY <2>1, <2>3
  <2> QED
    BY <2>4 DEF S
<1>2. ASSUME NEW t \in Text, NEW u \in Text PROVE g(t \o u) = g(t) \o g(u)
  <2>1. /\ Len(t) \in Nat /\ Len(u) \in Nat /\ DOMAIN t = 1..Len(t) /\ DOMAIN u = 1..Len(u)
        /\ DOMAIN (t \o u) = 1..(Len(t) + Len(u))
        /\ \A i \in 1..Len(t) : (t \o u)[i] = t[i]
        /\ \A i \in (Len(t) + 1)..(Len(t) + Len(u)) : (t \o u)[i] = u[i - Len(t)]
    BY DEF Text
  <2>2. g(t) \in Seq(Seq(Call)) /\ g(u) \in Seq(Seq(Call)) /\ g(t \o u) \in Seq(Seq(Call))
    BY <1>1, TextJoins
  <2>3. /\ DOMAIN g(t) = 1..Len(t) /\ DOMAIN g(u) = 1..Len(u)
        /\ DOMAIN g(t \o u) = 1..(Len(t) + Len(u))
        /\ \A i \in 1..Len(t) : g(t)[i] = CallsOf(t[i])
        /\ \A i \in 1..Len(u) : g(u)[i] = CallsOf(u[i])
        /\ \A i \in 1..(Len(t) + Len(u)) : g(t \o u)[i] = CallsOf((t \o u)[i])
    BY <2>1
  <2> DEFINE S == Seq(Call)
             p == g(t)
             q == g(u)
             r == g(t \o u)
  <2>4. p \in Seq(S) /\ q \in Seq(S) /\ r \in Seq(S)
    BY <2>2
  <2>5. Len(p) = Len(t) /\ Len(q) = Len(u) /\ Len(r) = Len(t) + Len(u)
    BY <2>1, <2>3, <2>4
  <2>6. \A i \in 1..Len(t) : r[i] = p[i]
    BY <2>1, <2>3
  <2>7. \A i \in (Len(t) + 1)..(Len(t) + Len(u)) : r[i] = q[i - Len(t)]
    <3> TAKE i \in (Len(t) + 1)..(Len(t) + Len(u))
    <3>1. i - Len(t) \in 1..Len(u) /\ i \in 1..(Len(t) + Len(u))
      BY <2>1
    <3> QED
      BY <2>1, <2>3, <3>1
  <2> HIDE DEF p, q, r, S
  <2>8. p \o q \in Seq(S) /\ Len(p \o q) = Len(r)
    BY <2>4, <2>5, ConcatProperties
  <2>9. \A i \in 1..Len(r) : r[i] = (p \o q)[i]
    BY <2>1, <2>4, <2>5, <2>6, <2>7
  <2>10. r = p \o q
    <3>1. \A u1, u2 \in Seq(S) : Len(u1) = Len(u2) /\ (\A i \in 1..Len(u1) : u1[i] = u2[i]) => u1 = u2
      BY SeqEqual
    <3> QED
      BY <2>4, <2>8, <2>9, <3>1, Zenon
  <2> QED
    BY <2>10 DEF p, q, r
<1>3. \A t \in Text : CallsIn(t) = FlattenSeq(g(t))
  BY DEF CallsIn
<1>4. \A x \in Piece : g(<<x>>) = <<CallsOf(x)>>
  OBVIOUS
<1>5. g(<<>>) = <<>>
  OBVIOUS
<1> HIDE DEF g
<1>6. CallsIn(<<>>) = <<>>
  BY <1>3, <1>5, FlattenEmpty, TextJoins
<1>7. \A t \in Text : CallsIn(t) \in Seq(Call)
  BY <1>1, <1>3, FlattenTyped
<1>8. ASSUME NEW t \in Text, NEW u \in Text PROVE CallsIn(t \o u) = CallsIn(t) \o CallsIn(u)
  <2>1. g(t) \in Seq(Seq(Call)) /\ g(u) \in Seq(Seq(Call)) /\ t \o u \in Text
    BY <1>1, TextJoins
  <2>2. FlattenSeq(g(t) \o g(u)) = FlattenSeq(g(t)) \o FlattenSeq(g(u))
    BY <2>1, FlattenSplit
  <2> QED
    BY <1>2, <1>3, <2>1, <2>2
<1>9. ASSUME NEW x \in Piece PROVE CallsIn(<<x>>) = CallsOf(x)
  <2>1. <<x>> \in Text
    BY DEF Text
  <2>2. CallsOf(x) \in Seq(Call) /\ <<>> \in Seq(Seq(Call))
    BY CallsOfTyped, EmptySeq
  <2>3. <<CallsOf(x)>> = Append(<<>>, CallsOf(x))
    OBVIOUS
  <2>4. FlattenSeq(Append(<<>>, CallsOf(x))) = FlattenSeq(<<>>) \o CallsOf(x)
    BY <2>2, FlattenAppend
  <2>5. <<>> \o CallsOf(x) = CallsOf(x)
    BY <2>2, ConcatEmptySeq
  <2> QED
    BY <1>3, <1>4, <2>1, <2>3, <2>4, <2>5, FlattenEmpty
<1> QED
  BY <1>6, <1>7, <1>8, <1>9

\* Tuples put together.
LEMMA TuplesJoined ==
    ASSUME NEW S, NEW a \in S, NEW b \in S, NEW c \in S
    PROVE  <<a>> \o <<b>> = <<a, b>> /\ <<a, b>> \o <<c>> = <<a, b, c>>
<1> DEFINE p == <<a>>
           q == <<b>>
           r == <<c>>
           s == <<a, b>>
<1>1. /\ p \in Seq(S) /\ Len(p) = 1 /\ p[1] = a
      /\ q \in Seq(S) /\ Len(q) = 1 /\ q[1] = b
      /\ r \in Seq(S) /\ Len(r) = 1 /\ r[1] = c
      /\ s \in Seq(S) /\ Len(s) = 2 /\ s[1] = a /\ s[2] = b
  OBVIOUS
<1> HIDE DEF p, q, r, s
<1>2. \A x, y \in Seq(S) :
         /\ x \o y \in Seq(S) /\ Len(x \o y) = Len(x) + Len(y)
         /\ \A i \in 1..Len(x) + Len(y) : (x \o y)[i] = IF i <= Len(x) THEN x[i] ELSE y[i - Len(x)]
  BY ConcatProperties
<1> DEFINE u == p \o q
           v == s \o r
<1>3. /\ u \in Seq(S) /\ Len(u) = Len(p) + Len(q)
      /\ \A i \in 1..Len(p) + Len(q) : u[i] = IF i <= Len(p) THEN p[i] ELSE q[i - Len(p)]
  BY <1>1, <1>2, Zenon
<1>4. /\ v \in Seq(S) /\ Len(v) = Len(s) + Len(r)
      /\ \A i \in 1..Len(s) + Len(r) : v[i] = IF i <= Len(s) THEN s[i] ELSE r[i - Len(s)]
  BY <1>1, <1>2, Zenon
<1> HIDE DEF u, v
<1>5. u[1] = a /\ u[2] = b /\ v[1] = a /\ v[2] = b /\ v[3] = c
  BY <1>1, <1>3, <1>4
<1>6. u = <<u[1], u[2]>>
  BY <1>1, <1>3
<1>7. v = <<v[1], v[2], v[3]>>
  BY <1>1, <1>4
<1> QED
  BY <1>5, <1>6, <1>7 DEF p, q, r, s, u, v

LEMMA CallsInThree ==
    ASSUME NEW a \in Piece, NEW b \in Piece, NEW c \in Piece
    PROVE  CallsIn(<<a, b, c>>) = (CallsOf(a) \o CallsOf(b)) \o CallsOf(c)
<1>1. /\ <<a>> \in Text /\ <<b>> \in Text /\ <<c>> \in Text
      /\ <<a>> \o <<b>> = <<a, b>> /\ <<a, b>> \in Text
      /\ <<a, b>> \o <<c>> = <<a, b, c>>
  <2>1. /\ <<a>> \in Text /\ <<b>> \in Text /\ <<c>> \in Text
        /\ <<a, b>> \in Text
    BY DEF Text
  <2>2. <<a>> \o <<b>> = <<a, b>> /\ <<a, b>> \o <<c>> = <<a, b, c>>
    BY TuplesJoined
  <2> QED
    BY <2>1, <2>2
<1>2. CallsIn(<<a, b>>) = CallsIn(<<a>>) \o CallsIn(<<b>>)
  BY <1>1, CallsInJoined
<1>3. CallsIn(<<a, b, c>>) = CallsIn(<<a, b>>) \o CallsIn(<<c>>)
  BY <1>1, CallsInJoined
<1> QED
  BY <1>2, <1>3, CallsInJoined

AllRegular(s) == \A n \in DOMAIN s : s[n] \in {"word", "code", "call", "pair"}

\* The first m segments without those that are calls.
Plain(s, m) ==
    FlattenSeq([n \in 1..m |-> IF s[n] \in {"call", "pair"} THEN <<>> ELSE Tokens(s[n], n)])

LEMMA PlainSteps ==
    ASSUME NEW s \in Shapes
    PROVE  /\ Plain(s, 0) = <<>>
           /\ \A m \in 0..Len(s) : Plain(s, m) \in Text
           /\ \A m \in 1..Len(s) :
                 Plain(s, m) = Plain(s, m - 1)
                                 \o (IF s[m] \in {"call", "pair"} THEN <<>> ELSE Tokens(s[m], m))
           /\ Plain(s, Len(s)) = FlattenSeq([n \in DOMAIN s |->
                 IF s[n] \in {"call", "pair"} THEN <<>> ELSE Tokens(s[n], n)])
<1> DEFINE N == Len(s)
           E(n) == IF s[n] \in {"call", "pair"} THEN <<>> ELSE Tokens(s[n], n)
           f == [n \in 1..N |-> E(n)]
<1>1. N \in Nat /\ DOMAIN s = 1..N
  BY ShapeTyped
<1>2. f \in [1..N -> Text]
  <2>1. \A n \in 1..N : E(n) \in Text
    BY ShapeTyped, TokensTyped, TextJoins
  <2> QED
    BY <2>1
<1>3. \A m \in 0..N : Plain(s, m) = FlattenSeq([n \in 1..m |-> f[n]])
  <2> TAKE m \in 0..N
  <2>1. [n \in 1..m |-> E(n)] = [n \in 1..m |-> f[n]]
    BY <1>1
  <2> QED
    BY <2>1 DEF Plain
<1>4. FlattenSeq([n \in DOMAIN s |-> E(n)]) = FlattenSeq(f)
  BY <1>1
<1>5. \A m \in 1..N : f[m] = E(m)
  OBVIOUS
<1> HIDE DEF f, N, E
<1>6. /\ FlattenSeq([n \in 1..0 |-> f[n]]) = <<>>
      /\ \A m \in 0..N : FlattenSeq([n \in 1..m |-> f[n]]) \in Text
      /\ \A m \in 1..N : FlattenSeq([n \in 1..m |-> f[n]])
                           = FlattenSeq([n \in 1..(m - 1) |-> f[n]]) \o f[m]
      /\ FlattenSeq([n \in 1..N |-> f[n]]) = FlattenSeq(f)
  BY <1>1, <1>2, FlattenSteps DEF Text
<1>7. 0 \in 0..N /\ N \in 0..N /\ \A m \in 1..N : m \in 0..N /\ m - 1 \in 0..N
  BY <1>1
<1>8. Plain(s, 0) = <<>> /\ Plain(s, N) = FlattenSeq([n \in DOMAIN s |-> E(n)])
  BY <1>3, <1>4, <1>6, <1>7, Zenon
<1>9. \A m \in 0..N : Plain(s, m) \in Text
  BY <1>3, <1>6, Zenon
<1>10. \A m \in 1..N : Plain(s, m) = Plain(s, m - 1) \o E(m)
  BY <1>3, <1>5, <1>6, <1>7, Zenon
<1> QED
  BY <1>8, <1>9, <1>10 DEF N, E

\* Nothing that the scanner looks for.
Quiet(t) == \A i \in DOMAIN t : t[i].kind \in {"word", "ticks"}

LEMMA QuietJoined ==
    ASSUME NEW a \in Text, NEW b \in Text, Quiet(a), Quiet(b)
    PROVE  Quiet(a \o b)
<1>1. DOMAIN a = 1..Len(a) /\ DOMAIN b = 1..Len(b)
  BY DEF Text
<1>2. ASSUME NEW i \in DOMAIN (a \o b) PROVE (a \o b)[i].kind \in {"word", "ticks"}
  <2>1. i \in 1..Len(a) \/ (i - Len(a) \in 1..Len(b) /\ i = Len(a) + (i - Len(a)))
    BY TextParts
  <2>2. CASE i \in 1..Len(a)
    BY <1>1, <2>2, TextParts DEF Quiet
  <2>3. CASE i - Len(a) \in 1..Len(b) /\ i = Len(a) + (i - Len(a))
    <3>1. (a \o b)[Len(a) + (i - Len(a))] = b[i - Len(a)]
      BY <2>3, TextParts
    <3> QED
      BY <1>1, <2>3, <3>1 DEF Quiet
  <2> QED
    BY <2>1, <2>2, <2>3
<1> QED
  BY <1>2 DEF Quiet

LEMMA RegularTokens ==
    ASSUME NEW n \in 1..MaxSegments
    PROVE  /\ \A seg \in {"word", "code"} :
                 Tokens(seg, n) \in Text /\ Quiet(Tokens(seg, n)) /\ CallsIn(Tokens(seg, n)) = <<>>
           /\ \A seg \in {"call", "pair"} :
                 /\ Tokens(seg, n) = <<Token("open", n), Token(seg, n), Token("ticks", n)>>
                 /\ Tokens(seg, n) \in Text
                 /\ Token(seg, n) \in Piece
                 /\ CallsIn(Tokens(seg, n)) = CallsOf(Token(seg, n))
                 /\ CallsOf(Token(seg, n)) # <<>>
<1>1. \A k \in Kind : Token(k, n) \in Piece
  BY PieceToken
<1>2. \A k \in {"word", "open", "ticks"} : Token(k, n) \in Piece /\ CallsOf(Token(k, n)) = <<>>
  BY <1>1 DEF Kind, CallsOf, Token
<1>3. <<>> \o <<>> = <<>> /\ \A a \in Seq(Call) : <<>> \o a = a /\ a \o <<>> = a
  <2>1. <<>> \in Seq(Call)
    BY EmptySeq
  <2> QED
    BY <2>1, ConcatEmptySeq
<1>4. \A seg \in SegmentName : Tokens(seg, n) \in Text
  BY TokensTyped
<1>5. Quiet(Tokens("word", n)) /\ CallsIn(Tokens("word", n)) = <<>>
  <2>1. Tokens("word", n) = <<Token("word", n)>>
    BY TokensAre
  <2>2. Quiet(<<Token("word", n)>>)
    BY DEF Quiet, Token
  <2> QED
    BY <1>2, <2>1, <2>2, CallsInJoined
<1>6. Quiet(Tokens("code", n)) /\ CallsIn(Tokens("code", n)) = <<>>
  <2>1. Tokens("code", n) = <<Token("ticks", n), Token("word", n), Token("ticks", n)>>
    BY TokensAre
  <2>2. Quiet(<<Token("ticks", n), Token("word", n), Token("ticks", n)>>)
    BY DEF Quiet, Token
  <2>3. CallsIn(<<Token("ticks", n), Token("word", n), Token("ticks", n)>>)
          = (CallsOf(Token("ticks", n)) \o CallsOf(Token("word", n))) \o CallsOf(Token("ticks", n))
    BY <1>2, CallsInThree
  <2> QED
    BY <1>2, <1>3, <2>1, <2>2, <2>3
<1>7. ASSUME NEW seg \in {"call", "pair"}
      PROVE  /\ Tokens(seg, n) = <<Token("open", n), Token(seg, n), Token("ticks", n)>>
             /\ Token(seg, n) \in Piece
             /\ CallsIn(Tokens(seg, n)) = CallsOf(Token(seg, n))
             /\ CallsOf(Token(seg, n)) # <<>>
  <2>1. Tokens(seg, n) = <<Token("open", n), Token(seg, n), Token("ticks", n)>>
    BY TokensAre
  <2>2. Token(seg, n) \in Piece
    BY <1>1 DEF Kind
  <2>3. CallsIn(<<Token("open", n), Token(seg, n), Token("ticks", n)>>)
          = (CallsOf(Token("open", n)) \o CallsOf(Token(seg, n))) \o CallsOf(Token("ticks", n))
    BY <1>2, <2>2, CallsInThree
  <2>4. CallsOf(Token(seg, n)) \in Seq(Call)
    BY <2>2, CallsOfTyped
  <2>5. CallsOf(Token(seg, n)) # <<>>
    BY DEF CallsOf, Token
  <2>6. (<<>> \o CallsOf(Token(seg, n))) \o <<>> = CallsOf(Token(seg, n))
    BY <1>3, <2>4, Zenon
  <2>7. CallsOf(Token("open", n)) = <<>> /\ CallsOf(Token("ticks", n)) = <<>>
    BY <1>2
  <2>8. CallsIn(Tokens(seg, n)) = CallsOf(Token(seg, n))
    BY <2>1, <2>3, <2>6, <2>7, Zenon
  <2> QED
    BY <2>1, <2>2, <2>5, <2>8
<1> QED
  BY <1>4, <1>5, <1>6, <1>7 DEF SegmentName

\* What is left of the first segments is quiet, and it is all of them if there
\* is no call among them.
LEMMA PlainQuiet ==
    ASSUME NEW s \in Shapes, AllRegular(s)
    PROVE  \A m \in 0..Len(s) :
              /\ Quiet(Plain(s, m))
              /\ First(s, m) = Plain(s, m) \/ CallsIn(First(s, m)) # <<>>
              /\ Len(First(s, m)) >= m
<1> DEFINE N == Len(s)
           Fine(m) == /\ Quiet(Plain(s, m))
                      /\ First(s, m) = Plain(s, m) \/ CallsIn(First(s, m)) # <<>>
                      /\ Len(First(s, m)) >= m
           Good == {m \in 0..N : Fine(m)}
<1>1. /\ N \in Nat
      /\ \A m \in 1..N : /\ s[m] \in {"word", "code", "call", "pair"} /\ s[m] \in SegmentName
                         /\ m \in 1..MaxSegments /\ m \in 0..N /\ m - 1 \in 0..N
  BY ShapeTyped DEF AllRegular
<1>2. /\ First(s, 0) = <<>> /\ Plain(s, 0) = <<>>
      /\ \A m \in 0..N : First(s, m) \in Text /\ Plain(s, m) \in Text
      /\ \A m \in 1..N : /\ First(s, m) = First(s, m - 1) \o Tokens(s[m], m)
                         /\ Plain(s, m) = Plain(s, m - 1)
                              \o (IF s[m] \in {"call", "pair"} THEN <<>> ELSE Tokens(s[m], m))
  BY FirstSteps, PlainSteps
<1> HIDE DEF N
<1>3. 0 \in Good
  <2>1. 0 \in 0..N
    BY <1>1
  <2>2. Quiet(<<>>) /\ Len(<<>>) >= 0
    BY DEF Quiet
  <2> QED
    BY <1>2, <2>1, <2>2
<1>4. ASSUME NEW m \in 1..N, m - 1 \in Good PROVE m \in Good
  <2> DEFINE a == First(s, m - 1)
             b == Plain(s, m - 1)
             t == Tokens(s[m], m)
  <2>1. m \in 0..N /\ m - 1 \in 0..N /\ m \in Nat
    BY <1>1
  <2>2. a \in Text /\ b \in Text /\ Fine(m - 1)
    BY <1>2, <1>4, <2>1
  <2>3. t \in Text /\ Len(t) \in 1..5
    BY <1>1, TokensTyped
  <2>4. First(s, m) = a \o t /\ Len(a \o t) = Len(a) + Len(t) /\ Len(a) \in Nat
    BY <1>2, <2>2, <2>3, TextJoins
  <2>5. Len(First(s, m)) >= m
    <3>1. Len(First(s, m)) = Len(a) + Len(t) /\ Len(a) \in Nat /\ Len(a) >= m - 1 /\ Len(t) \in 1..5
      BY <2>2, <2>3, <2>4
    <3> DEFINE x == Len(a)
               y == Len(t)
               z == Len(First(s, m))
    <3>2. z = x + y /\ x \in Nat /\ x >= m - 1 /\ y \in 1..5
      BY <3>1
    <3> HIDE DEF x, y, z
    <3>3. z >= m
      BY <2>1, <3>2
    <3> QED
      BY <3>3 DEF z
  <2>6. CallsIn(a \o t) = CallsIn(a) \o CallsIn(t) /\ CallsIn(a) \in Seq(Call) /\ CallsIn(t) \in Seq(Call)
    BY <2>2, <2>3, CallsInJoined
  <2>7. \A x, y \in Seq(Call) : x \o y = <<>> => x = <<>> /\ y = <<>>
    BY ConcatEqualIffEmpty
  <2>8. CASE s[m] \in {"call", "pair"}
    <3>1. CallsIn(t) # <<>>
      BY <1>1, <2>8, RegularTokens
    <3>2. CallsIn(First(s, m)) # <<>>
      BY <2>4, <2>6, <2>7, <3>1, Zenon
    <3>3. Plain(s, m) = b
      BY <1>2, <2>2, <2>8, TextJoins
    <3>4. Quiet(Plain(s, m))
      BY <2>2, <3>3
    <3> QED
      BY <2>1, <2>5, <3>2, <3>4
  <2>9. CASE s[m] \in {"word", "code"}
    <3>1. Plain(s, m) = b \o t
      BY <1>2, <2>9
    <3>2. Quiet(b) /\ Quiet(t)
      BY <1>1, <2>2, <2>9, RegularTokens
    <3> HIDE DEF a, b, t
    <3>3. Quiet(b \o t)
      BY <2>2, <2>3, <3>2, QuietJoined
    <3>4. First(s, m) = Plain(s, m) \/ CallsIn(First(s, m)) # <<>>
      <4>1. CASE a = b
        BY <2>4, <3>1, <4>1
      <4>2. CASE CallsIn(a) # <<>>
        BY <2>4, <2>6, <2>7, <4>2, Zenon
      <4> QED
        BY <2>2, <4>1, <4>2 DEF a, b
    <3> QED
      BY <2>1, <2>5, <3>1, <3>3, <3>4
  <2> QED
    BY <1>1, <2>8, <2>9
<1>5. Good \in SUBSET (0..N)
  OBVIOUS
<1>6. \A m \in 0..N : m \in Good
  <2> HIDE DEF Good
  <2> QED
    BY <1>1, <1>3, <1>4, <1>5, CountUp
<1> QED
  BY <1>6 DEF N

\* A text falls into the parts it was put together from.
LEMMA SplitJoined ==
    ASSUME NEW a \in Text, NEW b \in Text
    PROVE  SubSeq(a \o b, 1, Len(a)) = a /\ SubSeq(a \o b, Len(a) + 1, Len(a \o b)) = b
<1> DEFINE w == a \o b
           p == SubSeq(w, 1, Len(a))
           q == SubSeq(w, Len(a) + 1, Len(a) + Len(b))
<1>1. /\ Len(a) \in Nat /\ Len(b) \in Nat /\ Len(w) = Len(a) + Len(b) /\ w \in Seq(Piece)
      /\ \A i \in 1..Len(a) : w[i] = a[i]
      /\ \A i \in 1..Len(b) : w[Len(a) + i] = b[i]
  BY TextParts, TextJoins DEF Text
<1> HIDE DEF w
<1>2. p \in Seq(Piece) /\ Len(p) = Len(a) /\ \A i \in 1..Len(a) : p[i] = w[i]
  BY <1>1
<1>3. q \in Seq(Piece) /\ Len(q) = Len(b) /\ \A i \in 1..Len(b) : q[i] = w[Len(a) + i]
  BY <1>1
<1> HIDE DEF p, q
<1>4. \A x, y \in Text : Len(x) = Len(y) /\ (\A i \in 1..Len(x) : x[i] = y[i]) => x = y
  BY SeqEqual DEF Text
<1>5. p \in Text /\ q \in Text
  BY <1>2, <1>3 DEF Text
<1>6. p = a
  <2>1. Len(p) = Len(a) /\ \A i \in 1..Len(p) : p[i] = a[i]
    BY <1>1, <1>2
  <2> QED
    BY <1>4, <1>5, <2>1, Zenon
<1>7. q = b
  <2>1. Len(q) = Len(b) /\ \A i \in 1..Len(q) : q[i] = b[i]
    BY <1>1, <1>3
  <2> QED
    BY <1>4, <1>5, <2>1, Zenon
<1> QED
  BY <1>1, <1>6, <1>7 DEF p, q, w

\* A call in a block of its own, behind a quiet text, is the next to be taken.
LEMMA BlockTaken ==
    ASSUME NEW a \in Text, Quiet(a), NEW r \in Text, NEW n \in 1..MaxSegments,
           NEW seg \in {"call", "pair"}, NEW cs
    PROVE  TakeBlock(Found(cs, a \o (Tokens(seg, n) \o r)))
             = Found(cs \o CallsOf(Token(seg, n)), a \o r)
<1> DEFINE t == Tokens(seg, n)
           o == Token(seg, n)
           w == a \o (t \o r)
           i == Len(a) + 1
<1>1. /\ t = <<Token("open", n), o, Token("ticks", n)>> /\ t \in Text /\ o \in Piece
      /\ CallsOf(o) # <<>>
  BY RegularTokens
<1>2. /\ Len(t) = 3 /\ t[1].kind = "open" /\ t[2] = o /\ t[3].kind = "ticks"
      /\ o.kind \in {"call", "pair"}
  BY <1>1 DEF Token
<1>3. /\ t \o r \in Text /\ w \in Text /\ a \o t \in Text /\ a \o r \in Text /\ w = (a \o t) \o r
      /\ Len(a) \in Nat /\ Len(r) \in Nat
      /\ Len(a \o t) = Len(a) + Len(t) /\ Len(t \o r) = Len(t) + Len(r)
      /\ Len(w) = Len(a) + Len(t \o r)
  <2>1. t \in Text
    BY <1>1
  <2> HIDE DEF t
  <2>2. /\ t \o r \in Text /\ a \o t \in Text /\ a \o r \in Text
        /\ Len(a \o t) = Len(a) + Len(t) /\ Len(t \o r) = Len(t) + Len(r)
    BY <2>1, TextJoins, Zenon
  <2>3. w \in Text /\ Len(w) = Len(a) + Len(t \o r)
    BY <2>2, TextJoins, Zenon
  <2>4. (a \o t) \o r = w
    <3>1. \A x, y, z \in Text : (x \o y) \o z = x \o (y \o z)
      BY TextJoins
    <3> QED
      BY <2>1, <3>1, Zenon
  <2>5. Len(a) \in Nat /\ Len(r) \in Nat
    BY TextJoins
  <2> QED
    BY <2>2, <2>3, <2>4, <2>5, Zenon
<1>4. /\ \A k \in 1..Len(a) : w[k] = a[k]
      /\ \A k \in 1..Len(t \o r) : w[Len(a) + k] = (t \o r)[k]
      /\ \A k \in 1..Len(t) : (t \o r)[k] = t[k]
  BY <1>1, <1>3, TextParts
<1> HIDE DEF t, o
<1>5. w[i] = t[1] /\ w[i + 1] = o /\ w[i + 2] = t[3] /\ Len(w) >= i + 2 /\ Len(w) \in Nat
  <2>1. Len(t \o r) \in Nat /\ Len(t \o r) >= 3 /\ Len(w) = Len(a) + Len(t \o r)
    BY <1>2, <1>3
  <2>2. /\ w[Len(a) + 1] = t[1] /\ w[Len(a) + 2] = t[2] /\ w[Len(a) + 3] = t[3]
    BY <1>2, <1>4, <2>1
  <2> HIDE DEF w
  <2>3. i + 1 = Len(a) + 2 /\ i + 2 = Len(a) + 3 /\ Len(w) >= i + 2 /\ Len(w) \in Nat
    BY <1>3, <2>1
  <2> QED
    BY <1>2, <2>2, <2>3
<1>6. \A k \in 1..(i - 1) : w[k].kind \notin {"open"}
  <2> TAKE k \in 1..(i - 1)
  <2>1. k \in 1..Len(a) /\ k \in DOMAIN a
    BY <1>3 DEF Text
  <2> QED
    BY <1>4, <2>1 DEF Quiet
<1>7. SubSeq(w, 1, i - 1) = a
  BY <1>3, SplitJoined
<1>8. SubSeq(w, i + 3, Len(w)) = r
  <2>1. SubSeq((a \o t) \o r, Len(a \o t) + 1, Len((a \o t) \o r)) = r
    BY <1>3, SplitJoined
  <2>2. i + 3 = Len(a \o t) + 1
    BY <1>2, <1>3
  <2> QED
    BY <1>3, <2>1, <2>2
<1> HIDE DEF w
<1>9. i \in 1..Len(w) /\ i + 1 \in Nat \ {0} /\ i + 2 \in (i + 1)..Len(w) /\ i - 1 = Len(a) /\ i \in Nat
  BY <1>3, <1>5
<1> HIDE DEF i
<1>10. NextOf(w, 1, {"open"}) = i
  <2>1. w[i].kind \in {"open"}
    BY <1>2, <1>5
  <2>2. w \in Text /\ 1 \in Nat \ {0} /\ i \in 1..Len(w)
    BY <1>3, <1>9
  <2> QED
    BY <1>6, <2>1, <2>2, NextOfIs
<1>11. NextOf(w, i + 1, {"open", "ticks"}) = i + 2
  <2>1. w[i + 2].kind \in {"open", "ticks"}
    BY <1>2, <1>5
  <2>2. \A k \in (i + 1)..((i + 2) - 1) : w[k].kind \notin {"open", "ticks"}
    <3> TAKE k \in (i + 1)..((i + 2) - 1)
    <3>1. k = i + 1
      BY <1>9
    <3> QED
      BY <1>2, <1>5, <3>1
  <2> QED
    BY <1>3, <1>9, <2>1, <2>2, NextOfIs
<1>12. ParseBlock(SubSeq(w, i + 1, (i + 2) - 1)) = CallsOf(o)
  <2> DEFINE block == SubSeq(w, i + 1, (i + 2) - 1)
  <2>1. Len(block) = 1 /\ block[1] = o
    BY <1>3, <1>5, <1>9 DEF Text
  <2> QED
    BY <1>2, <2>1 DEF ParseBlock
<1>13. FirstBlock(w) = [from |-> i, to |-> i + 2, calls |-> CallsOf(o)]
  <2>1. i # 0 /\ i + 2 # 0
    BY <1>9
  <2> QED
    BY <1>10, <1>11, <1>12, <2>1 DEF FirstBlock
<1>14. Splice(w, i, i + 2, <<>>) = a \o r
  <2>1. (i + 2) + 1 = i + 3
    BY <1>9
  <2>2. a \o <<>> = a
    BY TextJoins
  <2> QED
    BY <1>7, <1>8, <2>1, <2>2 DEF Splice
<1>15. w[i + 2].kind # "open"
  BY <1>2, <1>5
<1>16. TakeBlock(Found(cs, w)) = Found(cs \o CallsOf(o), Splice(w, i, i + 2, <<>>))
  <2> DEFINE f == Found(cs, w)
  <2>1. f.rest = w /\ f.calls = cs
    BY DEF Found
  <2> HIDE DEF f
  <2>2. FirstBlock(f.rest).calls = CallsOf(o) /\ FirstBlock(f.rest).from = i /\ FirstBlock(f.rest).to = i + 2
    BY <1>13, <2>1
  <2>3. f.rest[FirstBlock(f.rest).to].kind # "open"
    BY <1>15, <2>1, <2>2
  <2>4. TakeBlock(f) = Found(f.calls \o CallsOf(o), Splice(f.rest, i, i + 2, <<>>))
    BY <1>1, <2>2, <2>3 DEF TakeBlock
  <2> QED
    BY <2>1, <2>4 DEF f
<1> QED
  BY <1>14, <1>16 DEF w, t, o

\* What a fetched text ends with, behind the segments that are whole: nothing
\* that the scanner looks for, or the beginning of a block.
Broken(t) ==
    /\ Len(t) \in {1, 2} /\ t[1].kind = "open"
    /\ Len(t) = 2 => t[2].kind \in Object

\* No block is found in such a text.
LEMMA NoBlock ==
    ASSUME NEW a \in Text, Quiet(a), NEW b \in Text, Quiet(b) \/ Broken(b)
    PROVE  FirstBlock(a \o b).calls = <<>>
<1> DEFINE w == a \o b
           i == NextOf(w, 1, {"open"})
           j == NextOf(w, i + 1, {"open", "ticks"})
<1>1. FirstBlock(w).calls = IF i = 0 \/ j = 0 THEN <<>> ELSE ParseBlock(SubSeq(w, i + 1, j - 1))
  BY DEF FirstBlock
<1>2. /\ w \in Text /\ Len(w) = Len(a) + Len(b) /\ Len(a) \in Nat /\ Len(b) \in Nat
      /\ \A k \in 1..Len(a) : w[k] = a[k] /\ k \in DOMAIN a
      /\ \A k \in 1..Len(b) : w[Len(a) + k] = b[k] /\ k \in DOMAIN b
  <2>1. DOMAIN a = 1..Len(a) /\ DOMAIN b = 1..Len(b)
    BY DEF Text
  <2> QED
    BY <2>1, TextParts, TextJoins
<1> HIDE DEF w, i, j
<1> SUFFICES ASSUME i # 0, j # 0 PROVE FALSE
  BY <1>1 DEF w
<1>3. i \in 1..Len(w) /\ w[i].kind = "open"
  BY <1>2, NextOfFinds DEF i
<1>4. i + 1 \in Nat \ {0}
  BY <1>3
<1>5. j \in (i + 1)..Len(w) /\ w[j].kind \in {"open", "ticks"}
  BY <1>2, <1>4, NextOfFinds DEF j
<1>6. i \notin 1..Len(a)
  BY <1>2, <1>3 DEF Quiet
<1>7. i - Len(a) \in 1..Len(b) /\ j - Len(a) \in 2..Len(b)
  BY <1>2, <1>3, <1>5, <1>6
<1>8. /\ b[i - Len(a)].kind = "open" /\ b[j - Len(a)].kind \in {"open", "ticks"}
      /\ i - Len(a) \in DOMAIN b
  <2>1. w[Len(a) + (i - Len(a))] = b[i - Len(a)] /\ w[Len(a) + (j - Len(a))] = b[j - Len(a)]
    BY <1>2, <1>7
  <2>2. Len(a) + (i - Len(a)) = i /\ Len(a) + (j - Len(a)) = j
    BY <1>2, <1>3, <1>5
  <2> QED
    BY <1>2, <1>3, <1>5, <1>7, <2>1, <2>2
<1>9. CASE Quiet(b)
  BY <1>8, <1>9 DEF Quiet
<1>10. CASE Broken(b)
  <2>1. Len(b) = 2 /\ j - Len(a) = 2
    BY <1>2, <1>7, <1>10 DEF Broken
  <2> QED
    BY <1>8, <1>10, <2>1 DEF Broken, Object
<1> QED
  BY <1>9, <1>10

\* Whole segments, the first p of them, begin the text.
LEMMA Rests ==
    ASSUME NEW s \in Shapes, NEW m \in 0..Len(s), NEW u \in Text
    PROVE  \A p \in 0..m : \E r \in Text : First(s, m) \o u = First(s, p) \o r
<1> DEFINE c == First(s, m) \o u
           Good == {j \in 0..m : \E r \in Text : c = First(s, m - j) \o r}
<1>1. /\ Len(s) \in Nat /\ m \in Nat
      /\ \A p \in 1..Len(s) : s[p] \in SegmentName /\ p \in 1..MaxSegments
  BY ShapeTyped
<1>2. /\ \A p \in 0..Len(s) : First(s, p) \in Text
      /\ \A p \in 1..Len(s) : First(s, p) = First(s, p - 1) \o Tokens(s[p], p)
  BY FirstSteps
<1> HIDE DEF c
<1>3. 0 \in Good
  <2>1. m - 0 = m /\ 0 \in 0..m
    BY <1>1
  <2> QED
    BY <2>1 DEF c
<1>4. ASSUME NEW j \in 1..m, j - 1 \in Good PROVE j \in Good
  <2> DEFINE p == m - (j - 1)
  <2>1. p \in 1..Len(s) /\ p - 1 = m - j /\ j \in 0..m /\ p - 1 \in 0..Len(s)
    BY <1>1
  <2>2. PICK r \in Text : c = First(s, p) \o r
    BY <1>4
  <2> HIDE DEF p
  <2> DEFINE a == First(s, p - 1)
             t == Tokens(s[p], p)
  <2>3. a \in Text /\ t \in Text /\ First(s, p) = a \o t
    BY <1>1, <1>2, <2>1, TokensTyped
  <2> HIDE DEF a, t
  <2>4. (a \o t) \o r = a \o (t \o r)
    <3>1. \A x, y, z \in Text : (x \o y) \o z = x \o (y \o z)
      BY TextJoins
    <3> QED
      BY <2>3, <3>1, Zenon
  <2>5. t \o r \in Text
    BY <2>3, TextJoins, Zenon
  <2>6. c = First(s, m - j) \o (t \o r)
    BY <2>1, <2>2, <2>3, <2>4 DEF a
  <2> QED
    BY <2>1, <2>5, <2>6
<1>5. \A j \in 0..m : j \in Good
  <2>1. Good \in SUBSET (0..m)
    OBVIOUS
  <2> HIDE DEF Good
  <2> QED
    BY <1>1, <1>3, <1>4, <2>1, CountUp
<1> SUFFICES ASSUME NEW p \in 0..m PROVE \E r \in Text : c = First(s, p) \o r
  BY DEF c
<1>6. m - p \in 0..m /\ m - (m - p) = p
  BY <1>1
<1>7. m - p \in Good
  BY <1>5, <1>6
<1> QED
  BY <1>6, <1>7

\* The loop comes to each of the whole segments: by then it has taken the
\* calls before it and left the others.
LEMMA Reached ==
    ASSUME NEW s \in Shapes, AllRegular(s), NEW m \in 0..Len(s), NEW u \in Text
    PROVE  LET c == First(s, m) \o u
           IN \A p \in 0..m : \E k \in 0..p : \E r \in Text :
                 /\ k <= Len(c) /\ c = First(s, p) \o r
                 /\ Turns(c)[k] = Found(CallsIn(First(s, p)), Plain(s, p) \o r)
<1> DEFINE c == First(s, m) \o u
           At(p, k, r) == /\ k <= Len(c) /\ c = First(s, p) \o r
                          /\ Turns(c)[k] = Found(CallsIn(First(s, p)), Plain(s, p) \o r)
           Good == {p \in 0..m : \E k \in 0..p : \E r \in Text : At(p, k, r)}
<1>1. /\ Len(s) \in Nat /\ m \in Nat
      /\ \A p \in 1..m : /\ s[p] \in {"word", "code", "call", "pair"} /\ s[p] \in SegmentName
                         /\ p \in 1..MaxSegments /\ p \in 1..Len(s) /\ p - 1 \in 0..Len(s)
                         /\ p \in 0..Len(s) /\ p \in 0..m /\ p - 1 \in 0..m
  BY ShapeTyped DEF AllRegular
<1>2. /\ First(s, 0) = <<>> /\ Plain(s, 0) = <<>>
      /\ \A p \in 0..Len(s) : First(s, p) \in Text /\ Plain(s, p) \in Text
      /\ \A p \in 1..Len(s) :
            /\ First(s, p) = First(s, p - 1) \o Tokens(s[p], p)
            /\ Plain(s, p) = Plain(s, p - 1)
                 \o (IF s[p] \in {"call", "pair"} THEN <<>> ELSE Tokens(s[p], p))
  BY FirstSteps, PlainSteps
<1>3. c \in Text /\ Len(c) \in Nat
  BY <1>2, TextJoins
<1>4. /\ Turns(c)[0] = Found(<<>>, c)
      /\ \A k \in 1..Len(c) : Turns(c)[k] = TakeBlock(Turns(c)[k - 1])
  BY <1>3, TurnsAre
<1>5. \A p \in 0..m : \E r \in Text : c = First(s, p) \o r
  BY Rests
<1>6. \A p \in 0..m : Quiet(Plain(s, p)) /\ Len(First(s, p)) >= p /\ Len(c) >= p
  <2> TAKE p \in 0..m
  <2>1. p \in 0..Len(s)
    BY <1>1
  <2>2. Quiet(Plain(s, p)) /\ Len(First(s, p)) >= p
    BY <2>1, PlainQuiet
  <2>3. PICK r \in Text : c = First(s, p) \o r
    BY <1>5
  <2>4. Len(c) = Len(First(s, p)) + Len(r) /\ Len(First(s, p)) \in Nat /\ Len(r) \in Nat
    BY <1>2, <2>1, <2>3, TextJoins
  <2> DEFINE x == Len(c)
             y == Len(First(s, p))
             z == Len(r)
  <2>5. x = y + z /\ y \in Nat /\ z \in Nat /\ y >= p /\ p \in Nat
    BY <1>1, <2>2, <2>4
  <2> HIDE DEF x, y, z
  <2>6. x >= p
    BY <2>5
  <2> QED
    BY <2>2, <2>6 DEF x
<1>7. \A x, y, z \in Text : (x \o y) \o z = x \o (y \o z)
  BY TextJoins
<1>8. \A x, y, z \in Text : x \o y = x \o z => y = z
  BY TextJoins
<1> HIDE DEF c
<1>9. 0 \in Good
  <2>1. 0 \in 0..m /\ 0 \in 0..0 /\ 0 <= Len(c)
    BY <1>1, <1>3
  <2>2. c = <<>> \o c
    BY <1>3, TextJoins
  <2>3. CallsIn(<<>>) = <<>>
    BY CallsInJoined
  <2>4. At(0, 0, c)
    BY <1>2, <1>4, <2>1, <2>2, <2>3
  <2> QED
    BY <1>3, <2>1, <2>4
<1>10. ASSUME NEW p \in 1..m, p - 1 \in Good PROVE p \in Good
  <2> DEFINE a == First(s, p - 1)
             b == Plain(s, p - 1)
             t == Tokens(s[p], p)
  <2>1. PICK k \in 0..(p - 1) : \E r \in Text : At(p - 1, k, r)
    BY <1>10
  <2>2. PICK r \in Text : At(p - 1, k, r)
    BY <2>1
  <2>3. PICK q \in Text : c = First(s, p) \o q
    BY <1>1, <1>5
  <2>4. /\ a \in Text /\ b \in Text /\ t \in Text /\ First(s, p) = a \o t /\ Quiet(b)
        /\ CallsIn(a) \in Seq(Call)
    BY <1>1, <1>2, <1>6, TokensTyped, CallsInJoined
  <2>5. c = a \o r /\ Turns(c)[k] = Found(CallsIn(a), b \o r)
    BY <2>2
  <2> HIDE DEF a, b, t
  <2>6. t \o q \in Text
    BY <2>4, TextJoins, Zenon
  <2>7. r = t \o q
    <3> a \in Text /\ t \in Text
      BY <2>4
    <3>1. (a \o t) \o q = a \o (t \o q)
      BY <1>7, Zenon
    <3>2. a \o r = (a \o t) \o q
      BY <2>3, <2>4, <2>5, Zenon
    <3>3. a \o r = a \o (t \o q)
      BY <3>1, <3>2, Zenon
    <3> QED
      BY <1>8, <2>4, <2>6, <3>3, Zenon
  <2>8. CallsIn(First(s, p)) = CallsIn(a) \o CallsIn(t)
    BY <2>4, CallsInJoined
  <2>9. CASE s[p] \in {"call", "pair"}
    <3>1. k + 1 \in 0..p /\ k + 1 \in 1..Len(c) /\ (k + 1) - 1 = k /\ k + 1 <= Len(c)
      BY <1>1, <1>3, <1>6
    <3>2. Turns(c)[k + 1] = TakeBlock(Found(CallsIn(a), b \o (t \o q)))
      BY <1>4, <2>5, <2>7, <3>1
    <3>3. TakeBlock(Found(CallsIn(a), b \o (t \o q)))
            = Found(CallsIn(a) \o CallsOf(Token(s[p], p)), b \o q)
      BY <1>1, <2>4, <2>9, BlockTaken DEF t
    <3>4. CallsIn(t) = CallsOf(Token(s[p], p))
      BY <1>1, <2>9, RegularTokens DEF t
    <3>5. Plain(s, p) = b
      <4>1. Plain(s, p) = b \o <<>>
        BY <1>1, <1>2, <2>9 DEF b
      <4> QED
        BY <2>4, <4>1, TextJoins
    <3>6. At(p, k + 1, q)
      BY <2>3, <2>8, <3>1, <3>2, <3>3, <3>4, <3>5
    <3> QED
      BY <1>1, <3>1, <3>6
  <2>10. CASE s[p] \in {"word", "code"}
    <3>1. CallsIn(t) = <<>>
      BY <1>1, <2>10, RegularTokens DEF t
    <3>2. CallsIn(First(s, p)) = CallsIn(a)
      BY <2>4, <2>8, <3>1, ConcatEmptySeq
    <3>3. Plain(s, p) = b \o t
      BY <1>1, <1>2, <2>10 DEF b, t
    <3>4. b \o (t \o q) = (b \o t) \o q
      BY <1>7, <2>4, Zenon
    <3>5. At(p, k, q)
      BY <2>2, <2>3, <2>5, <2>7, <3>2, <3>3, <3>4
    <3>6. k \in 0..p
      BY <1>1
    <3> QED
      BY <1>1, <3>5, <3>6
  <2> QED
    BY <1>1, <2>9, <2>10
<1>11. \A p \in 0..m : p \in Good
  <2>1. Good \in SUBSET (0..m)
    OBVIOUS
  <2> HIDE DEF Good
  <2> QED
    BY <1>1, <1>9, <1>10, <2>1, CountUp
<1>12. \A p \in 0..m : \E k \in 0..p : \E r \in Text : At(p, k, r)
  BY <1>11
<1> QED
  BY <1>12 DEF c

\* All calls of whole segments are taken, in order, and the rest is kept.
LEMMA FencedIs ==
    ASSUME NEW s \in Shapes, AllRegular(s), NEW m \in 0..Len(s),
           NEW u \in Text, Quiet(u) \/ Broken(u)
    PROVE  Fenced(First(s, m) \o u) = Found(CallsIn(First(s, m)), Plain(s, m) \o u)
<1> DEFINE c == First(s, m) \o u
           n == Len(c)
           after == Turns(c)
           f == Found(CallsIn(First(s, m)), Plain(s, m) \o u)
<1>1. Len(s) \in Nat /\ m \in 0..m /\ m \in Nat
  BY ShapeTyped
<1>2. First(s, m) \in Text /\ Plain(s, m) \in Text /\ Quiet(Plain(s, m))
  BY FirstSteps, PlainSteps, PlainQuiet
<1>3. PICK k \in 0..m : \E r \in Text :
          k <= n /\ c = First(s, m) \o r /\ after[k] = Found(CallsIn(First(s, m)), Plain(s, m) \o r)
  BY <1>1, Reached
<1>4. PICK r \in Text :
          k <= n /\ c = First(s, m) \o r /\ after[k] = Found(CallsIn(First(s, m)), Plain(s, m) \o r)
  BY <1>3
<1>5. r = u
  <2>1. \A x, y, z \in Text : x \o y = x \o z => y = z
    BY TextJoins
  <2>2. First(s, m) \o r = First(s, m) \o u
    BY <1>4
  <2> QED
    BY <1>2, <2>1, <2>2, Zenon
<1>6. after[k] = f /\ k <= n
  BY <1>4, <1>5
<1>7. c \in Text /\ n \in Nat
  BY <1>2, TextJoins
<1>8. \A j \in 1..n : after[j] = TakeBlock(after[j - 1])
  BY <1>7, TurnsAre
<1>9. Fenced(c) = after[n]
  BY DEF Fenced
<1>10. TakeBlock(f) = f
  <2>1. FirstBlock(Plain(s, m) \o u).calls = <<>>
    BY <1>2, NoBlock
  <2>2. f.rest = Plain(s, m) \o u
    BY DEF Found
  <2> HIDE DEF f
  <2> QED
    BY <2>1, <2>2 DEF TakeBlock
<1> HIDE DEF c, n, after, f
<1> DEFINE Good == {j \in 0..n : j >= k => after[j] = f}
<1>11. 0 \in Good
  BY <1>6, <1>7
<1>12. ASSUME NEW j \in 1..n, j - 1 \in Good PROVE j \in Good
  <2>1. j \in 0..n /\ (j >= k => j = k \/ j - 1 >= k)
    BY <1>1, <1>7
  <2> QED
    BY <1>6, <1>8, <1>10, <1>12, <2>1
<1>13. \A j \in 0..n : j \in Good
  <2>1. Good \in SUBSET (0..n)
    OBVIOUS
  <2> HIDE DEF Good
  <2> QED
    BY <1>7, <1>11, <1>12, <2>1, CountUp
<1>14. after[n] = f
  <2>1. n \in 0..n /\ n >= k
    BY <1>1, <1>6, <1>7
  <2> QED
    BY <1>13, <2>1
<1> QED
  BY <1>9, <1>14 DEF c, f

----------------------------------------------------------------------------
(* The cuts of such a reply. *)

\* What a sequence begins with, element by element.
Starts(a, b) == Len(a) <= Len(b) /\ \A i \in 1..Len(a) : a[i] = b[i]

LEMMA StartsPrefix ==
    ASSUME NEW S, NEW a \in Seq(S), NEW b \in Seq(S), Starts(a, b)
    PROVE  IsPrefix(a, b)
<1> DEFINE p == SubSeq(a, 1, Len(a))
           q == SubSeq(b, 1, Len(a))
<1>1. Len(a) \in Nat /\ Len(b) \in Nat /\ Len(a) <= Len(b) /\ \A i \in 1..Len(a) : a[i] = b[i]
  BY DEF Starts
<1>2. p \in Seq(S) /\ Len(p) = Len(a) /\ \A i \in 1..Len(a) : p[i] = a[i]
  BY <1>1
<1>3. q \in Seq(S) /\ Len(q) = Len(a) /\ \A i \in 1..Len(a) : q[i] = b[i]
  BY <1>1
<1> HIDE DEF p, q
<1>4. Len(p) = Len(q) /\ \A i \in 1..Len(p) : p[i] = q[i]
  BY <1>1, <1>2, <1>3
<1>5. p = q
  <2>1. \A x, y \in Seq(S) : Len(x) = Len(y) /\ (\A i \in 1..Len(x) : x[i] = y[i]) => x = y
    BY SeqEqual
  <2> QED
    BY <1>2, <1>3, <1>4, <2>1, Zenon
<1> QED
  BY <1>1, <1>5 DEF IsPrefix, p, q

LEMMA StartsJoined ==
    ASSUME NEW S, NEW a \in Seq(S), NEW b \in Seq(S), NEW c \in Seq(S)
    PROVE  Starts(a, a \o c) /\ (Starts(a, b) => Starts(a, b \o c)) /\ Starts(<<>>, b)
<1>1. /\ Len(a) \in Nat /\ Len(b) \in Nat /\ Len(c) \in Nat
      /\ Len(a \o c) = Len(a) + Len(c) /\ Len(b \o c) = Len(b) + Len(c)
  OBVIOUS
<1>2. \A i \in 1..Len(a) : (a \o c)[i] = a[i]
  OBVIOUS
<1>3. \A i \in 1..Len(b) : (b \o c)[i] = b[i]
  OBVIOUS
<1>4. Starts(a, a \o c)
  BY <1>1, <1>2 DEF Starts
<1>5. ASSUME Starts(a, b) PROVE Starts(a, b \o c)
  <2>1. \A i \in 1..Len(a) : i \in 1..Len(b)
    BY <1>1, <1>5 DEF Starts
  <2>2. Len(a) <= Len(b \o c)
    BY <1>1, <1>5 DEF Starts
  <2> QED
    BY <1>3, <1>5, <2>1, <2>2 DEF Starts
<1>6. Starts(<<>>, b)
  <2>1. Len(<<>>) = 0
    OBVIOUS
  <2> QED
    BY <1>1, <2>1 DEF Starts
<1> QED
  BY <1>4, <1>5, <1>6

\* The segment that a position is in.
LEMMA Within ==
    ASSUME NEW s \in Shapes, NEW k \in Nat, k < Len(TextOf(s))
    PROVE  \E m \in 1..Len(s) : /\ Len(First(s, m - 1)) <= k
                                /\ k < Len(First(s, m - 1)) + Len(Tokens(s[m], m))
<1> DEFINE N == Len(s)
<1>1. N \in Nat /\ \A m \in 1..N : s[m] \in SegmentName /\ m \in 1..MaxSegments
  BY ShapeTyped
<1>2. /\ First(s, 0) = <<>> /\ First(s, N) = TextOf(s)
      /\ \A m \in 0..N : First(s, m) \in Text
      /\ \A m \in 1..N : First(s, m) = First(s, m - 1) \o Tokens(s[m], m)
  BY FirstSteps
<1> HIDE DEF N
<1>3. SUFFICES ASSUME \A m \in 1..N : ~(/\ Len(First(s, m - 1)) <= k
                                         /\ k < Len(First(s, m - 1)) + Len(Tokens(s[m], m)))
               PROVE  FALSE
  BY DEF N
<1> DEFINE Good == {m \in 0..N : Len(First(s, m)) <= k}
<1>4. 0 \in Good
  <2>1. Len(<<>>) = 0 /\ 0 \in 0..N
    BY <1>1
  <2> QED
    BY <1>2, <2>1
<1>5. ASSUME NEW m \in 1..N, m - 1 \in Good PROVE m \in Good
  <2> DEFINE a == First(s, m - 1)
             t == Tokens(s[m], m)
  <2>1. m - 1 \in 0..N /\ m \in 0..N
    BY <1>1
  <2>2. a \in Text /\ t \in Text /\ First(s, m) = a \o t /\ Len(a) <= k
    BY <1>1, <1>2, <1>5, <2>1, TokensTyped
  <2>3. ~(k < Len(a) + Len(t))
    BY <1>3, <2>2
  <2> HIDE DEF a, t
  <2>4. Len(a \o t) = Len(a) + Len(t) /\ Len(a) \in Nat /\ Len(t) \in Nat
    BY <2>2, TextJoins
  <2>5. Len(First(s, m)) <= k
    BY <2>2, <2>3, <2>4
  <2> QED
    BY <2>1, <2>5
<1>6. \A m \in 0..N : m \in Good
  <2>1. Good \in SUBSET (0..N)
    OBVIOUS
  <2> HIDE DEF Good
  <2> QED
    BY <1>1, <1>4, <1>5, <2>1, CountUp
<1>7. Len(TextOf(s)) <= k /\ Len(TextOf(s)) \in Nat
  <2>1. N \in 0..N
    BY <1>1
  <2>2. TextOf(s) \in Text
    BY <1>2, <2>1
  <2> QED
    BY <1>2, <1>6, <2>1, <2>2, TextJoins
<1> QED
  BY <1>7

LEMMA CutWithin ==
    ASSUME NEW a \in Text, NEW t \in Text, NEW r \in Text, NEW j \in 0..(Len(t) - 1)
    PROVE  /\ SubSeq(a \o (t \o r), 1, Len(a) + j) = a \o SubSeq(t, 1, j)
           /\ SubSeq(t, 1, j) \in Text /\ Len(SubSeq(t, 1, j)) = j
           /\ \A i \in 1..j : SubSeq(t, 1, j)[i] = t[i]
           /\ (a \o (t \o r))[(Len(a) + j) + 1] = t[j + 1]
<1> DEFINE b == t \o r
           w == a \o b
           u == SubSeq(t, 1, j)
           p == SubSeq(w, 1, Len(a) + j)
           q == a \o u
<1>1. /\ Len(a) \in Nat /\ Len(t) \in Nat /\ Len(r) \in Nat /\ j \in Nat
      /\ b \in Text /\ Len(b) = Len(t) + Len(r)
      /\ \A i \in 1..Len(t) : b[i] = t[i]
  BY TextJoins, TextParts
<1>2. u \in Text /\ Len(u) = j /\ \A i \in 1..j : u[i] = t[i]
  BY <1>1 DEF Text
<1> HIDE DEF b, u
<1>3. /\ w \in Text /\ Len(w) = Len(a) + Len(b)
      /\ \A i \in 1..Len(a) : w[i] = a[i]
      /\ \A i \in 1..Len(b) : w[Len(a) + i] = b[i]
  BY <1>1, TextJoins, TextParts
<1>4. /\ q \in Text /\ Len(q) = Len(a) + j
      /\ \A i \in 1..Len(a) : q[i] = a[i]
      /\ \A i \in 1..j : q[Len(a) + i] = u[i]
  BY <1>2, TextJoins, TextParts
<1> HIDE DEF w, q
<1>5. p \in Text /\ Len(p) = Len(a) + j /\ \A i \in 1..(Len(a) + j) : p[i] = w[i]
  <2>1. Len(a) + j \in 0..Len(w)
    BY <1>1, <1>3
  <2> QED
    BY <1>1, <1>3, <2>1 DEF Text
<1> HIDE DEF p
<1>6. \A i \in 1..Len(p) : p[i] = q[i]
  <2> TAKE i \in 1..Len(p)
  <2>1. p[i] = w[i]
    BY <1>5
  <2>2. CASE i \in 1..Len(a)
    BY <1>3, <1>4, <2>1, <2>2
  <2>3. CASE i \notin 1..Len(a)
    <3> DEFINE l == i - Len(a)
    <3>1. l \in 1..j /\ l \in 1..Len(t) /\ l \in 1..Len(b) /\ i = Len(a) + l
      BY <1>1, <1>5, <2>3
    <3> HIDE DEF l
    <3> QED
      BY <1>1, <1>2, <1>3, <1>4, <2>1, <3>1
  <2> QED
    BY <2>2, <2>3
<1>7. p = q
  <2>1. \A x, y \in Text : Len(x) = Len(y) /\ (\A i \in 1..Len(x) : x[i] = y[i]) => x = y
    BY SeqEqual DEF Text
  <2>2. Len(p) = Len(q)
    BY <1>4, <1>5
  <2> QED
    BY <1>4, <1>5, <1>6, <2>1, <2>2, Zenon
<1>8. w[(Len(a) + j) + 1] = t[j + 1]
  <2>1. j + 1 \in 1..Len(t) /\ j + 1 \in 1..Len(b) /\ (Len(a) + j) + 1 = Len(a) + (j + 1)
    BY <1>1
  <2> QED
    BY <1>1, <1>3, <2>1
<1> QED
  BY <1>2, <1>7, <1>8 DEF b, w, u, p, q

LEMMA CutsWithin ==
    \A a, t, r \in Text : \A j \in 0..(Len(t) - 1) :
        /\ SubSeq(a \o (t \o r), 1, Len(a) + j) = a \o SubSeq(t, 1, j)
        /\ (a \o (t \o r))[(Len(a) + j) + 1] = t[j + 1]
  BY CutWithin

LEMMA RestOf ==
    ASSUME NEW s \in Shapes, NEW m \in 0..Len(s)
    PROVE  \E r \in Text : TextOf(s) = First(s, m) \o r
<1>1. Len(s) \in 0..Len(s) /\ <<>> \in Text
  BY ShapeTyped, TextJoins
<1>2. First(s, Len(s)) = TextOf(s) /\ TextOf(s) \in Text
  BY FirstSteps, ProperText
<1>3. TextOf(s) \o <<>> = TextOf(s)
  BY <1>2, TextJoins
<1>4. \E r \in Text : First(s, Len(s)) \o <<>> = First(s, m) \o r
  BY <1>1, Rests
<1> QED
  BY <1>2, <1>3, <1>4

\* What stands behind the segments that are whole: the calls of an object that
\* was fetched begin those of the object that was meant.
Ending(s, m, u) ==
    \/ Quiet(u)
    \/ /\ Broken(u) /\ m + 1 \in 1..Len(s) /\ s[m + 1] \in {"call", "pair"}
       /\ Len(u) = 2 => Starts(CallsOf(u[2]), CallsOf(Token(s[m + 1], m + 1)))

LEMMA CutPrefix ==
    ASSUME NEW s \in Shapes, AllRegular(s), NEW m \in 1..Len(s),
           NEW j \in 0..(Len(Tokens(s[m], m)) - 1)
    PROVE  Ending(s, m - 1, SubSeq(Tokens(s[m], m), 1, j))
<1> DEFINE t == Tokens(s[m], m)
           u == SubSeq(t, 1, j)
<1>1. /\ m \in 1..MaxSegments /\ s[m] \in SegmentName /\ s[m] \in {"word", "code", "call", "pair"}
      /\ m \in Nat /\ (m - 1) + 1 = m
  BY ShapeTyped DEF AllRegular
<1>2. t \in Text /\ Len(t) \in 1..5
  BY <1>1, TokensTyped
<1>3. u \in Text /\ Len(u) = j /\ \A i \in 1..j : u[i] = t[i]
  BY <1>2, CutWithin
<1>4. DOMAIN u = 1..j /\ DOMAIN t = 1..Len(t) /\ j \in Nat /\ j < Len(t)
  BY <1>2, <1>3 DEF Text
<1>5. CASE s[m] \in {"word", "code"}
  <2>1. Quiet(t)
    BY <1>1, <1>5, RegularTokens
  <2> HIDE DEF t, u
  <2>2. \A i \in 1..j : i \in 1..Len(t)
    BY <1>2, <1>4
  <2>3. Quiet(u)
    BY <1>3, <1>4, <2>1, <2>2 DEF Quiet
  <2> QED
    BY <2>3 DEF Ending, t, u
<1>6. CASE s[m] \in {"call", "pair"}
  <2> DEFINE o == Token(s[m], m)
  <2>1. t = <<Token("open", m), o, Token("ticks", m)>> /\ o \in Piece
    BY <1>1, <1>6, RegularTokens
  <2>2. Len(t) = 3 /\ t[1].kind = "open" /\ t[2] = o /\ o.kind \in Object
    BY <1>6, <2>1 DEF Token, Object
  <2>3. CallsOf(o) \in Seq(Call)
    BY <2>1, CallsOfTyped
  <2> HIDE DEF t, u, o
  <2>4. CASE j = 0
    <3>1. Quiet(u)
      BY <1>4, <2>4 DEF Quiet
    <3> QED
      BY <3>1 DEF Ending, t, u
  <2>5. CASE j = 1
    <3>1. Broken(u) /\ Len(u) # 2
      BY <1>3, <2>2, <2>5 DEF Broken
    <3> QED
      BY <1>1, <1>6, <3>1 DEF Ending, t, u
  <2>6. CASE j = 2
    <3>1. Broken(u) /\ u[2] = o
      BY <1>3, <2>2, <2>6 DEF Broken
    <3>2. Starts(CallsOf(o), CallsOf(o))
      BY <2>3 DEF Starts
    <3> QED
      BY <1>1, <1>6, <3>1, <3>2 DEF Ending, t, u, o
  <2>7. j \in {0, 1, 2}
    BY <1>4, <2>2
  <2> QED
    BY <2>4, <2>5, <2>6, <2>7
<1> QED
  BY <1>1, <1>5, <1>6

\* A pair that was cut off after its first call.
LEMMA CutHalf ==
    ASSUME NEW s \in Shapes, AllRegular(s), NEW m \in 1..Len(s),
           NEW j \in 0..(Len(Tokens(s[m], m)) - 1), Tokens(s[m], m)[j + 1].kind = "pair"
    PROVE  LET u == Append(SubSeq(Tokens(s[m], m), 1, j), Token("half", m))
           IN u \in Text /\ Ending(s, m - 1, u)
<1> DEFINE t == Tokens(s[m], m)
           h == Token("half", m)
           v == SubSeq(t, 1, j)
           u == Append(v, h)
<1>1. /\ m \in 1..MaxSegments /\ s[m] \in SegmentName /\ s[m] \in {"word", "code", "call", "pair"}
      /\ m \in Nat /\ (m - 1) + 1 = m
  BY ShapeTyped DEF AllRegular
<1>2. t \in Text /\ Len(t) \in 1..5
  BY <1>1, TokensTyped
<1>3. v \in Text /\ Len(v) = j /\ \A i \in 1..j : v[i] = t[i]
  BY <1>2, CutWithin
<1>4. DOMAIN t = 1..Len(t) /\ j + 1 \in 1..Len(t) /\ j \in Nat
  BY <1>2 DEF Text
<1>5. s[m] \in {"call", "pair"}
  <2> SUFFICES ASSUME s[m] \in {"word", "code"} PROVE FALSE
    BY <1>1
  <2>1. Quiet(t)
    BY <1>1, RegularTokens
  <2> QED
    BY <1>4, <2>1 DEF Quiet
<1>6. /\ t = <<Token("open", m), Token(s[m], m), Token("ticks", m)>>
      /\ Token(s[m], m) \in Piece
  BY <1>1, <1>5, RegularTokens
<1>7. /\ Len(t) = 3 /\ t[1].kind = "open" /\ t[2] = Token(s[m], m) /\ t[3].kind = "ticks"
  BY <1>6 DEF Token
<1>8. j = 1
  <2>1. j \in {0, 1, 2}
    BY <1>4, <1>7
  <2>2. j # 0 /\ j # 2
    BY <1>7
  <2> QED
    BY <2>1, <2>2
<1>9. Token(s[m], m).kind = "pair"
  BY <1>7, <1>8
<1>10. h \in Piece /\ h.kind = "half" /\ h.n = m
  BY <1>1, PieceToken DEF Kind, Token
<1>11. CallsOf(h) = << <<m, 1>> >> /\ CallsOf(Token(s[m], m)) = << <<m, 1>>, <<m, 2>> >>
  BY <1>9, <1>10 DEF CallsOf, Token
<1>12. Starts(CallsOf(h), CallsOf(Token(s[m], m)))
  <2> DEFINE x == <<m, 1>>
             y == <<m, 2>>
  <2>1. Len(<<x>>) = 1 /\ Len(<<x, y>>) = 2 /\ <<x>>[1] = x /\ <<x, y>>[1] = x
    OBVIOUS
  <2>2. CallsOf(h) = <<x>> /\ CallsOf(Token(s[m], m)) = <<x, y>>
    BY <1>11
  <2> HIDE DEF x, y
  <2>3. Starts(<<x>>, <<x, y>>)
    BY <2>1 DEF Starts
  <2> QED
    BY <2>2, <2>3
<1> HIDE DEF t, v, h
<1>13. u \in Text /\ Len(u) = 2 /\ u[1] = t[1] /\ u[2] = h
  <2>1. v \in Seq(Piece) /\ Len(v) = 1 /\ v[1] = t[1] /\ h \in Piece
    BY <1>3, <1>8, <1>10 DEF Text
  <2>2. \A x \in Seq(Piece) : \A y \in Piece :
           /\ Append(x, y) \in Seq(Piece) /\ Len(Append(x, y)) = Len(x) + 1
           /\ \A i \in 1..Len(x) : Append(x, y)[i] = x[i]
           /\ Append(x, y)[Len(x) + 1] = y
    BY AppendProperties
  <2>3. /\ u \in Seq(Piece) /\ Len(u) = Len(v) + 1
        /\ \A i \in 1..Len(v) : u[i] = v[i]
        /\ u[Len(v) + 1] = h
    BY <2>1, <2>2, Zenon
  <2> HIDE DEF u
  <2> QED
    BY <2>1, <2>3 DEF Text
<1> HIDE DEF u
<1>14. Broken(u)
  BY <1>7, <1>10, <1>13 DEF Broken, Object
<1>15. u \in Text /\ Ending(s, m - 1, u)
  BY <1>1, <1>5, <1>12, <1>13, <1>14 DEF Ending
<1> QED
  BY <1>15 DEF u, v, t, h

\* What is fetched early are whole segments and such an ending.
LEMMA CutParts ==
    ASSUME NEW s \in Shapes, AllRegular(s), NEW c \in Cuts(TextOf(s))
    PROVE  \E m \in 0..Len(s) : \E u \in Text : c = First(s, m) \o u /\ Ending(s, m, u)
<1> DEFINE T == TextOf(s)
           N == Len(s)
           Split(x, m, u) == x = First(s, m) \o u /\ Ending(s, m, u)
<1>1. /\ N \in Nat
      /\ \A m \in 1..N : /\ s[m] \in SegmentName /\ m \in 1..MaxSegments
                         /\ m - 1 \in 0..N /\ m \in 0..N
  BY ShapeTyped
<1>2. /\ First(s, N) = T /\ N \in 0..N
      /\ \A m \in 0..N : First(s, m) \in Text
      /\ \A m \in 1..N : First(s, m) = First(s, m - 1) \o Tokens(s[m], m)
  BY <1>1, FirstSteps
<1>3. T \in Text /\ Len(T) \in Nat
  BY ProperText, TextJoins
<1>4. \A x, y, z \in Text : (x \o y) \o z = x \o (y \o z)
  BY TextJoins
<1> HIDE DEF T, N
\* Where the text is cut at position k.
<1>5. ASSUME NEW k \in Nat, k < Len(T)
      PROVE  \E m \in 1..N : \E j \in 0..(Len(Tokens(s[m], m)) - 1) :
                /\ SubSeq(T, 1, k) = First(s, m - 1) \o SubSeq(Tokens(s[m], m), 1, j)
                /\ T[k + 1] = Tokens(s[m], m)[j + 1]
  <2>1. PICK m \in 1..N : /\ Len(First(s, m - 1)) <= k
                          /\ k < Len(First(s, m - 1)) + Len(Tokens(s[m], m))
    BY <1>5, Within DEF T, N
  <2> DEFINE a == First(s, m - 1)
             t == Tokens(s[m], m)
             j == k - Len(a)
  <2>2. a \in Text /\ t \in Text /\ First(s, m) = a \o t
    BY <1>1, <1>2, TokensTyped
  <2>3. PICK r \in Text : T = First(s, m) \o r
    BY <1>1, RestOf DEF T, N
  <2> HIDE DEF a, t
  <2>4. (a \o t) \o r = a \o (t \o r)
    BY <1>4, <2>2, Zenon
  <2>5. T = a \o (t \o r)
    BY <2>2, <2>3, <2>4
  <2>6. Len(a) \in Nat /\ Len(t) \in Nat
    BY <2>2, TextJoins
  <2>7. Len(a) <= k /\ k < Len(a) + Len(t)
    BY <2>1 DEF a, t
  <2>8. j \in 0..(Len(t) - 1) /\ Len(a) + j = k
    BY <2>6, <2>7
  <2> HIDE DEF j
  <2>9. /\ SubSeq(a \o (t \o r), 1, Len(a) + j) = a \o SubSeq(t, 1, j)
        /\ (a \o (t \o r))[(Len(a) + j) + 1] = t[j + 1]
    BY <2>2, <2>8, CutsWithin, Zenon
  <2>10. SubSeq(T, 1, k) = a \o SubSeq(t, 1, j) /\ T[k + 1] = t[j + 1]
    BY <2>5, <2>8, <2>9
  <2> QED
    BY <2>8, <2>10 DEF a, t
<1>6. ASSUME NEW k \in 0..Len(T), c = SubSeq(T, 1, k)
      PROVE  \E m \in 0..N : \E u \in Text : Split(c, m, u)
  <2>1. CASE k = Len(T)
    <3>1. c = T
      BY <1>3, <1>6, <2>1, SubSeqFull DEF Text
    <3>2. T \o <<>> = T /\ <<>> \in Text /\ Quiet(<<>>)
      BY <1>3, TextJoins DEF Quiet
    <3> QED
      BY <1>2, <3>1, <3>2 DEF Ending
  <2>2. CASE k # Len(T)
    <3>1. k \in Nat /\ k < Len(T)
      BY <1>3, <2>2
    <3>2. PICK m \in 1..N : \E j \in 0..(Len(Tokens(s[m], m)) - 1) :
                SubSeq(T, 1, k) = First(s, m - 1) \o SubSeq(Tokens(s[m], m), 1, j)
      BY <1>5, <3>1
    <3>3. PICK j \in 0..(Len(Tokens(s[m], m)) - 1) :
                SubSeq(T, 1, k) = First(s, m - 1) \o SubSeq(Tokens(s[m], m), 1, j)
      BY <3>2
    <3> DEFINE u == SubSeq(Tokens(s[m], m), 1, j)
    <3>4. Ending(s, m - 1, u)
      BY CutPrefix DEF N
    <3>5. u \in Text
      <4>1. Tokens(s[m], m) \in Text
        BY <1>1, TokensTyped
      <4> QED
        BY <4>1, CutWithin
    <3> HIDE DEF u
    <3>6. Split(c, m - 1, u)
      BY <1>6, <3>3, <3>4 DEF u
    <3> QED
      BY <1>1, <3>5, <3>6
  <2> QED
    BY <2>1, <2>2
<1>7. ASSUME NEW k \in 1..Len(T), T[k].kind = "pair",
             c = Append(SubSeq(T, 1, k - 1), Token("half", T[k].n))
      PROVE  \E m \in 0..N : \E u \in Text : Split(c, m, u)
  <2>1. k - 1 \in Nat /\ k - 1 < Len(T) /\ (k - 1) + 1 = k
    BY <1>3
  <2>2. PICK m \in 1..N : \E j \in 0..(Len(Tokens(s[m], m)) - 1) :
                /\ SubSeq(T, 1, k - 1) = First(s, m - 1) \o SubSeq(Tokens(s[m], m), 1, j)
                /\ T[k] = Tokens(s[m], m)[j + 1]
    BY <1>5, <2>1
  <2>3. PICK j \in 0..(Len(Tokens(s[m], m)) - 1) :
                /\ SubSeq(T, 1, k - 1) = First(s, m - 1) \o SubSeq(Tokens(s[m], m), 1, j)
                /\ T[k] = Tokens(s[m], m)[j + 1]
    BY <2>2
  <2> DEFINE a == First(s, m - 1)
             v == SubSeq(Tokens(s[m], m), 1, j)
             h == Token("half", m)
             u == Append(v, h)
  <2>4. u \in Text /\ Ending(s, m - 1, u)
    BY <1>7, <2>3, CutHalf DEF N
  <2>5. T[k].n = m
    <3>1. /\ Len(Tokens(s[m], m)) \in 1..5
          /\ \A i \in 1..Len(Tokens(s[m], m)) : Tokens(s[m], m)[i].n = m
      BY <1>1, TokensTyped
    <3>2. j + 1 \in 1..Len(Tokens(s[m], m))
      BY <3>1
    <3> QED
      BY <2>3, <3>1, <3>2
  <2>6. v \in Text /\ h \in Piece /\ a \in Text
    <3>1. Tokens(s[m], m) \in Text
      BY <1>1, TokensTyped
    <3>2. v \in Text
      BY <3>1, CutWithin
    <3> QED
      BY <1>1, <1>2, <3>2, PieceToken DEF Kind
  <2>7. c = Append(a \o v, h)
    BY <1>7, <2>3, <2>5
  <2> HIDE DEF a, v, h
  <2>8. Append(a \o v, h) = a \o Append(v, h)
    <3>1. \A x \in Text : \A e \in Piece : Append(x, e) = x \o <<e>> /\ <<e>> \in Text
      BY AppendIsConcat DEF Text
    <3>2. a \o v \in Text
      BY <2>6, TextJoins
    <3>3. <<h>> \in Text /\ Append(v, h) = v \o <<h>> /\ Append(a \o v, h) = (a \o v) \o <<h>>
      BY <2>6, <3>1, <3>2, Zenon
    <3>4. (a \o v) \o <<h>> = a \o (v \o <<h>>)
      BY <1>4, <2>6, <3>3, Zenon
    <3> QED
      BY <3>3, <3>4
  <2>9. Split(c, m - 1, u)
    BY <2>4, <2>7, <2>8 DEF a
  <2> QED
    BY <1>1, <2>4, <2>9
<1>8. DOMAIN T = 1..Len(T)
  BY <1>3 DEF Text
<1>9. \/ \E k \in 0..Len(T) : c = SubSeq(T, 1, k)
      \/ \E k \in 1..Len(T) : T[k].kind = "pair" /\ c = Append(SubSeq(T, 1, k - 1), Token("half", T[k].n))
  BY <1>8 DEF Cuts, T
<1>10. \E m \in 0..N : \E u \in Text : Split(c, m, u)
  BY <1>6, <1>7, <1>9
<1> QED
  BY <1>10 DEF N

\* Outside the blocks only the object of a broken one is found.
LEMMA BareCalls ==
    ASSUME NEW a \in Text, Quiet(a), NEW u \in Text, Quiet(u) \/ Broken(u),
           Proper(a \o u), NEW kinds \in SUBSET Object
    PROVE  \/ Bare(a \o u, kinds).calls = <<>>
           \/ Broken(u) /\ Len(u) = 2 /\ Bare(a \o u, kinds).calls = CallsOf(u[2])
<1> DEFINE w == a \o u
<1>1. /\ w \in Text /\ Len(w) = Len(a) + Len(u) /\ Len(a) \in Nat /\ Len(u) \in Nat
      /\ \A k \in 1..Len(a) : w[k] = a[k] /\ k \in DOMAIN a
      /\ \A k \in 1..Len(u) : w[Len(a) + k] = u[k] /\ k \in DOMAIN u
  <2>1. DOMAIN a = 1..Len(a) /\ DOMAIN u = 1..Len(u)
    BY DEF Text
  <2> QED
    BY <2>1, TextParts, TextJoins
<1>2. Proper(w)
  OBVIOUS
<1> HIDE DEF w
<1>3. CASE Bare(w, kinds) = Found(<<>>, w)
  BY <1>3 DEF Found, w
<1>4. CASE Bare(w, kinds) # Found(<<>>, w)
  <2>1. PICK i \in 1..Len(w) : /\ w[i].kind \in kinds
                                /\ Bare(w, kinds).calls = CallsOf(w[i])
    <3>1. PICK i \in 1..Len(w) : \E j \in i..Len(w) :
                 \E left \in {<<>>} \cup {<<Token("stub", n)>> : n \in 1..MaxSegments} :
                    /\ w[i].kind \in kinds
                    /\ Bare(w, kinds) = Found(CallsOf(w[i]), Splice(w, i, j, left))
      BY <1>1, <1>2, <1>4, BareIs
    <3> QED
      BY <3>1 DEF Found
  <2>2. i \notin 1..Len(a)
    <3> SUFFICES ASSUME i \in 1..Len(a) PROVE FALSE
      OBVIOUS
    <3>1. w[i].kind \in {"word", "ticks"}
      BY <1>1 DEF Quiet
    <3> QED
      BY <2>1, <3>1 DEF Object
  <2> DEFINE k == i - Len(a)
  <2>3. k \in 1..Len(u) /\ Len(a) + k = i
    BY <1>1, <2>2
  <2> HIDE DEF k
  <2>4. w[i] = u[k] /\ k \in DOMAIN u
    BY <1>1, <2>3
  <2>5. ~Quiet(u)
    BY <2>1, <2>4 DEF Quiet, Object
  <2>6. Broken(u)
    BY <2>5
  <2>7. k # 1
    BY <2>1, <2>4, <2>6 DEF Broken, Object
  <2>8. k = 2 /\ Len(u) = 2
    <3>1. Len(u) \in {1, 2}
      BY <2>6 DEF Broken
    <3>2. \A x \in {1, 2} : \A y \in 1..x : y # 1 => y = 2 /\ x = 2
      OBVIOUS
    <3> QED
      BY <2>3, <2>7, <3>1, <3>2, Zenon
  <2>9. w[i] = u[2]
    BY <2>4, <2>8
  <2>10. Bare(w, kinds).calls = CallsOf(u[2])
    BY <2>1, <2>9
  <2> QED
    BY <2>6, <2>8, <2>10 DEF w
<1> QED
  BY <1>3, <1>4

\* The calls of what is fetched early begin those of the whole reply.
LEMMA EarlyCalls ==
    ASSUME NEW s \in Shapes, AllRegular(s), NEW c \in Cuts(TextOf(s))
    PROVE  Starts(ExtractToolCalls(c).calls, CallsIn(TextOf(s)))
<1> DEFINE D == CallsIn(TextOf(s))
<1>1. PICK m \in 0..Len(s) : \E u \in Text : c = First(s, m) \o u /\ Ending(s, m, u)
  BY CutParts
<1>2. PICK u \in Text : c = First(s, m) \o u /\ Ending(s, m, u)
  BY <1>1
<1>3. Quiet(u) \/ Broken(u)
  BY <1>2 DEF Ending
<1>4. Fenced(c) = Found(CallsIn(First(s, m)), Plain(s, m) \o u)
  BY <1>2, <1>3, FencedIs
<1>5. /\ First(s, m) \in Text /\ Plain(s, m) \in Text /\ Quiet(Plain(s, m))
      /\ First(s, m) = Plain(s, m) \/ CallsIn(First(s, m)) # <<>>
  BY FirstSteps, PlainSteps, PlainQuiet
<1>6. PICK r \in Text : TextOf(s) = First(s, m) \o r
  BY RestOf
<1>7. CallsIn(First(s, m)) \in Seq(Call) /\ CallsIn(r) \in Seq(Call)
  BY <1>5, CallsInJoined
<1>8. D = CallsIn(First(s, m)) \o CallsIn(r)
  BY <1>5, <1>6, CallsInJoined
<1>9. TextOf(s) \in Text /\ Proper(TextOf(s))
  BY ProperText
<1>10. D \in Seq(Call)
  BY <1>9, CallsInJoined
<1>11. Fenced(c).calls = CallsIn(First(s, m))
  BY <1>4 DEF Found
<1> HIDE DEF D
<1>12. CASE CallsIn(First(s, m)) # <<>>
  <2>1. ExtractToolCalls(c).calls = CallsIn(First(s, m))
    BY <1>11, <1>12 DEF ExtractToolCalls
  <2>2. Starts(CallsIn(First(s, m)), CallsIn(First(s, m)) \o CallsIn(r))
    BY <1>7, StartsJoined
  <2> QED
    BY <1>8, <2>1, <2>2 DEF D
<1>13. CASE CallsIn(First(s, m)) = <<>>
  <2>1. c = Plain(s, m) \o u
    BY <1>2, <1>5, <1>13
  <2>2. Proper(c)
    BY <1>9, ProperCut
  <2>3. {"pair"} \in SUBSET Object /\ {"call", "head", "half"} \in SUBSET Object
    BY DEF Object
  <2>4. \A kinds \in SUBSET Object :
           \/ Bare(c, kinds).calls = <<>>
           \/ Broken(u) /\ Len(u) = 2 /\ Bare(c, kinds).calls = CallsOf(u[2])
    BY <1>3, <1>5, <2>1, <2>2, BareCalls
  <2>5. \/ ExtractToolCalls(c).calls = <<>>
        \/ Broken(u) /\ Len(u) = 2 /\ ExtractToolCalls(c).calls = CallsOf(u[2])
    <3>1. \/ ExtractToolCalls(c) = Bare(c, {"pair"})
          \/ ExtractToolCalls(c) = Bare(c, {"call", "head", "half"})
      BY <1>11, <1>13 DEF ExtractToolCalls
    <3> QED
      BY <2>3, <2>4, <3>1
  <2>6. CASE ExtractToolCalls(c).calls = <<>>
    <3>1. Starts(<<>>, D)
      BY <1>10, StartsJoined
    <3> QED
      BY <2>6, <3>1 DEF D
  <2>7. CASE Broken(u) /\ Len(u) = 2 /\ ExtractToolCalls(c).calls = CallsOf(u[2])
    <3>1. ~Quiet(u)
      <4>1. 1 \in DOMAIN u /\ u[1].kind = "open"
        BY <2>7 DEF Broken, Text
      <4> QED
        BY <4>1 DEF Quiet
    <3>2. /\ m + 1 \in 1..Len(s) /\ s[m + 1] \in {"call", "pair"}
          /\ Starts(CallsOf(u[2]), CallsOf(Token(s[m + 1], m + 1)))
      BY <1>2, <2>7, <3>1 DEF Ending
    <3> DEFINE t == Tokens(s[m + 1], m + 1)
               o == Token(s[m + 1], m + 1)
    <3>3. m + 1 \in 1..MaxSegments /\ (m + 1) - 1 = m /\ m + 1 \in 0..Len(s)
      BY <3>2, ShapeTyped
    <3>4. t \in Text /\ o \in Piece /\ CallsIn(t) = CallsOf(o)
      BY <3>2, <3>3, RegularTokens
    <3>5. First(s, m + 1) = First(s, m) \o t
      BY <3>2, <3>3, FirstSteps
    <3>6. PICK q \in Text : TextOf(s) = First(s, m + 1) \o q
      BY <3>3, RestOf
    <3> HIDE DEF t, o
    <3>7. CallsIn(First(s, m + 1)) = CallsIn(First(s, m)) \o CallsIn(t)
      BY <1>5, <3>4, <3>5, CallsInJoined
    <3>8. First(s, m + 1) \in Text
      BY <3>3, FirstSteps
    <3>9. CallsIn(TextOf(s)) = CallsIn(First(s, m + 1)) \o CallsIn(q) /\ CallsIn(q) \in Seq(Call)
      BY <3>6, <3>8, CallsInJoined
    <3>10. CallsOf(o) \in Seq(Call) /\ CallsOf(u[2]) \in Seq(Call)
      <4>1. \A x \in Text : \A i \in 1..Len(x) : x[i] \in Piece
        BY DEF Text
      <4>2. 2 \in 1..Len(u)
        BY <2>7
      <4>3. u[2] \in Piece
        BY <4>1, <4>2, Zenon
      <4> QED
        BY <3>4, <4>3, CallsOfTyped
    <3>11. CallsIn(First(s, m + 1)) = CallsOf(o)
      BY <1>13, <3>4, <3>7, <3>10, ConcatEmptySeq
    <3>12. Starts(CallsOf(u[2]), CallsOf(o) \o CallsIn(q))
      <4>1. Starts(CallsOf(u[2]), CallsOf(o))
        BY <3>2 DEF o
      <4> QED
        BY <3>9, <3>10, <4>1, StartsJoined
    <3> QED
      BY <2>7, <3>9, <3>11, <3>12
  <2> QED
    BY <2>5, <2>6, <2>7
<1> QED
  BY <1>12, <1>13

\* Of a whole reply every call is made, in order, and all else is kept.
LEMMA WholeRead ==
    ASSUME NEW s \in Shapes, AllRegular(s)
    PROVE  LET found == ExtractToolCalls(TextOf(s))
           IN /\ found.calls = CallsIn(TextOf(s))
              /\ found.calls # <<>> => found.rest = Plain(s, Len(s))
              /\ found.calls = <<>> => TextOf(s) = Plain(s, Len(s))
<1> DEFINE T == TextOf(s)
           N == Len(s)
<1>1. N \in 0..N /\ N \in Nat
  BY ShapeTyped
<1>2. T = First(s, N) /\ T \in Text /\ Proper(T) /\ Plain(s, N) \in Text /\ Quiet(Plain(s, N))
  BY <1>1, FirstSteps, ProperText, PlainSteps, PlainQuiet
<1>3. T = Plain(s, N) \/ CallsIn(T) # <<>>
  BY <1>1, <1>2, PlainQuiet
<1>4. Quiet(<<>>) /\ <<>> \in Text /\ ~Broken(<<>>)
  BY TextJoins DEF Quiet, Broken
<1>5. T \o <<>> = T /\ Plain(s, N) \o <<>> = Plain(s, N)
  BY <1>2, TextJoins
<1>6. Fenced(First(s, N) \o <<>>) = Found(CallsIn(First(s, N)), Plain(s, N) \o <<>>)
  BY <1>1, <1>4, FencedIs
<1>7. Fenced(T) = Found(CallsIn(T), Plain(s, N))
  BY <1>2, <1>5, <1>6
<1>8. Fenced(T).calls = CallsIn(T) /\ Fenced(T).rest = Plain(s, N)
  BY <1>7 DEF Found
<1>9. CASE CallsIn(T) # <<>>
  <2>1. ExtractToolCalls(T) = Fenced(T)
    BY <1>8, <1>9 DEF ExtractToolCalls
  <2> QED
    BY <1>8, <1>9, <2>1
<1>10. CASE CallsIn(T) = <<>>
  <2>1. T = Plain(s, N)
    BY <1>3, <1>10
  <2>2. \A kinds \in SUBSET Object : Bare(Plain(s, N) \o <<>>, kinds).calls = <<>>
    <3> TAKE kinds \in SUBSET Object
    <3>1. Proper(Plain(s, N) \o <<>>)
      BY <1>2, <1>5, <2>1
    <3> QED
      BY <1>2, <1>4, <3>1, BareCalls
  <2>3. \A kinds \in SUBSET Object : Bare(T, kinds).calls = <<>>
    BY <1>5, <2>1, <2>2
  <2>4. {"pair"} \in SUBSET Object /\ {"call", "head", "half"} \in SUBSET Object
    BY DEF Object
  <2>5. \/ ExtractToolCalls(T) = Bare(T, {"pair"})
        \/ ExtractToolCalls(T) = Bare(T, {"call", "head", "half"})
    BY <1>8, <1>10 DEF ExtractToolCalls
  <2>6. ExtractToolCalls(T).calls = <<>>
    BY <2>3, <2>4, <2>5
  <2> QED
    BY <1>10, <2>1, <2>6
<1> QED
  BY <1>9, <1>10

\* Of a whole reply in the form that was asked for every call is made, in
\* order, and all other text is kept, however many segments it has
\* (internal/server/tools.go:87-122).
THEOREM CallsRead == Spec => []ToolCallsRead
<1>1. ASSUME IInv PROVE ToolCallsRead
  <2> SUFFICES ASSUME Taken, tools, Regular, text = TextOf(reply)
               PROVE  calls = CallsIn(text) /\ content = Plain(reply, Len(reply))
    <3>1. reply \in Shapes
      BY <1>1 DEF IInv
    <3> QED
      BY <3>1, PlainSteps DEF ToolCallsRead
  <2>1. reply \in Shapes /\ AllRegular(reply) /\ Handed(content, calls)
    BY <1>1 DEF IInv, Regular, AllRegular
  <2>2. /\ ExtractToolCalls(text).calls = CallsIn(text)
        /\ ExtractToolCalls(text).calls # <<>> =>
              ExtractToolCalls(text).rest = Plain(reply, Len(reply))
        /\ ExtractToolCalls(text).calls = <<>> => text = Plain(reply, Len(reply))
    BY <2>1, WholeRead
  <2> QED
    BY <2>1, <2>2 DEF Handed
<1> QED
  BY <1>1, Invariance, PTL

\* A client that makes the calls of a reply that was fetched too early makes
\* none that the finished reply does not make, and skips none before them,
\* wherever the text was cut (internal/upstream/client.go:520-578).
THEOREM EarlyOnesStand == Spec => []EarlyCallsStand
<1>1. ASSUME IInv PROVE EarlyCallsStand
  <2> SUFFICES ASSUME Taken, tools, Regular
               PROVE  IsPrefix(calls, CallsIn(TextOf(reply)))
    BY DEF EarlyCallsStand
  <2>1. /\ reply \in Shapes /\ AllRegular(reply) /\ Handed(content, calls)
        /\ text \in Cuts(TextOf(reply))
    BY <1>1 DEF IInv, Regular, AllRegular, Taken, Fetched
  <2>2. Starts(ExtractToolCalls(text).calls, CallsIn(TextOf(reply)))
    BY <2>1, EarlyCalls
  <2>3. calls = ExtractToolCalls(text).calls
    BY <2>1 DEF Handed
  <2>4. calls \in Seq(Call)
    BY <1>1, HandedTyped
  <2>5. CallsIn(TextOf(reply)) \in Seq(Call)
    BY <2>1, ProperText, CallsInJoined
  <2> QED
    BY <2>2, <2>3, <2>4, <2>5, StartsPrefix
<1> QED
  BY <1>1, Invariance, PTL

=============================================================================
