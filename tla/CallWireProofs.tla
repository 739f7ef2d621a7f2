--------------------------- MODULE CallWireProofs ---------------------------
(***************************************************************************)
(* Proofs about CallWire, for interfaces of any number of parameters,      *)
(* values of any length and frames of any size: the reader of a reply gets *)
(* the records that were written and stops at the terminator, and what the *)
(* handler and the caller get is what the other passed.                    *)
(*                                                                         *)
(* What a recursive function computes is shown by induction over a set of  *)
(* numbers: UpTo and DownFrom say that a set which holds 0 (n) and, with a *)
(* number, the next (the one before) holds all of 0..n.                    *)
(***************************************************************************)
EXTENDS CallWire, SequenceTheorems, WellFoundedInduction, TLAPS

-----------------------------------------------------------------------------
(* Induction, over sets of numbers                                          *)

Less == {p \in Nat \X Nat : p[1] < p[2]}

(* A set of numbers has a least one: < is well-founded on Nat.              *)
LEMMA LeastElement ==
  ASSUME NEW S \in SUBSET Nat, S # {}
  PROVE  \E m \in S : \A n \in S : m <= n
<1>1. IsWellFoundedOn(Less, Nat)
  <2>1. Less = OpToRel(<, Nat)
    BY Zenon DEF Less, OpToRel
  <2> QED
    BY <2>1, NatLessThanWellFounded, Zenon
<1>2. PICK m \in S : \A n \in S : <<n, m>> \notin Less
  BY <1>1, WFMin, Zenon
<1>3. \A n \in S : ~(n < m)
  BY <1>2 DEF Less
<1>4. m \in Nat /\ \A n \in S : n \in Nat
  OBVIOUS
<1> QED
  BY <1>3, <1>4

(* Upwards, over 0..n.                                                      *)
LEMMA UpTo ==
  ASSUME NEW n \in Nat, NEW S, 0 \in S,
         \A i \in 0..n - 1 : i \in S => i + 1 \in S
  PROVE  \A i \in 0..n : i \in S
<1> DEFINE T == {i \in 0..n : i \notin S}
<1> SUFFICES ASSUME T # {} PROVE FALSE
  OBVIOUS
<1>1. PICK m \in T : \A i \in T : m <= i
  BY T \in SUBSET Nat, LeastElement
<1>2. m \in 1..n
  OBVIOUS
<1>3. m - 1 \in 0..n - 1 /\ m - 1 \notin T
  BY <1>1, <1>2
<1>4. m - 1 \in S
  BY <1>3
<1>5. m - 1 + 1 \in S
  BY <1>3, <1>4
<1> QED
  BY <1>2, <1>5

(* Downwards, over m..n.                                                    *)
LEMMA DownFrom ==
  ASSUME NEW n \in Nat, NEW m \in Nat, m <= n, NEW S, n \in S,
         \A i \in m..n - 1 : i + 1 \in S => i \in S
  PROVE  \A i \in m..n : i \in S
<1> DEFINE T == {i \in 0..n - m : n - i \in S}
<1>1. 0 \in T
  OBVIOUS
<1>2. ASSUME NEW i \in 0..(n - m) - 1, i \in T
      PROVE  i + 1 \in T
  <2>1. n - (i + 1) \in m..n - 1 /\ (n - (i + 1)) + 1 = n - i
    OBVIOUS
  <2>2. n - (i + 1) \in S
    BY <1>2, <2>1
  <2> QED
    BY <2>2
<1>3. \A i \in 0..n - m : i \in T
  <2> HIDE DEF T
  <2> QED
    BY <1>1, <1>2, UpTo
<1> QED
  <2> TAKE i \in m..n
  <2>1. n - i \in 0..n - m /\ n - (n - i) = i
    OBVIOUS
  <2> QED
    BY <1>3, <2>1

-----------------------------------------------------------------------------
(* FlattenSeq, one sequence at a time                                       *)

(* What FlattenSeq has joined after each sequence of ss.                    *)
IsFlatten(g, ss, n) ==
  g = [i \in 1..n |-> IF i = 1 THEN ss[i] ELSE g[i - 1] \o ss[i]]

LEMMA FlattenExists ==
  ASSUME NEW ss, NEW n \in Nat \ {0}
  PROVE  \E g : IsFlatten(g, ss, n)
<1> DEFINE S == {k \in 0..n - 1 : \E g : IsFlatten(g, ss, k + 1)}
<1>1. 0 \in S
  <2>1. IsFlatten([i \in 1..1 |-> ss[i]], ss, 0 + 1)
    BY DEF IsFlatten
  <2> QED
    BY <2>1
<1>2. ASSUME NEW k \in 0..(n - 1) - 1, k \in S
      PROVE  k + 1 \in S
  <2>1. PICK g : IsFlatten(g, ss, k + 1)
    BY <1>2
  <2> DEFINE h == [i \in 1..k + 2 |-> IF i = k + 2 THEN g[k + 1] \o ss[i] ELSE g[i]]
  <2>2. \A i \in 1..k + 2 : h[i] = IF i = 1 THEN ss[i] ELSE h[i - 1] \o ss[i]
    <3> TAKE i \in 1..k + 2
    <3>1. CASE i = k + 2
      <4>1. i - 1 \in 1..k + 2 /\ i - 1 # k + 2 /\ i - 1 = k + 1 /\ i # 1
        BY <3>1
      <4>2. h[i - 1] = g[k + 1]
        BY <4>1
      <4> QED
        BY <3>1, <4>1, <4>2
    <3>2. CASE i # k + 2 /\ i = 1
      BY <3>2, <2>1 DEF IsFlatten
    <3>3. CASE i # k + 2 /\ i # 1
      <4>1. i \in 1..k + 1 /\ i - 1 \in 1..k + 1
        BY <3>3
      <4>2. g[i] = g[i - 1] \o ss[i]
        BY <4>1, <3>3, <2>1 DEF IsFlatten
      <4>3. h[i] = g[i] /\ h[i - 1] = g[i - 1]
        BY <4>1, <3>3
      <4> QED
        BY <4>2, <4>3, <3>3
    <3> QED
      BY <3>1, <3>2, <3>3
  <2>3. IsFlatten(h, ss, (k + 1) + 1)
    <3> DEFINE e(i) == IF i = 1 THEN ss[i] ELSE h[i - 1] \o ss[i]
    <3>1. h = [i \in 1..k + 2 |-> h[i]]
      OBVIOUS
    <3>2. \A i \in 1..k + 2 : h[i] = e(i)
      BY <2>2
    <3>3. h = [i \in 1..k + 2 |-> e(i)]
      <4> HIDE DEF e, h
      <4> QED
        BY <3>1, <3>2
    <3>4. (k + 1) + 1 = k + 2
      OBVIOUS
    <3> QED
      BY <3>3, <3>4 DEF IsFlatten
  <2> QED
    BY <2>3
<1>3. \A k \in 0..n - 1 : k \in S
  <2> HIDE DEF S
  <2> QED
    BY <1>1, <1>2, UpTo
<1>4. n - 1 \in S /\ (n - 1) + 1 = n
  BY <1>3
<1> QED
  BY <1>4

(* FlattenSeq is the last of them.                                          *)
LEMMA FlattenIsLast ==
  ASSUME NEW ss, Len(ss) \in Nat \ {0}
  PROVE  \E g : IsFlatten(g, ss, Len(ss)) /\ FlattenSeq(ss) = g[Len(ss)]
<1> DEFINE f == CHOOSE g : IsFlatten(g, ss, Len(ss))
<1>1. IsFlatten(f, ss, Len(ss))
  BY FlattenExists
<1>2. FlattenSeq(ss) = f[Len(ss)]
  BY DEF FlattenSeq, IsFlatten
<1> QED
  BY <1>1, <1>2

LEMMA FlattenEmpty == FlattenSeq(<<>>) = <<>>
<1>1. Len(<<>>) = 0
  OBVIOUS
<1> QED
  BY <1>1 DEF FlattenSeq

LEMMA FlattenAppend ==
  ASSUME NEW X, NEW ss \in Seq(Seq(X)), NEW s \in Seq(X)
  PROVE  FlattenSeq(Append(ss, s)) = FlattenSeq(ss) \o s
<1> DEFINE n == Len(ss)
           tt == Append(ss, s)
<1>1. /\ n \in Nat /\ Len(tt) = n + 1
      /\ \A i \in 1..n : tt[i] = ss[i]
      /\ tt[n + 1] = s
  BY AppendProperties, LenProperties
<1>2. PICK h : IsFlatten(h, tt, n + 1) /\ FlattenSeq(tt) = h[n + 1]
  <2>1. Len(tt) \in Nat \ {0}
    BY <1>1
  <2>2. \E h : IsFlatten(h, tt, Len(tt)) /\ FlattenSeq(tt) = h[Len(tt)]
    <3> HIDE DEF tt
    <3> QED
      BY <2>1, FlattenIsLast
  <2> QED
    BY <1>1, <2>2
<1>3. CASE n = 0
  <2>1. ss = <<>>
    BY <1>3, EmptySeq
  <2>2. h[n + 1] = s
    BY <1>1, <1>2, <1>3 DEF IsFlatten
  <2>3. <<>> \o s = s
    BY ConcatEmptySeq
  <2> QED
    BY <1>2, <2>1, <2>2, <2>3, FlattenEmpty
<1>4. CASE n # 0
  <2>1. PICK g : IsFlatten(g, ss, n) /\ FlattenSeq(ss) = g[n]
    BY <1>1, <1>4, FlattenIsLast
  <2> DEFINE S == {k \in 0..n - 1 : h[k + 1] = g[k + 1]}
  <2>2. 0 \in S
    BY <1>1, <1>2, <1>4, <2>1 DEF IsFlatten
  <2>3. ASSUME NEW k \in 0..(n - 1) - 1, k \in S
        PROVE  k + 1 \in S
    <3>1. k + 2 \in 1..n /\ k + 2 \in 1..n + 1 /\ k + 2 # 1 /\ (k + 2) - 1 = k + 1
      BY <1>1
    <3>2. g[k + 2] = g[k + 1] \o ss[k + 2]
      BY <3>1, <2>1 DEF IsFlatten
    <3>3. h[k + 2] = h[k + 1] \o tt[k + 2]
      BY <3>1, <1>2 DEF IsFlatten
    <3>4. h[k + 2] = g[k + 2]
      BY <3>1, <3>2, <3>3, <2>3, <1>1
    <3>5. (k + 1) + 1 = k + 2 /\ k + 1 \in 0..n - 1
      BY <1>1
    <3> QED
      BY <3>4, <3>5
  <2>4. \A k \in 0..n - 1 : k \in S
    <3> HIDE DEF S
    <3>1. n - 1 \in Nat
      BY <1>1, <1>4
    <3> QED
      BY <2>2, <2>3, <3>1, UpTo
  <2>5. h[n] = g[n]
    <3>1. n - 1 \in 0..n - 1 /\ (n - 1) + 1 = n
      BY <1>1, <1>4
    <3> QED
      BY <2>4, <3>1
  <2>6. h[n + 1] = h[n] \o tt[n + 1]
    <3>1. n + 1 \in 1..n + 1 /\ n + 1 # 1 /\ (n + 1) - 1 = n
      BY <1>1, <1>4
    <3> QED
      BY <1>2, <3>1 DEF IsFlatten
  <2> QED
    BY <1>1, <1>2, <2>1, <2>5, <2>6
<1> QED
  BY <1>3, <1>4

(* A function on 1..n is a sequence of n elements.                          *)
LEMMA FunctionIsSeq ==
  ASSUME NEW X, NEW n \in Nat, NEW f \in [1..n -> X]
  PROVE  f \in Seq(X) /\ Len(f) = n
<1>1. f \in Seq(X)
  BY SeqDef
<1>2. DOMAIN f = 1..n /\ DOMAIN f = 1..Len(f) /\ Len(f) \in Nat
  BY <1>1, LenProperties
<1> QED
  BY <1>1, <1>2

(* A sequence's first k + 1 elements are its first k and one more.          *)
LEMMA PrefixAppend ==
  ASSUME NEW X, NEW s \in Seq(X), NEW k \in 0..Len(s) - 1
  PROVE  /\ SubSeq(s, 1, k) \in Seq(X)
         /\ Len(SubSeq(s, 1, k)) = k
         /\ SubSeq(s, 1, k + 1) = Append(SubSeq(s, 1, k), s[k + 1])
<1>1. k \in Nat /\ Len(s) \in Nat /\ k + 1 \in 1..Len(s) /\ 1 \in 1..Len(s)
  BY LenProperties
<1>2. \A i \in 1..k : s[i] \in X
  BY <1>1, ElementOfSeq
<1>3. SubSeq(s, 1, k) \in Seq(X) /\ Len(SubSeq(s, 1, k)) = k
  BY <1>1, <1>2, SubSeqProperties
<1>4. SubSeq(s, 1, k + 1) = SubSeq(s, 1, k) \o <<s[k + 1]>>
  <2>1. k + 1 \in 1..Len(s) /\ (k + 1) - 1 = k
    BY <1>1
  <2> QED
    BY <1>1, <2>1, SubSeqRecursiveSecond
<1>5. Append(SubSeq(s, 1, k), s[k + 1]) = SubSeq(s, 1, k) \o <<s[k + 1]>>
  BY <1>1, <1>3, ElementOfSeq, AppendIsConcat
<1> QED
  BY <1>3, <1>4, <1>5

(* Over the sequences that elements of X make.                              *)
LEMMA SeqInduction ==
  ASSUME NEW X, NEW P, <<>> \in P,
         \A s \in Seq(X), e \in X : s \in P => Append(s, e) \in P
  PROVE  \A s \in Seq(X) : s \in P
<1> TAKE s \in Seq(X)
<1> DEFINE S == {k \in 0..Len(s) : SubSeq(s, 1, k) \in P}
<1>1. Len(s) \in Nat
  BY LenProperties
<1>2. 0 \in S
  <2>1. SubSeq(s, 1, 0) = <<>>
    BY SubSeqEmpty
  <2>2. SubSeq(s, 1, 0) \in P
    BY <2>1, Zenon
  <2> QED
    BY <1>1, <2>2
<1>3. ASSUME NEW k \in 0..Len(s) - 1, k \in S
      PROVE  k + 1 \in S
  <2>1. s[k + 1] \in X
    BY <1>1, ElementOfSeq
  <2>2. SubSeq(s, 1, k + 1) \in P
    BY <1>3, <2>1, PrefixAppend
  <2> QED
    BY <1>1, <2>2
<1>4. \A k \in 0..Len(s) : k \in S
  <2> HIDE DEF S
  <2> QED
    BY <1>1, <1>2, <1>3, UpTo
<1>5. SubSeq(s, 1, Len(s)) \in P
  BY <1>1, <1>4
<1> QED
  BY <1>5, SubSeqFull

LEMMA FlattenType ==
  ASSUME NEW X
  PROVE  \A ss \in Seq(Seq(X)) : FlattenSeq(ss) \in Seq(X)
<1> DEFINE P == {ss \in Seq(Seq(X)) : FlattenSeq(ss) \in Seq(X)}
<1>1. <<>> \in P
  BY FlattenEmpty, EmptySeq
<1>2. ASSUME NEW ss \in Seq(Seq(X)), NEW s \in Seq(X), ss \in P
      PROVE  Append(ss, s) \in P
  <2>1. FlattenSeq(Append(ss, s)) = FlattenSeq(ss) \o s
    BY FlattenAppend
  <2>2. FlattenSeq(ss) \o s \in Seq(X)
    BY <1>2, ConcatProperties
  <2>3. Append(ss, s) \in Seq(Seq(X))
    BY AppendProperties
  <2> QED
    BY <2>1, <2>2, <2>3
<1>3. \A ss \in Seq(Seq(X)) : ss \in P
  <2> HIDE DEF P
  <2> QED
    BY <1>1, <1>2, SeqInduction
<1> QED
  BY <1>3

LEMMA FlattenConcat ==
  ASSUME NEW X, NEW ss \in Seq(Seq(X))
  PROVE  \A tt \in Seq(Seq(X)) :
           FlattenSeq(ss \o tt) = FlattenSeq(ss) \o FlattenSeq(tt)
<1> DEFINE P == {tt \in Seq(Seq(X)) :
                   FlattenSeq(ss \o tt) = FlattenSeq(ss) \o FlattenSeq(tt)}
<1>1. <<>> \in P
  <2>1. ss \o <<>> = ss /\ <<>> \in Seq(Seq(X))
    BY ConcatEmptySeq, EmptySeq
  <2>2. FlattenSeq(ss) \o <<>> = FlattenSeq(ss)
    BY FlattenType, ConcatEmptySeq
  <2> QED
    BY <2>1, <2>2, FlattenEmpty
<1>2. ASSUME NEW tt \in Seq(Seq(X)), NEW s \in Seq(X), tt \in P
      PROVE  Append(tt, s) \in P
  <2>1. Append(tt, s) \in Seq(Seq(X)) /\ ss \o tt \in Seq(Seq(X))
    BY AppendProperties, ConcatProperties
  <2>2. ss \o Append(tt, s) = Append(ss \o tt, s)
    <3>1. <<s>> \in Seq(Seq(X))
      OBVIOUS
    <3>2. Append(tt, s) = tt \o <<s>> /\ Append(ss \o tt, s) = (ss \o tt) \o <<s>>
      BY <2>1, AppendIsConcat
    <3>3. (ss \o tt) \o <<s>> = ss \o (tt \o <<s>>)
      BY <3>1, ConcatAssociative
    <3> QED
      BY <3>2, <3>3, Zenon
  <2>3. FlattenSeq(ss \o Append(tt, s)) = (FlattenSeq(ss) \o FlattenSeq(tt)) \o s
    BY <1>2, <2>1, <2>2, FlattenAppend
  <2>4. @ = FlattenSeq(ss) \o (FlattenSeq(tt) \o s)
    BY FlattenType, ConcatAssociative
  <2>5. @ = FlattenSeq(ss) \o FlattenSeq(Append(tt, s))
    BY FlattenAppend
  <2> QED
    BY <2>1, <2>3, <2>4, <2>5
<1>3. \A tt \in Seq(Seq(X)) : tt \in P
  <2> HIDE DEF P
  <2> QED
    BY <1>1, <1>2, SeqInduction
<1> QED
  BY <1>3

LEMMA FlattenOne ==
  ASSUME NEW X, NEW s \in Seq(X)
  PROVE  FlattenSeq(<<s>>) = s
<1>1. <<>> \in Seq(Seq(X)) /\ Append(<<>>, s) = <<s>>
  BY EmptySeq
<1>2. FlattenSeq(Append(<<>>, s)) = <<>> \o s
  BY <1>1, FlattenAppend, FlattenEmpty
<1> QED
  BY <1>1, <1>2, ConcatEmptySeq

-----------------------------------------------------------------------------
(* The stream of a sequence of records                                      *)

TlvRecords == [tag : Nat, value : Seq(Nat)]

LEMMA FollowsIsNat == LengthFollows \in Nat
BY DEF LengthFollows

LEMMA TlvRecordType ==
  ASSUME NEW r \in TlvRecords
  PROVE  TlvRecord(r) \in Seq(Nat)
<1>1. r.tag \in Nat /\ r.value \in Seq(Nat) /\ Len(r.value) \in Nat
  BY LenProperties, FollowsIsNat DEF TlvRecords
<1>2. /\ <<r.tag>> \in Seq(Nat) /\ <<LengthFollows, 0, Len(r.value)>> \in Seq(Nat)
      /\ <<Len(r.value)>> \in Seq(Nat)
  BY <1>1, FollowsIsNat
<1> DEFINE l == IF Len(r.value) >= ExtendedFrom THEN <<LengthFollows, 0, Len(r.value)>>
                ELSE <<Len(r.value)>>
<1>3. l \in Seq(Nat)
  BY <1>2
<1>4. <<r.tag>> \o l \in Seq(Nat)
  BY <1>2, <1>3, ConcatProperties
<1>5. (<<r.tag>> \o l) \o r.value \in Seq(Nat)
  BY <1>1, <1>4, ConcatProperties
<1>6. ((<<r.tag>> \o l) \o r.value) \o <<r.tag>> \in Seq(Nat)
  BY <1>2, <1>5, ConcatProperties
<1> QED
  BY <1>6 DEF TlvRecord

Encoded(rs) == [i \in DOMAIN rs |-> TlvRecord(rs[i])]

LEMMA EncodedType ==
  ASSUME NEW rs \in Seq(TlvRecords)
  PROVE  /\ Encoded(rs) \in Seq(Seq(Nat))
         /\ Len(Encoded(rs)) = Len(rs)
         /\ \A i \in 1..Len(rs) : Encoded(rs)[i] = TlvRecord(rs[i])
<1>1. Len(rs) \in Nat /\ DOMAIN rs = 1..Len(rs)
  BY LenProperties
<1>2. \A i \in 1..Len(rs) : TlvRecord(rs[i]) \in Seq(Nat)
  BY ElementOfSeq, TlvRecordType
<1>3. Encoded(rs) \in [1..Len(rs) -> Seq(Nat)]
  BY <1>1, <1>2 DEF Encoded
<1> QED
  BY <1>1, <1>3, FunctionIsSeq DEF Encoded

LEMMA StreamType ==
  ASSUME NEW rs \in Seq(TlvRecords)
  PROVE  Stream(rs) \in Seq(Nat)
BY EncodedType, FlattenType DEF Stream, Encoded

LEMMA StreamConcat ==
  ASSUME NEW rs \in Seq(TlvRecords), NEW qs \in Seq(TlvRecords)
  PROVE  Stream(rs \o qs) = Stream(rs) \o Stream(qs)
<1>1. /\ rs \o qs \in Seq(TlvRecords)
      /\ Len(rs \o qs) = Len(rs) + Len(qs)
      /\ \A i \in 1..Len(rs) + Len(qs) :
           (rs \o qs)[i] = IF i <= Len(rs) THEN rs[i] ELSE qs[i - Len(rs)]
      /\ Len(rs) \in Nat /\ Len(qs) \in Nat
  BY ConcatProperties, LenProperties
<1>2. Encoded(rs \o qs) = Encoded(rs) \o Encoded(qs)
  <2>1. /\ Encoded(rs) \o Encoded(qs) \in Seq(Seq(Nat))
        /\ Len(Encoded(rs) \o Encoded(qs)) = Len(rs) + Len(qs)
        /\ \A i \in 1..Len(rs) + Len(qs) :
             (Encoded(rs) \o Encoded(qs))[i] =
               IF i <= Len(rs) THEN Encoded(rs)[i] ELSE Encoded(qs)[i - Len(rs)]
    <3>1. Encoded(rs) \in Seq(Seq(Nat)) /\ Len(Encoded(rs)) = Len(rs)
      BY EncodedType
    <3>2. Encoded(qs) \in Seq(Seq(Nat)) /\ Len(Encoded(qs)) = Len(qs)
      BY EncodedType
    <3> HIDE DEF Encoded
    <3>3. /\ Encoded(rs) \o Encoded(qs) \in Seq(Seq(Nat))
          /\ Len(Encoded(rs) \o Encoded(qs)) = Len(Encoded(rs)) + Len(Encoded(qs))
          /\ \A i \in 1..Len(Encoded(rs)) + Len(Encoded(qs)) :
               (Encoded(rs) \o Encoded(qs))[i] =
                 IF i <= Len(Encoded(rs)) THEN Encoded(rs)[i]
                 ELSE Encoded(qs)[i - Len(Encoded(rs))]
      BY <3>1, <3>2, ConcatProperties
    <3> QED
      BY <3>1, <3>2, <3>3
  <2>2. /\ Encoded(rs \o qs) \in Seq(Seq(Nat))
        /\ Len(Encoded(rs \o qs)) = Len(rs) + Len(qs)
        /\ \A i \in 1..Len(rs) + Len(qs) : Encoded(rs \o qs)[i] = TlvRecord((rs \o qs)[i])
    BY <1>1, EncodedType
  <2>3. ASSUME NEW i \in 1..Len(rs) + Len(qs)
        PROVE  Encoded(rs \o qs)[i] = (Encoded(rs) \o Encoded(qs))[i]
    <3>1. CASE i <= Len(rs)
      <4>1. i \in 1..Len(rs)
        BY <1>1, <3>1
      <4>2. Encoded(rs)[i] = TlvRecord(rs[i])
        BY <4>1, EncodedType
      <4> QED
        BY <1>1, <2>1, <2>2, <3>1, <4>2
    <3>2. CASE ~(i <= Len(rs))
      <4>1. i - Len(rs) \in 1..Len(qs)
        BY <1>1, <3>2
      <4>2. Encoded(qs)[i - Len(rs)] = TlvRecord(qs[i - Len(rs)])
        BY <4>1, EncodedType
      <4> QED
        BY <1>1, <2>1, <2>2, <3>2, <4>2
    <3> QED
      BY <3>1, <3>2
  <2> QED
    BY <2>1, <2>2, <2>3, SeqEqual
<1>3. Encoded(rs) \in Seq(Seq(Nat)) /\ Encoded(qs) \in Seq(Seq(Nat))
  BY EncodedType
<1>4. FlattenSeq(Encoded(rs) \o Encoded(qs)) = FlattenSeq(Encoded(rs)) \o FlattenSeq(Encoded(qs))
  BY <1>3, FlattenConcat
<1>5. \A s : Stream(s) = FlattenSeq(Encoded(s))
  BY DEF Stream, Encoded
<1> QED
  BY <1>2, <1>4, <1>5

LEMMA StreamOne ==
  ASSUME NEW r \in TlvRecords
  PROVE  Stream(<<r>>) = TlvRecord(r)
<1>1. <<r>> \in Seq(TlvRecords) /\ Len(<<r>>) = 1 /\ <<r>>[1] = r
  OBVIOUS
<1>2. <<TlvRecord(r)>> \in Seq(Seq(Nat)) /\ Len(<<TlvRecord(r)>>) = 1
  BY TlvRecordType
<1>3. Encoded(<<r>>) = <<TlvRecord(r)>>
  <2>1. Encoded(<<r>>)[1] = TlvRecord(<<r>>[1]) /\ Encoded(<<r>>) \in Seq(Seq(Nat))
        /\ Len(Encoded(<<r>>)) = 1
    <3> DEFINE rs == <<r>>
    <3>1. rs \in Seq(TlvRecords) /\ Len(rs) = 1 /\ 1 \in 1..1
      BY <1>1
    <3> HIDE DEF rs
    <3>2. Encoded(rs)[1] = TlvRecord(rs[1]) /\ Encoded(rs) \in Seq(Seq(Nat)) /\ Len(Encoded(rs)) = 1
      BY <3>1, EncodedType
    <3> QED
      BY <3>2 DEF rs
  <2>2. \A i \in 1..1 : Encoded(<<r>>)[i] = <<TlvRecord(r)>>[i]
    BY <1>1, <2>1
  <2> QED
    BY <1>2, <2>1, <2>2, SeqEqual
<1>4. FlattenSeq(<<TlvRecord(r)>>) = TlvRecord(r)
  BY TlvRecordType, FlattenOne
<1> QED
  BY <1>3, <1>4 DEF Stream, Encoded

-----------------------------------------------------------------------------
(* The walk                                                                 *)

WalkFrom(w, s, m) ==
  w = [pos \in m..Len(s) + 1 |->
         IF pos >= Len(s) THEN [records |-> <<>>, status |-> FellOff(pos, FALSE)]
         ELSE IF s[pos] = Terminator THEN [records |-> <<>>, status |-> "complete"]
         ELSE IF ~Holds(s, pos) THEN [records |-> <<>>, status |-> FellOff(pos, TRUE)]
         ELSE [w[NextAt(s, pos)] EXCEPT !.records = <<RecordAt(s, pos)>> \o @]]

(* A record takes at least its tag and its length.                          *)
LEMMA NextIsLater ==
  ASSUME NEW s \in Seq(Nat), NEW pos \in Nat \ {0}, pos < Len(s), Holds(s, pos)
  PROVE  NextAt(s, pos) \in pos + 1..Len(s) + 1
<1>1. Len(s) \in Nat
  BY LenProperties
<1>2. s[pos + 1] \in Nat
  BY <1>1, ElementOfSeq
<1>3. Extended(s, pos) => s[pos + 3] \in Nat
  <2> SUFFICES ASSUME Extended(s, pos) PROVE s[pos + 3] \in Nat
    OBVIOUS
  <2>1. pos + 3 \in 1..Len(s)
    BY <1>1 DEF Holds
  <2> QED
    BY <2>1, ElementOfSeq
<1>4. ValueEnd(s, pos) \in pos..Len(s)
  BY <1>1, <1>2, <1>3 DEF ValueEnd, ValueFrom, Holds
<1> QED
  BY <1>1, <1>4 DEF NextAt

LEMMA WalkExists ==
  ASSUME NEW s \in Seq(Nat)
  PROVE  \E w : WalkFrom(w, s, 1)
<1>1. Len(s) \in Nat
  BY LenProperties
<1> DEFINE n == Len(s) + 1
           S == {m \in 1..n : \E w : WalkFrom(w, s, m)}
<1>2. n \in S
  <2>1. \A pos \in n..Len(s) + 1 : pos >= Len(s)
    BY <1>1
  <2>2. WalkFrom([pos \in n..Len(s) + 1 |->
                    [records |-> <<>>, status |-> FellOff(pos, FALSE)]], s, n)
    BY <2>1, Zenon DEF WalkFrom
  <2> HIDE DEF n
  <2>3. n \in 1..n
    BY <1>1 DEF n
  <2> QED
    BY <2>2, <2>3
<1>3. ASSUME NEW m \in 1..n - 1, m + 1 \in S
      PROVE  m \in S
  <2>1. PICK w : WalkFrom(w, s, m + 1)
    BY <1>3
  <2> DEFINE body(v, pos) ==
        IF pos >= Len(s) THEN [records |-> <<>>, status |-> FellOff(pos, FALSE)]
        ELSE IF s[pos] = Terminator THEN [records |-> <<>>, status |-> "complete"]
        ELSE IF ~Holds(s, pos) THEN [records |-> <<>>, status |-> FellOff(pos, TRUE)]
        ELSE [v[NextAt(s, pos)] EXCEPT !.records = <<RecordAt(s, pos)>> \o @]
      v == [pos \in m..n |-> IF pos = m THEN body(w, m) ELSE w[pos]]
  <2>2. \A pos \in m + 1..n : w[pos] = body(w, pos)
    BY <2>1, Zenon DEF WalkFrom
  <2>3. ASSUME NEW pos \in m..n
        PROVE  body(v, pos) = body(w, pos)
    <3>1. CASE pos >= Len(s) \/ s[pos] = Terminator \/ ~Holds(s, pos)
      BY <3>1, Zenon
    <3>2. CASE ~(pos >= Len(s)) /\ Holds(s, pos)
      <4>1. pos \in Nat \ {0} /\ pos < Len(s)
        BY <1>1, <3>2
      <4>2. NextAt(s, pos) \in pos + 1..Len(s) + 1
        BY <3>2, <4>1, NextIsLater
      <4>3. NextAt(s, pos) \in m..n /\ NextAt(s, pos) # m
        BY <1>1, <4>2
      <4>4. v[NextAt(s, pos)] = w[NextAt(s, pos)]
        BY <4>3, Zenon
      <4> HIDE DEF v
      <4> QED
        BY <4>4, Zenon
    <3> QED
      BY <3>1, <3>2, Zenon
  <2>4. ASSUME NEW pos \in m..n
        PROVE  v[pos] = body(v, pos)
    <3> HIDE DEF body
    <3>1. CASE pos = m
      BY <2>3, <3>1
    <3>2. CASE pos # m
      <4>1. pos \in m + 1..n
        BY <1>1, <3>2
      <4> QED
        BY <2>2, <2>3, <3>2, <4>1
    <3> QED
      BY <3>1, <3>2
  <2>5. v = [pos \in m..n |-> body(v, pos)]
    <3>1. v = [pos \in m..n |-> v[pos]]
      OBVIOUS
    <3> HIDE DEF v, body
    <3> QED
      BY <2>4, <3>1
  <2>6. WalkFrom(v, s, m)
    BY <2>5, Zenon DEF WalkFrom
  <2> HIDE DEF v
  <2>7. m \in 1..n
    BY <1>1
  <2> QED
    BY <2>6, <2>7
<1>4. \A m \in 1..n : m \in S
  <2>1. n \in Nat /\ 1 \in Nat /\ 1 <= n
    BY <1>1
  <2> HIDE DEF S, n
  <2> QED
    BY <1>2, <1>3, <2>1, DownFrom
<1>5. 1 \in S
  <2>1. 1 \in 1..n
    BY <1>1
  <2> HIDE DEF S, n
  <2> QED
    BY <1>4, <2>1
<1> QED
  BY <1>5

LEMMA WalkIsWalk ==
  ASSUME NEW s \in Seq(Nat)
  PROVE  WalkFrom(Walk(s), s, 1)
<1>1. Walk(s) = CHOOSE w : WalkFrom(w, s, 1)
  BY Zenon DEF Walk, WalkFrom
<1> QED
  BY <1>1, WalkExists, Zenon

(* What the walk does at a position, case by case.                          *)
LEMMA WalkAt ==
  ASSUME NEW s \in Seq(Nat), NEW pos \in 1..Len(s) + 1
  PROVE  /\ pos >= Len(s) =>
              Walk(s)[pos] = [records |-> <<>>, status |-> FellOff(pos, FALSE)]
         /\ pos < Len(s) /\ s[pos] = Terminator =>
              Walk(s)[pos] = [records |-> <<>>, status |-> "complete"]
         /\ pos < Len(s) /\ s[pos] # Terminator /\ ~Holds(s, pos) =>
              Walk(s)[pos] = [records |-> <<>>, status |-> FellOff(pos, TRUE)]
         /\ pos < Len(s) /\ s[pos] # Terminator /\ Holds(s, pos) =>
              Walk(s)[pos] = [Walk(s)[NextAt(s, pos)] EXCEPT
                                !.records = <<RecordAt(s, pos)>> \o @]
<1> DEFINE w == Walk(s)
<1>1. w[pos] =
         IF pos >= Len(s) THEN [records |-> <<>>, status |-> FellOff(pos, FALSE)]
         ELSE IF s[pos] = Terminator THEN [records |-> <<>>, status |-> "complete"]
         ELSE IF ~Holds(s, pos) THEN [records |-> <<>>, status |-> FellOff(pos, TRUE)]
         ELSE [w[NextAt(s, pos)] EXCEPT !.records = <<RecordAt(s, pos)>> \o @]
  <2>1. WalkFrom(w, s, 1)
    BY WalkIsWalk
  <2> HIDE DEF w
  <2> QED
    BY <2>1, Zenon DEF WalkFrom
<1>2. pos < Len(s) <=> ~(pos >= Len(s))
  BY LenProperties
<1> HIDE DEF w
<1>3. /\ pos >= Len(s) =>
              w[pos] = [records |-> <<>>, status |-> FellOff(pos, FALSE)]
      /\ pos < Len(s) /\ s[pos] = Terminator =>
              w[pos] = [records |-> <<>>, status |-> "complete"]
      /\ pos < Len(s) /\ s[pos] # Terminator /\ ~Holds(s, pos) =>
              w[pos] = [records |-> <<>>, status |-> FellOff(pos, TRUE)]
      /\ pos < Len(s) /\ s[pos] # Terminator /\ Holds(s, pos) =>
              w[pos] = [w[NextAt(s, pos)] EXCEPT
                                !.records = <<RecordAt(s, pos)>> \o @]
  BY <1>1, <1>2, Zenon
<1> QED
  BY <1>3, Zenon DEF w

(* A record's cells: the tag, the length, the value, the tag.               *)
Header(r) == IF Len(r.value) >= ExtendedFrom THEN 4 ELSE 2

(* c is a, then b.                                                          *)
Joins(c, a, b) ==
  /\ Len(c) = Len(a) + Len(b)
  /\ \A i \in 1..Len(a) : c[i] = a[i]
  /\ \A i \in 1..Len(b) : c[Len(a) + i] = b[i]

LEMMA ConcatJoins ==
  ASSUME NEW X, NEW a \in Seq(X), NEW b \in Seq(X)
  PROVE  a \o b \in Seq(X) /\ Joins(a \o b, a, b)
<1>1. Len(a) \in Nat /\ Len(b) \in Nat
  BY LenProperties
<1>2. /\ a \o b \in Seq(X)
      /\ Len(a \o b) = Len(a) + Len(b)
      /\ \A i \in 1..Len(a) + Len(b) :
           (a \o b)[i] = IF i <= Len(a) THEN a[i] ELSE b[i - Len(a)]
  BY ConcatProperties
<1>3. ASSUME NEW i \in 1..Len(a) PROVE (a \o b)[i] = a[i]
  BY <1>1, <1>2
<1>4. ASSUME NEW i \in 1..Len(b) PROVE (a \o b)[Len(a) + i] = b[i]
  <2>1. /\ Len(a) + i \in 1..Len(a) + Len(b) /\ ~(Len(a) + i <= Len(a))
        /\ (Len(a) + i) - Len(a) = i
    BY <1>1
  <2> QED
    BY <1>2, <2>1
<1> QED
  BY <1>2, <1>3, <1>4, Zenon DEF Joins

(* Four parts, the last the first again.                                    *)
LEMMA FourJoins ==
  ASSUME NEW a \in Seq(Nat), NEW b \in Seq(Nat), NEW v \in Seq(Nat)
  PROVE  \E ab, abv : /\ Joins(ab, a, b) /\ Joins(abv, ab, v)
                     /\ Joins(a \o b \o v \o a, abv, a)
<1>1. a \o b \in Seq(Nat) /\ Joins(a \o b, a, b)
  BY ConcatJoins, Zenon
<1>2. a \o b \o v \in Seq(Nat) /\ Joins(a \o b \o v, a \o b, v)
  BY <1>1, ConcatJoins, Zenon
<1>3. Joins(a \o b \o v \o a, a \o b \o v, a)
  BY <1>2, ConcatJoins, Zenon
<1> QED
  BY <1>1, <1>2, <1>3, Zenon

LEMMA FourParts ==
  ASSUME NEW a, NEW b, NEW v, NEW c, NEW ab, NEW abv,
         NEW k \in Nat, NEW n \in Nat, NEW h \in Nat,
         Len(a) = 1, Len(b) = k, Len(v) = n, h = 1 + k,
         Joins(ab, a, b), Joins(abv, ab, v), Joins(c, abv, a)
  PROVE  /\ Len(c) = h + n + 1
         /\ c[1] = a[1]
         /\ \A i \in 1..k : c[1 + i] = b[i]
         /\ \A i \in 1..n : c[h + i] = v[i]
         /\ c[h + n + 1] = a[1]
<1>1. /\ Len(ab) = h
      /\ \A i \in 1..1 : ab[i] = a[i]
      /\ \A i \in 1..k : ab[1 + i] = b[i]
  BY DEF Joins
<1>2. /\ Len(abv) = h + n
      /\ \A i \in 1..h : abv[i] = ab[i]
      /\ \A i \in 1..n : abv[h + i] = v[i]
  BY <1>1 DEF Joins
<1>3. /\ Len(c) = h + n + 1
      /\ \A i \in 1..h + n : c[i] = abv[i]
      /\ \A i \in 1..1 : c[h + n + i] = a[i]
  BY <1>2 DEF Joins
<1>4. 1 \in 1..h /\ 1 \in 1..h + n /\ 1 \in 1..1
  OBVIOUS
<1>5. c[1] = a[1]
  BY <1>1, <1>2, <1>3, <1>4
<1>6. ASSUME NEW i \in 1..k PROVE c[1 + i] = b[i]
  <2>1. 1 + i \in 1..h /\ 1 + i \in 1..h + n
    OBVIOUS
  <2> QED
    BY <1>1, <1>2, <1>3, <2>1, Zenon
<1>7. ASSUME NEW i \in 1..n PROVE c[h + i] = v[i]
  <2>1. h + i \in 1..h + n
    OBVIOUS
  <2> QED
    BY <1>2, <1>3, <2>1, Zenon
<1>8. c[h + n + 1] = a[1]
  BY <1>3, <1>4, Zenon
<1> QED
  BY <1>3, <1>5, <1>6, <1>7, <1>8

LEMMA TlvCells ==
  ASSUME NEW r \in TlvRecords
  PROVE  /\ Len(TlvRecord(r)) = Header(r) + Len(r.value) + 1
         /\ TlvRecord(r)[1] = r.tag
         /\ Header(r) = 2 => TlvRecord(r)[2] = Len(r.value)
         /\ Header(r) = 4 => TlvRecord(r)[2] = LengthFollows /\ TlvRecord(r)[4] = Len(r.value)
         /\ \A i \in 1..Len(r.value) : TlvRecord(r)[Header(r) + i] = r.value[i]
         /\ TlvRecord(r)[Header(r) + Len(r.value) + 1] = r.tag
<1> DEFINE v == r.value
           n == Len(v)
           b == IF n >= ExtendedFrom THEN <<LengthFollows, 0, n>> ELSE <<n>>
           a == <<r.tag>>
           c == a \o b \o v \o a
<1>1. v \in Seq(Nat) /\ n \in Nat
  BY LenProperties DEF TlvRecords
<1>2. a \in Seq(Nat) /\ Len(a) = 1 /\ a[1] = r.tag
  BY DEF TlvRecords
<1>3. TlvRecord(r) = c
  BY Zenon DEF TlvRecord
<1>4. b \in Seq(Nat) /\ 1 + Len(b) = Header(r)
  BY <1>1, FollowsIsNat DEF Header
<1>5. /\ Header(r) = 2 => b[1] = n
      /\ Header(r) = 4 => b[1] = LengthFollows /\ b[3] = n
      /\ Header(r) \in {2, 4}
  BY DEF Header
<1> HIDE DEF a, b, c, n
<1>6. /\ Len(c) = Header(r) + n + 1
      /\ c[1] = a[1]
      /\ \A i \in 1..Len(b) : c[1 + i] = b[i]
      /\ \A i \in 1..n : c[Header(r) + i] = v[i]
      /\ c[Header(r) + n + 1] = a[1]
  <2>1. Len(b) \in Nat /\ Header(r) = 1 + Len(b) /\ Header(r) \in Nat
    BY <1>4, <1>5, LenProperties
  <2>2. Len(v) = n
    BY DEF n
  <2>3. PICK ab, abv : Joins(ab, a, b) /\ Joins(abv, ab, v) /\ Joins(c, abv, a)
    BY <1>1, <1>2, <1>4, FourJoins, Zenon DEF c
  <2> HIDE DEF v
  <2>4. \A k, m, h \in Nat : k = Len(b) /\ m = n /\ h = 1 + k =>
          /\ Len(c) = h + m + 1
          /\ c[1] = a[1]
          /\ \A i \in 1..k : c[1 + i] = b[i]
          /\ \A i \in 1..m : c[h + i] = v[i]
          /\ c[h + m + 1] = a[1]
    <3> TAKE k, m, h \in Nat
    <3> HAVE k = Len(b) /\ m = n /\ h = 1 + k
    <3>1. Len(b) = k /\ Len(v) = m /\ h = 1 + k
      BY <2>2
    <3> QED
      BY <1>2, <2>3, <3>1, FourParts
  <2> QED
    BY <1>1, <2>1, <2>4
<1>7. Header(r) = 2 => c[2] = n
  <2> SUFFICES ASSUME Header(r) = 2 PROVE c[2] = n
    OBVIOUS
  <2>1. 1 \in 1..Len(b) /\ 1 + 1 = 2
    BY <1>4, LenProperties
  <2> QED
    BY <1>5, <1>6, <2>1
<1>8. Header(r) = 4 => c[2] = LengthFollows /\ c[4] = n
  <2> SUFFICES ASSUME Header(r) = 4 PROVE c[2] = LengthFollows /\ c[4] = n
    OBVIOUS
  <2>1. 1 \in 1..Len(b) /\ 1 + 1 = 2 /\ 3 \in 1..Len(b) /\ 1 + 3 = 4
    BY <1>4, LenProperties
  <2> QED
    BY <1>5, <1>6, <2>1
<1> QED
  BY <1>2, <1>3, <1>6, <1>7, <1>8 DEF n

(* t is made of cells.                                                      *)
Cells(t) == Len(t) \in Nat /\ \A i \in 1..Len(t) : t[i] \in Nat

LEMMA SeqIsCells == \A t \in Seq(Nat) : Cells(t)
BY LenProperties, ElementOfSeq DEF Cells

(* A record that stands in t from pos on, as far as t goes.                 *)
StandsAt(r, t, pos) ==
  \A j \in 1..Len(TlvRecord(r)) : pos - 1 + j <= Len(t) => t[pos - 1 + j] = TlvRecord(r)[j]

LEMMA ValueEndIs ==
  ASSUME NEW t, NEW pos
  PROVE  ValueEnd(t, pos) = IF Extended(t, pos) THEN ValueFrom(t, pos) - 1 + t[pos + 3]
                            ELSE ValueFrom(t, pos) - 1 + t[pos + 1]
<1>1. CASE Extended(t, pos)
  BY <1>1 DEF ValueEnd
<1>2. CASE ~Extended(t, pos)
  BY <1>2 DEF ValueEnd
<1> QED
  BY <1>1, <1>2

(* The same sum, without sequences around it.                               *)
LEMMA EndOfValue ==
  \A pos, h, n \in Nat : (pos + h) - 1 + n = pos + h + n - 1
OBVIOUS

LEMMA StandingCells ==
  ASSUME NEW r \in TlvRecords, NEW t, Cells(t), NEW pos \in Nat \ {0}, pos < Len(t),
         StandsAt(r, t, pos)
  PROVE  /\ t[pos] = r.tag
         /\ Extended(t, pos) <=> Header(r) = 4
         /\ ValueFrom(t, pos) = pos + Header(r)
         /\ ~Extended(t, pos) \/ pos + 3 <= Len(t) =>
              ValueEnd(t, pos) = pos + Header(r) + Len(r.value) - 1
<1>1. Len(t) \in Nat /\ Len(r.value) \in Nat /\ Header(r) \in {2, 4}
  BY LenProperties DEF TlvRecords, Header, Cells
<1>2. /\ Len(TlvRecord(r)) = Header(r) + Len(r.value) + 1
      /\ TlvRecord(r)[1] = r.tag
      /\ Header(r) = 2 => TlvRecord(r)[2] = Len(r.value)
      /\ Header(r) = 4 => TlvRecord(r)[2] = LengthFollows /\ TlvRecord(r)[4] = Len(r.value)
  BY TlvCells
<1>3. t[pos] = TlvRecord(r)[1]
  <2>1. 1 \in 1..Len(TlvRecord(r)) /\ pos - 1 + 1 = pos /\ pos <= Len(t)
    BY <1>1, <1>2
  <2> QED
    BY <2>1 DEF StandsAt
<1>4. t[pos + 1] = TlvRecord(r)[2]
  <2>1. 2 \in 1..Len(TlvRecord(r)) /\ pos - 1 + 2 = pos + 1 /\ pos + 1 <= Len(t)
    BY <1>1, <1>2
  <2> QED
    BY <2>1 DEF StandsAt
<1>5. Header(r) = 4 /\ pos + 3 <= Len(t) => t[pos + 3] = TlvRecord(r)[4]
  <2> SUFFICES ASSUME Header(r) = 4, pos + 3 <= Len(t) PROVE t[pos + 3] = TlvRecord(r)[4]
    OBVIOUS
  <2>1. 4 \in 1..Len(TlvRecord(r)) /\ pos - 1 + 4 = pos + 3
    BY <1>1, <1>2
  <2> QED
    BY <2>1 DEF StandsAt
<1>6. Header(r) = 2 => Len(r.value) # LengthFollows
  <2>1. ExtendedFrom \in 1..LengthFollows /\ LengthFollows \in Nat
    BY WireAssumption, FollowsIsNat
  <2> QED
    BY <1>1, <2>1 DEF Header
<1>7. Extended(t, pos) <=> Header(r) = 4
  <2>1. CASE Header(r) = 2
    BY <1>2, <1>4, <1>6, <2>1 DEF Extended
  <2>2. CASE Header(r) = 4
    BY <1>2, <1>4, <2>2 DEF Extended
  <2> QED
    BY <1>1, <2>1, <2>2
<1>8. ValueFrom(t, pos) = pos + Header(r)
  BY <1>1, <1>7 DEF ValueFrom
<1>9. ASSUME ~Extended(t, pos) \/ pos + 3 <= Len(t)
      PROVE  ValueEnd(t, pos) = pos + Header(r) + Len(r.value) - 1
  <2>1. ValueEnd(t, pos) = (pos + Header(r)) - 1 + Len(r.value)
    <3>1. CASE Header(r) = 2
      <4>1. t[pos + 1] = Len(r.value) /\ ~Extended(t, pos)
        BY <1>2, <1>4, <1>7, <3>1
      <4>2. ValueEnd(t, pos) = ValueFrom(t, pos) - 1 + t[pos + 1]
        BY <4>1, ValueEndIs
      <4> QED
        BY <1>8, <4>1, <4>2, Zenon
    <3>2. CASE Header(r) = 4
      <4>1. t[pos + 3] = Len(r.value) /\ Extended(t, pos)
        BY <1>2, <1>5, <1>7, <1>9, <3>2
      <4>2. ValueEnd(t, pos) = ValueFrom(t, pos) - 1 + t[pos + 3]
        BY <4>1, ValueEndIs
      <4> QED
        BY <1>8, <4>1, <4>2, Zenon
    <3> QED
      BY <1>1, <3>1, <3>2
  <2>2. Header(r) \in Nat
    BY <1>1
  <2> QED
    BY <1>1, <2>1, <2>2, EndOfValue, Zenon
<1> QED
  BY <1>2, <1>3, <1>7, <1>8, <1>9

(* The walk over a record that is there, but for its closing tag perhaps.   *)
LEMMA RecordWalked ==
  ASSUME NEW r \in TlvRecords, NEW t, Cells(t), NEW pos \in Nat \ {0},
         StandsAt(r, t, pos),
         pos + Len(TlvRecord(r)) - 2 <= Len(t)
  PROVE  /\ pos < Len(t)
         /\ Holds(t, pos)
         /\ RecordAt(t, pos) = r
         /\ pos + Len(TlvRecord(r)) - 1 <= Len(t) =>
              NextAt(t, pos) = pos + Len(TlvRecord(r))
         /\ pos + Len(TlvRecord(r)) - 2 = Len(t) => NextAt(t, pos) = Len(t) + 1
<1> DEFINE h == Header(r)
           n == Len(r.value)
<1>1. Len(t) \in Nat /\ n \in Nat /\ h \in {2, 4} /\ r.value \in Seq(Nat)
  BY LenProperties DEF TlvRecords, Header, Cells
<1>2. /\ Len(TlvRecord(r)) = h + n + 1
      /\ \A i \in 1..n : TlvRecord(r)[h + i] = r.value[i]
      /\ TlvRecord(r)[h + n + 1] = r.tag
  BY TlvCells
<1> HIDE DEF h, n
<1>3. pos < Len(t)
  BY <1>1, <1>2
<1>4. /\ t[pos] = r.tag
      /\ Extended(t, pos) <=> h = 4
      /\ ValueFrom(t, pos) = pos + h
      /\ ~Extended(t, pos) \/ pos + 3 <= Len(t) => ValueEnd(t, pos) = pos + h + n - 1
  BY <1>3, StandingCells DEF h, n
<1>5. Extended(t, pos) => pos + 3 <= Len(t)
  BY <1>1, <1>2, <1>4
<1>6. ValueEnd(t, pos) = pos + h + n - 1
  BY <1>4, <1>5
<1>7. Holds(t, pos)
  BY <1>1, <1>2, <1>5, <1>6 DEF Holds
<1>8. SubSeq(t, pos + h, pos + h + n - 1) = r.value
  <2> DEFINE v == SubSeq(t, pos + h, pos + h + n - 1)
  <2>1. \A i \in pos + h..pos + h + n - 1 : t[i] \in Nat
    <3>1. \A p, l, m, k, i \in Nat :
            p # 0 /\ p + (l + m + 1) - 2 <= k /\ p + l <= i /\ i <= p + l + m - 1
              => 1 <= i /\ i <= k
      OBVIOUS
    <3>2. pos + (h + n + 1) - 2 <= Len(t)
      BY <1>2
    <3>3. \A i \in pos + h..pos + h + n - 1 : i \in 1..Len(t)
      BY <1>1, <3>1, <3>2
    <3> QED
      BY <3>3 DEF Cells
  <2>2. /\ v \in Seq(Nat)
        /\ Len(v) = IF pos + h <= pos + h + n - 1
                    THEN (pos + h + n - 1) - (pos + h) + 1 ELSE 0
        /\ \A i \in 1..(pos + h + n - 1) - (pos + h) + 1 : v[i] = t[pos + h + i - 1]
    <3>1. pos + h \in Int /\ pos + h + n - 1 \in Int
      BY <1>1
    <3> QED
      BY <2>1, <3>1, SubSeqProperties
  <2>3. Len(v) = n /\ (pos + h + n - 1) - (pos + h) + 1 = n
    BY <1>1, <2>2
  <2>4. ASSUME NEW i \in 1..n PROVE v[i] = r.value[i]
    <3>1. v[i] = t[pos + h + i - 1]
      BY <2>2, <2>3
    <3>2. h + i \in 1..Len(TlvRecord(r)) /\ pos - 1 + (h + i) = pos + h + i - 1
          /\ pos - 1 + (h + i) <= Len(t)
      BY <1>1, <1>2
    <3>3. t[pos - 1 + (h + i)] = TlvRecord(r)[h + i]
      BY <3>2 DEF StandsAt
    <3> QED
      BY <1>2, <3>1, <3>2, <3>3
  <2> QED
    <3> HIDE DEF v
    <3>1. Len(r.value) = n
      BY DEF n
    <3>2. v = r.value
      BY <1>1, <2>2, <2>3, <2>4, <3>1, SeqEqual, Zenon
    <3> QED
      BY <3>2 DEF v
<1>9. RecordAt(t, pos) = r
  <2>1. r = [tag |-> r.tag, value |-> r.value]
    BY DEF TlvRecords
  <2> QED
    BY <1>4, <1>6, <1>8, <2>1 DEF RecordAt, Rec
<1>10. ASSUME pos + Len(TlvRecord(r)) - 1 <= Len(t)
       PROVE  NextAt(t, pos) = pos + Len(TlvRecord(r))
  <2>1. h + n + 1 \in 1..Len(TlvRecord(r)) /\ pos - 1 + (h + n + 1) <= Len(t)
        /\ pos - 1 + (h + n + 1) = pos + h + n
    BY <1>1, <1>2, <1>10
  <2>2. t[pos + h + n] = r.tag
    <3>1. t[pos - 1 + (h + n + 1)] = TlvRecord(r)[h + n + 1]
      BY <2>1 DEF StandsAt
    <3> QED
      BY <1>2, <2>1, <3>1
  <2>3. ValueEnd(t, pos) + 1 = pos + h + n /\ pos + h + n <= Len(t)
    BY <1>1, <1>6, <2>1
  <2>4. NextAt(t, pos) = pos + h + n + 1
    BY <1>4, <2>2, <2>3 DEF NextAt
  <2> QED
    BY <1>1, <1>2, <2>4
<1>11. ASSUME pos + Len(TlvRecord(r)) - 2 = Len(t)
       PROVE  NextAt(t, pos) = Len(t) + 1
  <2>1. pos + h + n - 1 = Len(t)
    <3>1. \A p, i, m, l, y \in Nat : l = i + m + 1 /\ p + l - 2 = y => p + i + m - 1 = y
      OBVIOUS
    <3>2. Len(TlvRecord(r)) \in Nat /\ h \in Nat /\ n \in Nat /\ Len(t) \in Nat /\ pos \in Nat
      BY <1>1, <1>2
    <3>3. PICK l \in Nat : l = Len(TlvRecord(r))
      BY <3>2
    <3>4. l = h + n + 1 /\ pos + l - 2 = Len(t)
      BY <1>2, <1>11, <3>3
    <3> HIDE DEF h, n
    <3> QED
      BY <3>1, <3>2, <3>4
  <2>2. ValueEnd(t, pos) + 1 = Len(t) + 1 /\ ~(Len(t) + 1 <= Len(t))
    BY <1>1, <1>6, <2>1
  <2> QED
    BY <2>2, Zenon DEF NextAt
<1> QED
  BY <1>3, <1>7, <1>9, <1>10, <1>11

(* The walk over a record that is cut off.                                  *)
LEMMA RecordCutOff ==
  ASSUME NEW r \in TlvRecords, NEW t, Cells(t), NEW pos \in Nat \ {0}, pos < Len(t),
         StandsAt(r, t, pos),
         Len(t) < pos + Len(TlvRecord(r)) - 2
  PROVE  ~Holds(t, pos)
<1>1. Len(t) \in Nat /\ Len(r.value) \in Nat /\ Header(r) \in {2, 4}
  BY LenProperties DEF TlvRecords, Header, Cells
<1>2. Len(TlvRecord(r)) = Header(r) + Len(r.value) + 1
  BY TlvCells
<1>3. ~Extended(t, pos) \/ pos + 3 <= Len(t) =>
         ValueEnd(t, pos) = pos + Header(r) + Len(r.value) - 1
  BY StandingCells
<1>4. CASE ~Extended(t, pos) \/ pos + 3 <= Len(t)
  <2>1. ValueEnd(t, pos) = pos + Header(r) + Len(r.value) - 1
    BY <1>3, <1>4
  <2>2. ~(ValueEnd(t, pos) <= Len(t))
    <3>1. \A p, i, m, l, y \in Nat : l = i + m + 1 /\ y < p + l - 2 => ~(p + i + m - 1 <= y)
      OBVIOUS
    <3>2. Header(r) \in Nat /\ Len(TlvRecord(r)) \in Nat
      BY <1>1, <1>2
    <3>3. ~(pos + Header(r) + Len(r.value) - 1 <= Len(t))
      BY <1>1, <1>2, <3>1, <3>2
    <3> QED
      BY <2>1, <3>3
  <2> QED
    BY <2>2 DEF Holds
<1> QED
  BY <1>4 DEF Holds

-----------------------------------------------------------------------------
(* Where the records of a stream begin                                      *)

At(rs, i) == Len(Stream(SubSeq(rs, 1, i - 1))) + 1

LEMMA StreamAppend ==
  ASSUME NEW rs \in Seq(TlvRecords), NEW r \in TlvRecords
  PROVE  Stream(Append(rs, r)) = Stream(rs) \o TlvRecord(r)
<1>1. <<r>> \in Seq(TlvRecords) /\ Append(rs, r) = rs \o <<r>>
  BY AppendIsConcat
<1> QED
  BY <1>1, StreamConcat, StreamOne

LEMMA AtFirst == \A rs \in Seq(TlvRecords) : At(rs, 1) = 1
<1>1. ASSUME NEW rs \in Seq(TlvRecords) PROVE SubSeq(rs, 1, 1 - 1) = <<>>
  BY SubSeqEmpty
<1>2. Stream(<<>>) = <<>>
  <2>1. Encoded(<<>>) = <<>>
    BY EncodedType, EmptySeq
  <2> QED
    BY <2>1, FlattenEmpty DEF Stream, Encoded
<1>3. Len(<<>>) = 0
  OBVIOUS
<1>4. 0 + 1 = 1
  OBVIOUS
<1>5. ASSUME NEW rs \in Seq(TlvRecords) PROVE At(rs, 1) = 1
  <2>1. Len(Stream(SubSeq(rs, 1, 1 - 1))) = 0
    BY <1>1, <1>2, <1>3, Zenon
  <2> QED
    BY <1>4, <2>1, Zenon DEF At
<1> QED
  BY <1>5, Zenon

LEMMA AtNext ==
  ASSUME NEW rs \in Seq(TlvRecords), NEW i \in 1..Len(rs)
  PROVE  /\ At(rs, i) \in Nat \ {0}
         /\ Len(TlvRecord(rs[i])) \in Nat
         /\ At(rs, i + 1) = At(rs, i) + Len(TlvRecord(rs[i]))
         /\ StandsAt(rs[i], Stream(SubSeq(rs, 1, i)), At(rs, i))
<1> DEFINE front == SubSeq(rs, 1, i - 1)
           c == TlvRecord(rs[i])
<1>1. Len(rs) \in Nat /\ i - 1 \in 0..Len(rs) - 1 /\ (i - 1) + 1 = i /\ (i + 1) - 1 = i
  BY LenProperties
<1>2. front \in Seq(TlvRecords) /\ SubSeq(rs, 1, i) = Append(front, rs[i])
  BY <1>1, PrefixAppend
<1>3. rs[i] \in TlvRecords /\ c \in Seq(Nat)
  BY <1>1, ElementOfSeq, TlvRecordType
<1>4. Stream(front) \in Seq(Nat)
  BY <1>2, StreamType
<1>5. Stream(SubSeq(rs, 1, i)) = Stream(front) \o c
  <2> HIDE DEF front, c
  <2>1. Stream(Append(front, rs[i])) = Stream(front) \o TlvRecord(rs[i])
    BY <1>2, <1>3, StreamAppend
  <2> QED
    BY <1>2, <2>1 DEF c
<1>6. Len(Stream(front)) \in Nat /\ Len(c) \in Nat
  BY <1>3, <1>4, LenProperties
<1>7. Joins(Stream(SubSeq(rs, 1, i)), Stream(front), c)
  BY <1>3, <1>4, <1>5, ConcatJoins
<1>8. At(rs, i) = Len(Stream(front)) + 1 /\ At(rs, i + 1) = Len(Stream(SubSeq(rs, 1, i))) + 1
  BY <1>1 DEF At
<1> HIDE DEF front, c
<1>9. StandsAt(rs[i], Stream(SubSeq(rs, 1, i)), At(rs, i))
  <2>1. \A j \in 1..Len(c) : At(rs, i) - 1 + j = Len(Stream(front)) + j
    BY <1>6, <1>8
  <2> QED
    BY <1>7, <2>1 DEF StandsAt, Joins, c
<1> QED
  BY <1>6, <1>7, <1>8, <1>9 DEF Joins, c

(* t is the beginning of s.                                                 *)
Begins(t, s) == Len(t) <= Len(s) /\ \A i \in 1..Len(t) : t[i] = s[i]

(* A record stands where it begins, in every beginning of the stream.       *)
LEMMA StandsInStream ==
  ASSUME NEW rs \in Seq(TlvRecords), NEW i \in 1..Len(rs),
         NEW t \in Seq(Nat), Begins(t, Stream(rs))
  PROVE  /\ At(rs, i + 1) <= Len(Stream(rs)) + 1
         /\ StandsAt(rs[i], t, At(rs, i))
<1> DEFINE a == Stream(SubSeq(rs, 1, i))
           b == Stream(SubSeq(rs, i + 1, Len(rs)))
<1>1. Len(rs) \in Nat /\ (i + 1) - 1 = i
  BY LenProperties
<1>2. /\ SubSeq(rs, 1, i) \in Seq(TlvRecords) /\ SubSeq(rs, i + 1, Len(rs)) \in Seq(TlvRecords)
      /\ rs = SubSeq(rs, 1, i) \o SubSeq(rs, i + 1, Len(rs))
  <2>1. \A j \in 1..Len(rs) : rs[j] \in TlvRecords
    BY ElementOfSeq
  <2>2. SubSeq(rs, 1, i) \in Seq(TlvRecords)
    <3>1. \A j \in 1..i : rs[j] \in TlvRecords
      BY <1>1, <2>1
    <3> QED
      BY <1>1, <3>1, SubSeqProperties
  <2>3. SubSeq(rs, i + 1, Len(rs)) \in Seq(TlvRecords)
    <3>1. \A j \in i + 1..Len(rs) : rs[j] \in TlvRecords
      BY <1>1, <2>1
    <3> QED
      BY <1>1, <3>1, SubSeqProperties
  <2>4. rs = SubSeq(rs, 1, i) \o SubSeq(rs, i + 1, Len(rs))
    <3>1. SubSeq(rs, 1, Len(rs)) = rs
      BY SubSeqFull
    <3>2. 1 \in 1..Len(rs) + 1 /\ i \in 1 - 1..Len(rs) /\ Len(rs) \in i..Len(rs)
      BY <1>1
    <3> QED
      BY <3>1, <3>2, ConcatAdjacentSubSeq, Zenon
  <2> QED
    BY <2>2, <2>3, <2>4
<1>3. a \in Seq(Nat) /\ b \in Seq(Nat)
  BY <1>2, StreamType
<1>4. Stream(rs) = a \o b
  <2> DEFINE p == SubSeq(rs, 1, i)
             q == SubSeq(rs, i + 1, Len(rs))
  <2>1. p \in Seq(TlvRecords) /\ q \in Seq(TlvRecords) /\ rs = p \o q
    BY <1>2
  <2> HIDE DEF p, q
  <2>2. Stream(p \o q) = Stream(p) \o Stream(q)
    BY <2>1, StreamConcat
  <2>3. Stream(rs) = Stream(p) \o Stream(q)
    BY <2>1, <2>2
  <2> QED
    BY <2>3 DEF p, q
<1>5. Joins(Stream(rs), a, b)
  BY <1>3, <1>4, ConcatJoins
<1>6. Len(a) \in Nat /\ Len(b) \in Nat /\ At(rs, i + 1) = Len(a) + 1
  BY <1>1, <1>3, LenProperties DEF At
<1>7. /\ At(rs, i) \in Nat \ {0}
      /\ Len(TlvRecord(rs[i])) \in Nat
      /\ At(rs, i + 1) = At(rs, i) + Len(TlvRecord(rs[i]))
      /\ StandsAt(rs[i], a, At(rs, i))
  BY AtNext
<1> HIDE DEF a, b
<1>8. At(rs, i + 1) <= Len(Stream(rs)) + 1
  BY <1>5, <1>6 DEF Joins
<1>9. ASSUME NEW j \in 1..Len(TlvRecord(rs[i])), At(rs, i) - 1 + j <= Len(t)
      PROVE  t[At(rs, i) - 1 + j] = TlvRecord(rs[i])[j]
  <2>1. At(rs, i) - 1 + j \in 1..Len(a)
    BY <1>6, <1>7
  <2>2. At(rs, i) - 1 + j \in 1..Len(t)
    <3>1. \A p, m \in Nat \ {0}, l \in Nat : (p - 1) + m <= l => (p - 1) + m \in 1..l
      OBVIOUS
    <3>2. At(rs, i) \in Nat \ {0} /\ j \in Nat \ {0} /\ Len(t) \in Nat
      BY <1>7, LenProperties
    <3> QED
      BY <1>9, <3>1, <3>2
  <2>3. t[At(rs, i) - 1 + j] = a[At(rs, i) - 1 + j]
    BY <1>5, <2>1, <2>2 DEF Begins, Joins
  <2> QED
    BY <1>7, <1>6, <2>1, <2>3 DEF StandsAt
<1> QED
  BY <1>8, <1>9 DEF StandsAt

LEMMA AtIsMonotonic ==
  ASSUME NEW rs \in Seq(TlvRecords), NEW m \in 1..Len(rs) + 1
  PROVE  \A i \in 1..m : At(rs, i) <= At(rs, m)
<1> DEFINE S == {i \in 1..m : At(rs, i) <= At(rs, m)}
<1>1. Len(rs) \in Nat /\ m \in Nat /\ 1 \in Nat /\ 1 <= m
  BY LenProperties
<1>2. At(rs, m) \in Nat
  <2>1. CASE m \in 1..Len(rs)
    BY <2>1, AtNext
  <2>2. CASE m = Len(rs) + 1
    <3>1. SubSeq(rs, 1, m - 1) = rs
      <4>1. m - 1 = Len(rs)
        BY <1>1, <2>2
      <4> QED
        BY <4>1, SubSeqFull
    <3>2. Len(Stream(rs)) \in Nat
      BY StreamType, LenProperties
    <3> QED
      BY <3>1, <3>2 DEF At
  <2> QED
    BY <1>1, <2>1, <2>2
<1>3. m \in S
  BY <1>1, <1>2
<1>4. ASSUME NEW i \in 1..m - 1, i + 1 \in S
      PROVE  i \in S
  <2>1. i \in 1..Len(rs) /\ i \in 1..m
    BY <1>1
  <2>2. /\ At(rs, i) \in Nat \ {0} /\ Len(TlvRecord(rs[i])) \in Nat
        /\ At(rs, i + 1) = At(rs, i) + Len(TlvRecord(rs[i]))
    BY <2>1, AtNext
  <2>3. At(rs, i + 1) <= At(rs, m)
    BY <1>4
  <2> QED
    BY <1>2, <2>1, <2>2, <2>3
<1>5. \A i \in 1..m : i \in S
  <2> HIDE DEF S
  <2> QED
    BY <1>1, <1>3, <1>4, DownFrom
<1> QED
  BY <1>5

-----------------------------------------------------------------------------
(* The walk over a stream, and over the beginning of one                    *)

Terminated(front) == Append(front, Rec(Terminator, <<>>))

NoTerminator(front) == \A i \in 1..Len(front) : front[i].tag # Terminator

LEMMA RecordsReplaced ==
  ASSUME NEW w, NEW q, NEW r, NEW x, w = [records |-> q, status |-> x]
  PROVE  /\ w.records = q
         /\ [w EXCEPT !.records = r] = [records |-> r, status |-> x]
OBVIOUS

LEMMA TerminatorCells ==
  /\ Rec(Terminator, <<>>) \in TlvRecords
  /\ Len(TlvRecord(Rec(Terminator, <<>>))) = 3
  /\ TlvRecord(Rec(Terminator, <<>>))[1] = Terminator
  /\ TlvRecord(Rec(Terminator, <<>>))[3] = Terminator
<1> DEFINE r == Rec(Terminator, <<>>)
<1>1. r \in TlvRecords /\ r.tag = Terminator /\ Len(r.value) = 0
  BY DEF Rec, Terminator, TlvRecords
<1> HIDE DEF r
<1>2. Header(r) = 2
  BY <1>1, WireAssumption, FollowsIsNat DEF Header
<1>3. /\ Len(TlvRecord(r)) = Header(r) + Len(r.value) + 1
      /\ TlvRecord(r)[1] = r.tag
      /\ TlvRecord(r)[Header(r) + Len(r.value) + 1] = r.tag
  BY <1>1, TlvCells
<1>4. 2 + 0 + 1 = 3
  OBVIOUS
<1>5. r \in TlvRecords /\ Len(TlvRecord(r)) = 3
      /\ TlvRecord(r)[1] = Terminator /\ TlvRecord(r)[3] = Terminator
  BY <1>1, <1>2, <1>3, <1>4
<1> QED
  BY <1>5 DEF r

LEMMA TerminatedRecords ==
  ASSUME NEW front \in Seq(TlvRecords)
  PROVE  /\ Terminated(front) \in Seq(TlvRecords)
         /\ Len(Terminated(front)) = Len(front) + 1
         /\ \A i \in 1..Len(front) : Terminated(front)[i] = front[i]
         /\ Terminated(front)[Len(front) + 1] = Rec(Terminator, <<>>)
BY TerminatorCells, AppendProperties, LenProperties DEF Terminated

(* The terminator is the last thing in the stream.                          *)
LEMMA TerminatorStands ==
  ASSUME NEW front \in Seq(TlvRecords), NEW rs, rs = Terminated(front),
         NEW t \in Seq(Nat), Begins(t, Stream(rs))
  PROVE  /\ At(rs, Len(front) + 1) \in Nat \ {0}
         /\ Len(Stream(rs)) = At(rs, Len(front) + 1) + 2
         /\ \A j \in {1, 3} : At(rs, Len(front) + 1) - 1 + j <= Len(t) =>
              t[At(rs, Len(front) + 1) - 1 + j] = Terminator
<1> DEFINE n == Len(front)
<1>1. n \in Nat
  BY LenProperties
<1>2. rs \in Seq(TlvRecords) /\ Len(rs) = n + 1 /\ rs[n + 1] = Rec(Terminator, <<>>)
  BY TerminatedRecords
<1> HIDE DEF n
<1>3. n + 1 \in 1..Len(rs) /\ ((n + 1) + 1) - 1 = Len(rs)
  BY <1>1, <1>2
<1>4. /\ At(rs, n + 1) \in Nat \ {0}
      /\ At(rs, (n + 1) + 1) = At(rs, n + 1) + 3
  BY <1>2, <1>3, AtNext, TerminatorCells
<1>5. At(rs, (n + 1) + 1) = Len(Stream(rs)) + 1
  BY <1>2, <1>3, SubSeqFull, Zenon DEF At
<1>6. Len(Stream(rs)) \in Nat
  BY <1>2, StreamType, LenProperties
<1>7. Len(Stream(rs)) = At(rs, n + 1) + 2
  BY <1>4, <1>5, <1>6
<1>8. StandsAt(Rec(Terminator, <<>>), t, At(rs, n + 1))
  BY <1>2, <1>3, StandsInStream
<1>9. ASSUME NEW j \in {1, 3}, At(rs, n + 1) - 1 + j <= Len(t)
      PROVE  t[At(rs, n + 1) - 1 + j] = Terminator
  <2>1. j \in 1..3 /\ TlvRecord(Rec(Terminator, <<>>))[j] = Terminator
    BY TerminatorCells
  <2> QED
    BY <1>8, <1>9, <2>1, TerminatorCells DEF StandsAt
<1> QED
  BY <1>4, <1>7, <1>9 DEF n

(* The records are read back as they were written, and the reader knows it, *)
(* be it with the terminator's own closing tag or without.                  *)
LEMMA WalkedToEnd ==
  ASSUME NEW front \in Seq(TlvRecords), NoTerminator(front),
         NEW rs, rs = Terminated(front),
         NEW t \in Seq(Nat), Begins(t, Stream(rs)), Len(Stream(rs)) - 1 <= Len(t)
  PROVE  Walk(t)[1] = [records |-> front, status |-> "complete"]
<1> DEFINE n == Len(front)
           S == {i \in 1..n + 1 : Walk(t)[At(rs, i)] =
                                    [records |-> SubSeq(front, i, n), status |-> "complete"]}
<1>1. n \in Nat /\ Len(t) \in Nat /\ Cells(t)
  BY LenProperties, SeqIsCells
<1>2. /\ rs \in Seq(TlvRecords) /\ Len(rs) = n + 1
      /\ \A i \in 1..n : rs[i] = front[i] /\ rs[i] \in TlvRecords
  BY TerminatedRecords, ElementOfSeq
<1>3. /\ At(rs, n + 1) \in Nat \ {0}
      /\ Len(Stream(rs)) = At(rs, n + 1) + 2
      /\ \A j \in {1, 3} : At(rs, n + 1) - 1 + j <= Len(t) =>
           t[At(rs, n + 1) - 1 + j] = Terminator
  BY TerminatorStands
<1>4. At(rs, n + 1) < Len(t)
  BY <1>1, <1>3
<1>5. n + 1 \in S
  <2>1. t[At(rs, n + 1)] = Terminator
    <3>1. At(rs, n + 1) - 1 + 1 = At(rs, n + 1) /\ At(rs, n + 1) <= Len(t)
      BY <1>1, <1>3, <1>4
    <3> QED
      BY <1>3, <3>1
  <2>2. At(rs, n + 1) \in 1..Len(t) + 1
    <3>1. \A a \in Nat \ {0}, l \in Nat : a < l => a \in 1..l + 1
      OBVIOUS
    <3>2. At(rs, n + 1) \in Nat \ {0} /\ Len(t) \in Nat
      BY <1>1, <1>3
    <3> HIDE DEF n, S
    <3> QED
      BY <1>4, <3>1, <3>2
  <2>3. Walk(t)[At(rs, n + 1)] = [records |-> <<>>, status |-> "complete"]
    BY <1>4, <2>1, <2>2, WalkAt
  <2>4. SubSeq(front, n + 1, n) = <<>>
    BY <1>1, SubSeqEmpty
  <2>5. n + 1 \in 1..n + 1
    BY <1>1
  <2> QED
    BY <2>3, <2>4, <2>5
<1>6. ASSUME NEW i \in 1..(n + 1) - 1, i + 1 \in S
      PROVE  i \in S
  <2>1. i \in 1..n /\ i \in 1..Len(rs) /\ i \in 1..n + 1
    BY <1>1, <1>2
  <2>2. /\ At(rs, i) \in Nat \ {0} /\ Len(TlvRecord(rs[i])) \in Nat
        /\ At(rs, i + 1) = At(rs, i) + Len(TlvRecord(rs[i]))
    BY <1>2, <2>1, AtNext
  <2>3. StandsAt(rs[i], t, At(rs, i))
    BY <1>2, <2>1, StandsInStream
  <2>4. At(rs, i + 1) <= At(rs, n + 1)
    <3>1. n + 1 \in 1..Len(rs) + 1 /\ i + 1 \in 1..n + 1
      BY <1>1, <1>2, <2>1
    <3> QED
      BY <1>2, <3>1, AtIsMonotonic, Zenon
  <2>5. /\ At(rs, i) + Len(TlvRecord(rs[i])) - 1 <= Len(t)
        /\ At(rs, i) + Len(TlvRecord(rs[i])) - 2 <= Len(t)
    <3>1. \A p, l, q, e, m \in Nat : q = p + l /\ q <= e /\ e < m =>
            p + l - 1 <= m /\ p + l - 2 <= m
      OBVIOUS
    <3>2. At(rs, i) \in Nat /\ At(rs, i + 1) \in Nat /\ At(rs, n + 1) \in Nat
      <4>1. \A p, l \in Nat : p + l \in Nat
        OBVIOUS
      <4> QED
        BY <1>3, <2>2, <4>1, Zenon
    <3> QED
      BY <1>1, <1>4, <2>2, <2>4, <3>1, <3>2, Zenon
  <2>6. /\ At(rs, i) < Len(t) /\ Holds(t, At(rs, i))
        /\ RecordAt(t, At(rs, i)) = rs[i]
        /\ NextAt(t, At(rs, i)) = At(rs, i) + Len(TlvRecord(rs[i]))
    BY <1>1, <1>2, <2>1, <2>2, <2>3, <2>5, RecordWalked
  <2>7. t[At(rs, i)] # Terminator
    <3>1. t[At(rs, i)] = rs[i].tag
      BY <1>1, <1>2, <2>1, <2>2, <2>3, <2>6, StandingCells
    <3> QED
      BY <1>2, <2>1, <3>1 DEF NoTerminator
  <2>8. At(rs, i) \in 1..Len(t) + 1
    BY <1>1, <2>2, <2>6
  <2>9. Walk(t)[At(rs, i)] = [Walk(t)[NextAt(t, At(rs, i))] EXCEPT
                                !.records = <<RecordAt(t, At(rs, i))>> \o @]
    BY <2>6, <2>7, <2>8, WalkAt
  <2>10. Walk(t)[NextAt(t, At(rs, i))] =
           [records |-> SubSeq(front, i + 1, n), status |-> "complete"]
    BY <1>6, <2>2, <2>6
  <2>11. Walk(t)[At(rs, i)] =
           [records |-> <<front[i]>> \o SubSeq(front, i + 1, n), status |-> "complete"]
    <3>1. <<RecordAt(t, At(rs, i))>> = <<front[i]>>
      BY <1>2, <2>1, <2>6, Zenon
    <3>2. PICK w : w = Walk(t)[NextAt(t, At(rs, i))]
      OBVIOUS
    <3>3. w = [records |-> SubSeq(front, i + 1, n), status |-> "complete"]
      BY <2>10, <3>2, Zenon
    <3>4. Walk(t)[At(rs, i)] = [w EXCEPT !.records = <<front[i]>> \o w.records]
      BY <2>9, <3>1, <3>2, Zenon
    <3>5. Walk(t)[At(rs, i)] = [records |-> <<front[i]>> \o w.records, status |-> "complete"]
      BY <3>3, <3>4, RecordsReplaced, Zenon
    <3>6. w.records = SubSeq(front, i + 1, n)
      BY <3>3, RecordsReplaced, Zenon
    <3> QED
      BY <3>5, <3>6, Zenon
  <2>12. SubSeq(front, i, n) = <<front[i]>> \o SubSeq(front, i + 1, n)
    BY <1>1, <2>1, SubSeqRecursiveFirst
  <2> QED
    BY <2>1, <2>11, <2>12
<1>7. \A i \in 1..n + 1 : i \in S
  <2>1. n + 1 \in Nat /\ 1 \in Nat /\ 1 <= n + 1
    BY <1>1
  <2> HIDE DEF S, n
  <2> QED
    BY <1>5, <1>6, <2>1, DownFrom
<1>8. 1 \in S
  <2>1. 1 \in 1..n + 1
    BY <1>1
  <2> HIDE DEF S, n
  <2> QED
    BY <1>7, <2>1
<1>9. Walk(t)[1] = [records |-> SubSeq(front, 1, n), status |-> "complete"]
  BY <1>2, <1>8, AtFirst
<1> QED
  BY <1>9, SubSeqFull

(* A stream is read back record by record as it was written, however long   *)
(* its values are and whatever tags or terminators they hold, and its       *)
(* status is "complete" (invoke.py: tlv_stream_status, _parse_tlv_stream).  *)
THEOREM RecordsReadBack ==
  ASSUME NEW front \in Seq(TlvRecords), NoTerminator(front)
  PROVE  /\ Records(Stream(Terminated(front))) = front
         /\ Status(Stream(Terminated(front))) = "complete"
<1> DEFINE rs == Terminated(front)
<1>1. rs \in Seq(TlvRecords)
  BY TerminatedRecords, Zenon
<1>2. Stream(rs) \in Seq(Nat)
  BY <1>1, StreamType, Zenon
<1>3. PICK t : t = Stream(rs)
  OBVIOUS
<1>4. t \in Seq(Nat) /\ Len(t) \in Nat
  BY <1>2, <1>3, LenProperties, Zenon
<1>5. Begins(t, Stream(rs))
  BY <1>3, <1>4 DEF Begins
<1>6. Len(Stream(rs)) - 1 <= Len(t)
  BY <1>3, <1>4
<1>7. Walk(t)[1] = [records |-> front, status |-> "complete"]
  BY <1>4, <1>5, <1>6, WalkedToEnd
<1> QED
  BY <1>3, <1>7 DEF Records, Status

(* A walk that has met neither a terminator nor what is no TLV.             *)
Cut(w) == \E q : w = [records |-> q, status |-> "truncated"]

LEMMA CutFellOff ==
  ASSUME NEW t \in Seq(Nat), NEW pos \in 2..Len(t) + 1, pos >= Len(t)
  PROVE  Cut(Walk(t)[pos])
<1>1. pos \in 1..Len(t) + 1 /\ pos # 1
  OBVIOUS
<1>2. Walk(t)[pos] = [records |-> <<>>, status |-> FellOff(pos, FALSE)]
  BY <1>1, WalkAt
<1>3. FellOff(pos, FALSE) = "truncated"
  BY <1>1 DEF FellOff
<1> QED
  BY <1>2, <1>3 DEF Cut

LEMMA CutAt ==
  ASSUME NEW t \in Seq(Nat), 2 <= Len(t), NEW pos \in 1..Len(t) + 1,
         NEW r \in TlvRecords, StandsAt(r, t, pos), r.tag # Terminator,
         pos # 1 \/ pos + Len(TlvRecord(r)) - 2 <= Len(t),
         pos + Len(TlvRecord(r)) <= Len(t) + 1 => Cut(Walk(t)[pos + Len(TlvRecord(r))])
  PROVE  Cut(Walk(t)[pos])
<1>1. Len(t) \in Nat /\ pos \in Nat \ {0} /\ Cells(t)
  BY LenProperties, SeqIsCells
<1>2. Len(TlvRecord(r)) \in Nat
  BY TlvRecordType, LenProperties
<1>3. CASE pos >= Len(t)
  <2>1. pos \in 2..Len(t) + 1
    BY <1>1, <1>3
  <2> QED
    BY <1>3, <2>1, CutFellOff
<1>4. CASE pos < Len(t) /\ ~Holds(t, pos)
  <2>1. t[pos] # Terminator
    BY <1>1, <1>4, StandingCells
  <2>2. ~(pos + Len(TlvRecord(r)) - 2 <= Len(t))
    BY <1>1, <1>4, RecordWalked
  <2>3. Walk(t)[pos] = [records |-> <<>>, status |-> FellOff(pos, TRUE)]
    BY <1>4, <2>1, WalkAt
  <2>4. FellOff(pos, TRUE) = "truncated"
    BY <2>2 DEF FellOff
  <2> QED
    BY <2>3, <2>4 DEF Cut
<1>5. CASE pos < Len(t) /\ Holds(t, pos)
  <2>1. t[pos] # Terminator
    BY <1>1, <1>5, StandingCells
  <2>2. Walk(t)[pos] = [Walk(t)[NextAt(t, pos)] EXCEPT !.records = <<RecordAt(t, pos)>> \o @]
    BY <1>5, <2>1, WalkAt
  <2>3. ~(Len(t) < pos + Len(TlvRecord(r)) - 2)
    BY <1>1, <1>5, RecordCutOff
  <2>4. pos + Len(TlvRecord(r)) - 2 <= Len(t)
    BY <1>1, <1>2, <2>3
  <2>5. Cut(Walk(t)[NextAt(t, pos)])
    <3>1. CASE pos + Len(TlvRecord(r)) - 2 = Len(t)
      <4>1. NextAt(t, pos) = Len(t) + 1
        BY <1>1, <2>4, <3>1, RecordWalked
      <4>2. Len(t) + 1 \in 2..Len(t) + 1 /\ Len(t) + 1 >= Len(t)
        BY <1>1
      <4> QED
        BY <4>1, <4>2, CutFellOff
    <3>2. CASE pos + Len(TlvRecord(r)) - 2 # Len(t)
      <4>1. pos + Len(TlvRecord(r)) - 1 <= Len(t) /\ pos + Len(TlvRecord(r)) <= Len(t) + 1
        <5>1. \A p, l, m \in Nat : p + l - 2 <= m /\ p + l - 2 # m =>
                p + l - 1 <= m /\ p + l <= m + 1
          OBVIOUS
        <5> QED
          BY <1>1, <1>2, <2>4, <3>2, <5>1
      <4>2. NextAt(t, pos) = pos + Len(TlvRecord(r))
        BY <1>1, <2>4, <4>1, RecordWalked
      <4> QED
        BY <4>1, <4>2
    <3> QED
      BY <3>1, <3>2
  <2>6. PICK w : w = Walk(t)[NextAt(t, pos)]
    OBVIOUS
  <2>7. PICK q : w = [records |-> q, status |-> "truncated"]
    BY <2>5, <2>6 DEF Cut
  <2>8. Walk(t)[pos] = [w EXCEPT !.records = <<RecordAt(t, pos)>> \o w.records]
    BY <2>2, <2>6, Zenon
  <2>9. Walk(t)[pos] = [records |-> <<RecordAt(t, pos)>> \o w.records, status |-> "truncated"]
    BY <2>7, <2>8, RecordsReplaced, Zenon
  <2> QED
    BY <2>9, Zenon DEF Cut
<1> QED
  BY <1>1, <1>3, <1>4, <1>5

(* Cut before the terminator is complete, the stream is cut off to a reader.*)
LEMMA WalkedCut ==
  ASSUME NEW front \in Seq(TlvRecords), NoTerminator(front),
         front # <<>>, front[1].value = <<>>,
         NEW rs, rs = Terminated(front),
         NEW t \in Seq(Nat), Begins(t, Stream(rs)), 2 <= Len(t), Len(t) < Len(Stream(rs)) - 1
  PROVE  Cut(Walk(t)[1])
<1> DEFINE n == Len(front)
           S == {i \in 1..n + 1 : At(rs, i) <= Len(t) + 1 => Cut(Walk(t)[At(rs, i)])}
<1>1. n \in Nat \ {0} /\ Len(t) \in Nat
  BY LenProperties, EmptySeq
<1>2. /\ rs \in Seq(TlvRecords) /\ Len(rs) = n + 1
      /\ \A i \in 1..n : rs[i] = front[i] /\ rs[i] \in TlvRecords
  BY TerminatedRecords, ElementOfSeq
<1>3. /\ At(rs, n + 1) \in Nat \ {0}
      /\ Len(Stream(rs)) = At(rs, n + 1) + 2
  BY TerminatorStands
<1>4. At(rs, 1) = 1 /\ Len(TlvRecord(rs[1])) = 3
  <2>1. 1 \in 1..n /\ rs[1] \in TlvRecords /\ rs[1].value = <<>>
    BY <1>1, <1>2
  <2>2. Len(rs[1].value) = 0
    BY <2>1
  <2>3. Header(rs[1]) = 2
    BY <2>2, WireAssumption, FollowsIsNat DEF Header
  <2>4. Len(TlvRecord(rs[1])) = Header(rs[1]) + Len(rs[1].value) + 1
    BY <2>1, TlvCells
  <2>5. 2 + 0 + 1 = 3
    OBVIOUS
  <2>6. Len(TlvRecord(rs[1])) = 3
    BY <2>2, <2>3, <2>4, <2>5, Zenon
  <2> QED
    BY <1>2, <2>6, AtFirst
<1>5. ASSUME NEW i \in 2..n + 1
      PROVE  At(rs, i) # 1 /\ At(rs, i) \in Nat
  <2>1. i \in 1..Len(rs) /\ 2 \in 1..i /\ i \in 1..Len(rs) + 1 /\ 1 \in 1..Len(rs)
    BY <1>1, <1>2
  <2>2. At(rs, 2) = 1 + 3
    <3>1. 1 + 1 = 2
      OBVIOUS
    <3> QED
      BY <1>2, <1>4, <2>1, <3>1, AtNext
  <2>3. At(rs, 2) <= At(rs, i) /\ At(rs, i) \in Nat
    BY <1>2, <2>1, AtIsMonotonic, AtNext
  <2> QED
    BY <2>2, <2>3
<1>6. n + 1 \in S
  <2>1. n + 1 \in 2..n + 1
    BY <1>1
  <2>2. At(rs, n + 1) >= Len(t)
    BY <1>1, <1>3
  <2>3. At(rs, n + 1) <= Len(t) + 1 => At(rs, n + 1) \in 2..Len(t) + 1
    BY <1>1, <1>3, <1>5, <2>1
  <2>4. At(rs, n + 1) <= Len(t) + 1 => Cut(Walk(t)[At(rs, n + 1)])
    BY <2>2, <2>3, CutFellOff
  <2> QED
    BY <2>1, <2>4
<1>7. ASSUME NEW i \in 1..(n + 1) - 1, i + 1 \in S
      PROVE  i \in S
  <2>1. i \in 1..n /\ i \in 1..Len(rs) /\ i \in 1..n + 1
    BY <1>1, <1>2
  <2>2. /\ At(rs, i) \in Nat \ {0} /\ Len(TlvRecord(rs[i])) \in Nat
        /\ At(rs, i + 1) = At(rs, i) + Len(TlvRecord(rs[i]))
    BY <1>2, <2>1, AtNext
  <2>3. StandsAt(rs[i], t, At(rs, i))
    BY <1>2, <2>1, StandsInStream
  <2>4. rs[i] \in TlvRecords /\ rs[i].tag # Terminator
    BY <1>2, <2>1 DEF NoTerminator
  <2>5. At(rs, i) # 1 \/ At(rs, i) + Len(TlvRecord(rs[i])) - 2 <= Len(t)
    <3>1. CASE i = 1
      <4>1. At(rs, i) + Len(TlvRecord(rs[i])) - 2 = 2
        <5>1. 1 + 3 - 2 = 2
          OBVIOUS
        <5> QED
          BY <1>4, <3>1, <5>1, Zenon
      <4> QED
        BY <4>1
    <3>2. CASE i # 1
      <4>1. i \in 2..n + 1
        BY <1>1, <2>1, <3>2
      <4> QED
        BY <1>5, <4>1
    <3> QED
      BY <3>1, <3>2
  <2>6. At(rs, i) + Len(TlvRecord(rs[i])) <= Len(t) + 1 =>
          Cut(Walk(t)[At(rs, i) + Len(TlvRecord(rs[i]))])
    BY <1>7, <2>2
  <2>7. ASSUME At(rs, i) <= Len(t) + 1 PROVE Cut(Walk(t)[At(rs, i)])
    <3>1. At(rs, i) \in 1..Len(t) + 1
      BY <1>1, <2>2, <2>7
    <3> QED
      BY <2>3, <2>4, <2>5, <2>6, <3>1, CutAt
  <2> QED
    BY <2>1, <2>7
<1>8. \A i \in 1..n + 1 : i \in S
  <2>1. n + 1 \in Nat /\ 1 \in Nat /\ 1 <= n + 1
    BY <1>1
  <2> HIDE DEF S, n
  <2> QED
    BY <1>6, <1>7, <2>1, DownFrom
<1>9. 1 \in S
  <2>1. 1 \in 1..n + 1
    BY <1>1
  <2> HIDE DEF S, n
  <2> QED
    BY <1>8, <2>1
<1>10. 1 <= Len(t) + 1
  BY <1>1
<1> QED
  BY <1>4, <1>9, <1>10

-----------------------------------------------------------------------------
(* What a reply is made of                                                  *)

Fields == [name : Nat \ {0}, direction : Directions, table : BOOLEAN]

Rows == Seq([1..RowSize -> Nat])

PlainRecords == {r \in TlvRecords : r.tag # Terminator}

LEMMA TagsArePlain ==
  {FuncName, ParamName, ParamValue, ExportDecl, TableName, TableInfo, TableContent, TableRow,
   TableEnd, DmTableId, TableDelta, TableDeltaEnd, ReturnCode, ResponseStart, CallStart,
   ParamSection} \subseteq Nat \ {Terminator}
BY DEF FuncName, ParamName, ParamValue, ExportDecl, TableName, TableInfo, TableContent,
       TableRow, TableEnd, DmTableId, TableDelta, TableDeltaEnd, ReturnCode, ResponseStart,
       CallStart, ParamSection, Terminator

LEMMA RecIsPlain ==
  ASSUME NEW tag \in Nat \ {Terminator}, NEW value \in Seq(Nat)
  PROVE  Rec(tag, value) \in PlainRecords
BY DEF Rec, PlainRecords, TlvRecords

LEMMA PlainSequence ==
  ASSUME NEW rs \in Seq(PlainRecords)
  PROVE  rs \in Seq(TlvRecords) /\ NoTerminator(rs)
<1>1. PlainRecords \subseteq TlvRecords
  BY DEF PlainRecords
<1>2. \A i \in 1..Len(rs) : rs[i] \in PlainRecords
  BY ElementOfSeq
<1> QED
  BY <1>1, <1>2, SeqMonotonic DEF NoTerminator, PlainRecords

(* A function of the fields of d makes a sequence of as many.               *)
LEMMA BlocksType ==
  ASSUME NEW X, NEW F, NEW d \in Seq(F), NEW b, DOMAIN b = DOMAIN d,
         \A i \in 1..Len(d) : b[i] \in X, b = [i \in DOMAIN d |-> b[i]]
  PROVE  b \in Seq(X) /\ Len(b) = Len(d)
<1>1. Len(d) \in Nat /\ DOMAIN d = 1..Len(d)
  BY LenProperties
<1>2. b \in [1..Len(d) -> X]
  BY <1>1
<1> QED
  BY <1>1, <1>2, FunctionIsSeq

LEMMA FieldOf ==
  ASSUME NEW d \in Seq(Fields), NEW i \in 1..Len(d)
  PROVE  /\ i \in DOMAIN d /\ d[i] \in Fields
         /\ d[i].name \in Nat \ {0} /\ d[i].direction \in Directions /\ d[i].table \in BOOLEAN
<1>1. d[i] \in Fields
  BY ElementOfSeq
<1>2. i \in DOMAIN d
  BY LenProperties
<1> QED
  BY <1>1, <1>2 DEF Fields

LEMMA IdsType ==
  ASSUME NEW d \in Seq(Fields), NEW p
  PROVE  DmTableIds(d, p) \in Seq(Nat)
<1> DEFINE b == [i \in DOMAIN d |-> IF SentWithRows(d[i], p) THEN <<d[i].name>> ELSE <<>>]
<1>1. \A i \in 1..Len(d) : b[i] \in Seq(Nat)
  <2> TAKE i \in 1..Len(d)
  <2>1. d[i].name \in Nat /\ i \in DOMAIN d
    BY FieldOf
  <2>2. <<d[i].name>> \in Seq(Nat) /\ <<>> \in Seq(Nat)
    BY <2>1
  <2> QED
    BY <2>1, <2>2
<1>2. DOMAIN b = DOMAIN d /\ b = [i \in DOMAIN d |-> b[i]]
  OBVIOUS
<1>3. DmTableIds(d, p) = FlattenSeq(b)
  BY DEF DmTableIds
<1> HIDE DEF b
<1>4. b \in Seq(Seq(Nat))
  BY <1>1, <1>2, BlocksType, Zenon
<1> QED
  BY <1>3, <1>4, FlattenType

LEMMA RowIsCells ==
  ASSUME NEW row \in [1..RowSize -> Nat]
  PROVE  row \in Seq(Nat) /\ Len(row) = RowSize
BY WireAssumption, FunctionIsSeq

LEMMA RowRecordsType ==
  ASSUME NEW tag \in Nat \ {Terminator}, NEW rows \in Rows
  PROVE  /\ RowRecords(tag, rows) \in Seq(PlainRecords)
         /\ Len(RowRecords(tag, rows)) = Len(rows)
         /\ \A i \in 1..Len(rows) : RowRecords(tag, rows)[i] = Rec(tag, rows[i])
<1>1. Len(rows) \in Nat /\ DOMAIN rows = 1..Len(rows)
  BY LenProperties DEF Rows
<1>2. \A i \in 1..Len(rows) : Rec(tag, rows[i]) \in PlainRecords
  <2> TAKE i \in 1..Len(rows)
  <2>1. rows[i] \in [1..RowSize -> Nat]
    BY ElementOfSeq DEF Rows
  <2> QED
    BY <2>1, RowIsCells, RecIsPlain
<1>3. RowRecords(tag, rows) \in [1..Len(rows) -> PlainRecords]
  BY <1>1, <1>2 DEF RowRecords
<1> QED
  BY <1>1, <1>3, FunctionIsSeq DEF RowRecords

LEMMA WiderType ==
  ASSUME NEW row \in [1..RowSize -> Nat]
  PROVE  /\ Wider(row) \in Seq(Nat) /\ Len(Wider(row)) = RowSize + Padding
         /\ \A i \in 1..RowSize : Wider(row)[i] = row[i]
<1> DEFINE z == [i \in 1..Padding |-> 0]
<1>1. RowSize \in Nat /\ Padding \in Nat
  BY WireAssumption
<1>2. z \in Seq(Nat) /\ Len(z) = Padding
  <2>1. z \in [1..Padding -> Nat]
    OBVIOUS
  <2> HIDE DEF z
  <2> QED
    BY <1>1, <2>1, FunctionIsSeq
<1> HIDE DEF z
<1>3. row \in Seq(Nat) /\ Len(row) = RowSize
  BY RowIsCells
<1>4. row \o z \in Seq(Nat) /\ Joins(row \o z, row, z)
  BY <1>2, <1>3, ConcatJoins
<1>5. Wider(row) = row \o z
  BY DEF Wider, z
<1> QED
  BY <1>2, <1>3, <1>4, <1>5 DEF Joins

LEMMA OneRecord ==
  ASSUME NEW r \in PlainRecords
  PROVE  <<r>> \in Seq(PlainRecords)
OBVIOUS

LEMMA TwoRecords ==
  ASSUME NEW r \in PlainRecords, NEW q \in PlainRecords
  PROVE  <<r, q>> \in Seq(PlainRecords)
OBVIOUS

LEMMA ScalarType ==
  ASSUME NEW f \in Fields, NEW value \in Seq(Nat)
  PROVE  Scalar(f, value) \in Seq(PlainRecords)
<1>1. f.name \in Nat
  BY DEF Fields
<1>2. <<f.name>> \in Seq(Nat)
  BY <1>1
<1>3. Rec(ParamName, <<f.name>>) \in PlainRecords /\ Rec(ParamValue, value) \in PlainRecords
  BY <1>2, TagsArePlain, RecIsPlain
<1> QED
  BY <1>3, TwoRecords DEF Scalar

(* The three ways a table comes back, as TableReply writes them.            *)
WiderRows(rows) == [i \in DOMAIN rows |-> Wider(rows[i])]

NamedTable(f, rows) ==
  <<Rec(ParamName, <<f.name>>), Rec(TableName, <<>>),
    Rec(TableInfo, <<RowSize + Padding, Len(rows)>>),
    Rec(TableContent, FlattenSeq(WiderRows(rows))), Rec(TableEnd, <<>>)>>

DeltaTable(rows, id) ==
  <<Rec(TableDelta, <<3, id, Len(rows)>>), Rec(TableInfo, <<RowSize, Len(rows)>>)>>
  \o RowRecords(TableContent, rows) \o <<Rec(TableDeltaEnd, <<>>)>>

PlainTable(f, rows) ==
  <<Rec(TableName, <<f.name>>)>>
  \o IF rows = <<>> THEN <<>>
     ELSE <<Rec(DmTableId, <<1>>), Rec(TableInfo, <<RowSize, Len(rows)>>)>>
          \o RowRecords(TableRow, rows)

LEMMA TableReplyIs ==
  ASSUME NEW f, NEW rows, NEW ids, NEW style
  PROVE  \/ TableReply(f, rows, ids, style) = NamedTable(f, rows)
         \/ \E i \in DOMAIN ids : /\ ids[i] = f.name
                                  /\ TableReply(f, rows, ids, style) = DeltaTable(rows, i)
         \/ TableReply(f, rows, ids, style) = PlainTable(f, rows)
<1> DEFINE sent == {i \in DOMAIN ids : ids[i] = f.name}
<1>1. CASE style = "named"
  BY <1>1, Zenon DEF TableReply, NamedTable, WiderRows
<1>2. CASE style = "delta" /\ sent # {}
  <2>1. style # "named"
    BY <1>2
  <2>2. (CHOOSE i \in sent : TRUE) \in sent
    BY <1>2
  <2>3. TableReply(f, rows, ids, style) = DeltaTable(rows, CHOOSE i \in sent : TRUE)
    BY <1>2, <2>1, Zenon DEF TableReply, DeltaTable
  <2> QED
    BY <2>2, <2>3
<1>3. CASE style # "named" /\ ~(style = "delta" /\ sent # {})
  BY <1>3, Zenon DEF TableReply, PlainTable
<1> QED
  BY <1>1, <1>2, <1>3

LEMMA WiderRowsType ==
  ASSUME NEW rows \in Rows
  PROVE  /\ WiderRows(rows) \in Seq(Seq(Nat)) /\ Len(WiderRows(rows)) = Len(rows)
         /\ \A i \in 1..Len(rows) : WiderRows(rows)[i] = Wider(rows[i])
<1>1. Len(rows) \in Nat /\ DOMAIN rows = 1..Len(rows)
  BY LenProperties DEF Rows
<1>2. \A i \in 1..Len(rows) : Wider(rows[i]) \in Seq(Nat)
  <2> TAKE i \in 1..Len(rows)
  <2>1. rows[i] \in [1..RowSize -> Nat]
    BY ElementOfSeq DEF Rows
  <2> QED
    BY <2>1, WiderType
<1>3. WiderRows(rows) \in [1..Len(rows) -> Seq(Nat)]
  BY <1>1, <1>2 DEF WiderRows
<1> QED
  BY <1>1, <1>3, FunctionIsSeq DEF WiderRows

LEMMA NamedTableType ==
  ASSUME NEW f \in Fields, NEW rows \in Rows
  PROVE  NamedTable(f, rows) \in Seq(PlainRecords)
<1>1. f.name \in Nat /\ Len(rows) \in Nat /\ RowSize + Padding \in Nat
  BY LenProperties, WireAssumption DEF Fields, Rows
<1>2. /\ <<f.name>> \in Seq(Nat) /\ <<>> \in Seq(Nat)
      /\ <<RowSize + Padding, Len(rows)>> \in Seq(Nat)
  BY <1>1
<1>3. FlattenSeq(WiderRows(rows)) \in Seq(Nat)
  BY WiderRowsType, FlattenType
<1>4. /\ Rec(ParamName, <<f.name>>) \in PlainRecords
      /\ Rec(TableName, <<>>) \in PlainRecords
      /\ Rec(TableInfo, <<RowSize + Padding, Len(rows)>>) \in PlainRecords
      /\ Rec(TableContent, FlattenSeq(WiderRows(rows))) \in PlainRecords
      /\ Rec(TableEnd, <<>>) \in PlainRecords
  BY <1>2, <1>3, TagsArePlain, RecIsPlain
<1>5. \A a, b, c, x, y \in PlainRecords : <<a, b, c, x, y>> \in Seq(PlainRecords)
  OBVIOUS
<1> QED
  BY <1>4, <1>5, Zenon DEF NamedTable

LEMMA DeltaTableType ==
  ASSUME NEW rows \in Rows, NEW id \in Nat
  PROVE  DeltaTable(rows, id) \in Seq(PlainRecords)
<1>1. /\ <<3, id, Len(rows)>> \in Seq(Nat) /\ <<>> \in Seq(Nat)
      /\ <<RowSize, Len(rows)>> \in Seq(Nat)
  BY LenProperties, WireAssumption DEF Rows
<1>2. /\ Rec(TableDelta, <<3, id, Len(rows)>>) \in PlainRecords
      /\ Rec(TableInfo, <<RowSize, Len(rows)>>) \in PlainRecords
      /\ Rec(TableDeltaEnd, <<>>) \in PlainRecords
  BY <1>1, TagsArePlain, RecIsPlain
<1>3. RowRecords(TableContent, rows) \in Seq(PlainRecords)
  BY TagsArePlain, RowRecordsType
<1>4. \A a, b \in PlainRecords : <<a, b>> \in Seq(PlainRecords)
  OBVIOUS
<1> QED
  BY <1>2, <1>3, <1>4, OneRecord, ConcatProperties, Zenon DEF DeltaTable

LEMMA PlainTableType ==
  ASSUME NEW f \in Fields, NEW rows \in Rows
  PROVE  PlainTable(f, rows) \in Seq(PlainRecords)
<1>1. f.name \in Nat /\ Len(rows) \in Nat /\ RowSize \in Nat
  BY LenProperties, WireAssumption DEF Fields, Rows
<1>2. <<f.name>> \in Seq(Nat) /\ <<1>> \in Seq(Nat) /\ <<RowSize, Len(rows)>> \in Seq(Nat)
  BY <1>1
<1>3. /\ Rec(TableName, <<f.name>>) \in PlainRecords
      /\ Rec(DmTableId, <<1>>) \in PlainRecords
      /\ Rec(TableInfo, <<RowSize, Len(rows)>>) \in PlainRecords
  BY <1>2, TagsArePlain, RecIsPlain
<1>4. RowRecords(TableRow, rows) \in Seq(PlainRecords)
  BY TagsArePlain, RowRecordsType
<1>5. <<Rec(DmTableId, <<1>>), Rec(TableInfo, <<RowSize, Len(rows)>>)>>
      \o RowRecords(TableRow, rows) \in Seq(PlainRecords)
  BY <1>3, <1>4, TwoRecords, ConcatProperties, Zenon
<1>6. <<>> \in Seq(PlainRecords)
  BY EmptySeq
<1>7. CASE rows = <<>>
  BY <1>3, <1>6, <1>7, OneRecord, ConcatProperties, Zenon DEF PlainTable
<1>8. CASE rows # <<>>
  BY <1>3, <1>5, <1>8, OneRecord, ConcatProperties, Zenon DEF PlainTable
<1> QED
  BY <1>7, <1>8

LEMMA TableReplyType ==
  ASSUME NEW f \in Fields, NEW rows \in Rows, NEW ids \in Seq(Nat), NEW style
  PROVE  TableReply(f, rows, ids, style) \in Seq(PlainRecords)
<1>1. DOMAIN ids \subseteq Nat
  BY LenProperties
<1> QED
  BY <1>1, TableReplyIs, NamedTableType, DeltaTableType, PlainTableType

ReplyBlock(d, r, ids, style, i) ==
  IF d[i].direction = "import" \/ d[i].name \notin DOMAIN r THEN <<>>
  ELSE IF d[i].table THEN TableReply(d[i], r[d[i].name], ids, style)
  ELSE Scalar(d[i], r[d[i].name])

ReplyHead == <<Rec(ResponseStart, <<>>), Rec(ReturnCode, <<0>>)>>

ReplyRecords(d, r, ids, style) ==
  ReplyHead \o FlattenSeq([i \in DOMAIN d |-> ReplyBlock(d, r, ids, style, i)])

LEMMA DescIs ==
  ASSUME NEW d \in Descs
  PROVE  d \in Seq(Fields)
BY DescAssumption DEF Fields

LEMMA ValueIs ==
  ASSUME NEW d \in Descs, NEW v \in ParamSets \union ResultSets, NEW i \in 1..Len(d),
         d[i].name \in DOMAIN v
  PROVE  v[d[i].name] \in IF d[i].table THEN Rows ELSE Seq(Nat)
<1>1. i \in DOMAIN d
  BY DescIs, FieldOf
<1> QED
  BY <1>1, ValueAssumption, Zenon DEF Rows

LEMMA ReplyBlockType ==
  ASSUME NEW d \in Descs, NEW r \in ResultSets, NEW ids \in Seq(Nat), NEW style, NEW i \in 1..Len(d)
  PROVE  ReplyBlock(d, r, ids, style, i) \in Seq(PlainRecords)
<1>1. d[i] \in Fields
  BY DescIs, FieldOf
<1>2. CASE d[i].direction = "import" \/ d[i].name \notin DOMAIN r
  <2>1. <<>> \in Seq(PlainRecords)
    BY EmptySeq
  <2> QED
    BY <1>2, <2>1, Zenon DEF ReplyBlock
<1>3. CASE ~(d[i].direction = "import" \/ d[i].name \notin DOMAIN r) /\ d[i].table
  <2>1. r[d[i].name] \in Rows
    BY <1>3, ValueIs
  <2> QED
    BY <1>1, <1>3, <2>1, TableReplyType, Zenon DEF ReplyBlock
<1>4. CASE ~(d[i].direction = "import" \/ d[i].name \notin DOMAIN r) /\ ~d[i].table
  <2>1. r[d[i].name] \in Seq(Nat)
    BY <1>4, ValueIs
  <2> QED
    BY <1>1, <1>4, <2>1, ScalarType, Zenon DEF ReplyBlock
<1> QED
  BY <1>2, <1>3, <1>4

LEMMA ReplyType ==
  ASSUME NEW d \in Descs, NEW r \in ResultSets, NEW ids \in Seq(Nat), NEW style
  PROVE  /\ BuildResponse(d, r, ids, style) = Terminated(ReplyRecords(d, r, ids, style))
         /\ ReplyRecords(d, r, ids, style) \in Seq(PlainRecords)
         /\ Len(ReplyRecords(d, r, ids, style)) >= 2
         /\ ReplyRecords(d, r, ids, style)[1] = Rec(ResponseStart, <<>>)
         /\ ReplyRecords(d, r, ids, style)[2] = Rec(ReturnCode, <<0>>)
<1> DEFINE b == [i \in DOMAIN d |-> ReplyBlock(d, r, ids, style, i)]
           front == ReplyRecords(d, r, ids, style)
<1>1. d \in Seq(Fields)
  BY DescIs
<1>2. b \in Seq(Seq(PlainRecords))
  <2>1. \A i \in 1..Len(d) : b[i] \in Seq(PlainRecords)
    BY <1>1, ReplyBlockType, FieldOf
  <2>2. DOMAIN b = DOMAIN d /\ b = [i \in DOMAIN d |-> b[i]]
    OBVIOUS
  <2> HIDE DEF b
  <2> QED
    BY <1>1, <2>1, <2>2, BlocksType, Zenon
<1>3. front = ReplyHead \o FlattenSeq(b)
  BY DEF ReplyRecords
<1> HIDE DEF b
<1>4. FlattenSeq(b) \in Seq(PlainRecords)
  BY <1>2, FlattenType
<1>5. <<>> \in Seq(Nat) /\ <<0>> \in Seq(Nat)
  OBVIOUS
<1>6. ReplyHead \in Seq(PlainRecords) /\ Len(ReplyHead) = 2
      /\ ReplyHead[1] = Rec(ResponseStart, <<>>) /\ ReplyHead[2] = Rec(ReturnCode, <<0>>)
  <2>1. Rec(ResponseStart, <<>>) \in PlainRecords /\ Rec(ReturnCode, <<0>>) \in PlainRecords
    BY <1>5, TagsArePlain, RecIsPlain
  <2> QED
    BY <2>1, TwoRecords DEF ReplyHead
<1>7. front \in Seq(PlainRecords) /\ Joins(front, ReplyHead, FlattenSeq(b))
  BY <1>3, <1>4, <1>6, ConcatJoins, Zenon
<1>8. Len(FlattenSeq(b)) \in Nat
  BY <1>4, LenProperties
<1>9. Len(front) >= 2 /\ front[1] = Rec(ResponseStart, <<>>) /\ front[2] = Rec(ReturnCode, <<0>>)
  BY <1>6, <1>7, <1>8 DEF Joins
<1>10. BuildResponse(d, r, ids, style) = Terminated(front)
  <2>1. BuildResponse(d, r, ids, style) = front \o <<Rec(Terminator, <<>>)>>
    BY <1>3, Zenon DEF BuildResponse, ReplyHead, ReplyBlock, b
  <2>2. front \in Seq(TlvRecords)
    BY <1>7, PlainSequence
  <2>3. Append(front, Rec(Terminator, <<>>)) = front \o <<Rec(Terminator, <<>>)>>
    BY <2>2, TerminatorCells, AppendIsConcat
  <2> QED
    BY <2>1, <2>3, Zenon DEF Terminated
<1> QED
  BY <1>7, <1>9, <1>10

-----------------------------------------------------------------------------
(* The reader                                                               *)

Reply == Stream(BuildResponse(desc, result, DmTableIds(desc, params), form))

ReplyFront == ReplyRecords(desc, result, DmTableIds(desc, params), form)

Chosen ==
  /\ desc \in Descs /\ params \in ParamSets /\ result \in ResultSets
  /\ chunk \in Chunks /\ form \in Forms

(* What is read and what is on the way are the reply.  The reader goes on   *)
(* while a cell before the terminator's closing tag is missing, up to its   *)
(* cap of frames.                                                           *)
Reading ==
  /\ phase \in {"calling", "called", "reading", "joined", "done", "raised"}
  /\ joined \in Seq(Nat) /\ frames \in Nat
  /\ phase \in {"calling", "called"} => joined = <<>> /\ frames = 0
  /\ phase \in {"reading", "joined", "done", "raised"} =>
       wire \in Seq(Nat) /\ joined \o wire = Reply
  /\ phase = "reading" => /\ joined = <<>> \/ 2 <= Len(joined)
                          /\ frames < MaxFrames
  /\ phase \in {"reading", "raised"} => Len(joined) < Len(Reply) - 1
  /\ phase = "raised" => frames = MaxFrames
  /\ phase \in {"joined", "done"} => Len(Reply) - 1 <= Len(joined)

ReadInv == Chosen /\ Reading

LEMMA ReplyIsTerminated ==
  ASSUME Chosen
  PROVE  /\ ReplyFront \in Seq(TlvRecords) /\ NoTerminator(ReplyFront)
         /\ ReplyFront # <<>> /\ ReplyFront[1].value = <<>>
         /\ ReplyFront[2].tag = ReturnCode /\ 2 \in 1..Len(ReplyFront)
         /\ Reply = Stream(Terminated(ReplyFront))
         /\ Reply \in Seq(Nat)
<1> DEFINE ids == DmTableIds(desc, params)
<1>1. desc \in Descs /\ result \in ResultSets /\ ids \in Seq(Nat)
  BY DescIs, IdsType DEF Chosen
<1> HIDE DEF ids
<1>2. /\ BuildResponse(desc, result, ids, form) = Terminated(ReplyRecords(desc, result, ids, form))
      /\ ReplyRecords(desc, result, ids, form) \in Seq(PlainRecords)
      /\ Len(ReplyRecords(desc, result, ids, form)) >= 2
      /\ ReplyRecords(desc, result, ids, form)[1] = Rec(ResponseStart, <<>>)
      /\ ReplyRecords(desc, result, ids, form)[2] = Rec(ReturnCode, <<0>>)
  BY <1>1, ReplyType
<1>3. ReplyFront = ReplyRecords(desc, result, ids, form)
  BY DEF ReplyFront, ids
<1>4. /\ ReplyFront \in Seq(TlvRecords) /\ NoTerminator(ReplyFront)
      /\ Len(ReplyFront) \in Nat
  BY <1>2, <1>3, PlainSequence, LenProperties
<1>5. ReplyFront # <<>> /\ 2 \in 1..Len(ReplyFront)
  BY <1>2, <1>3, <1>4
<1>6. ReplyFront[1].value = <<>> /\ ReplyFront[2].tag = ReturnCode
  BY <1>2, <1>3 DEF Rec
<1>7. Reply = Stream(Terminated(ReplyFront))
  BY <1>2, <1>3 DEF Reply, ids
<1>8. Reply \in Seq(Nat)
  BY <1>4, <1>7, TerminatedRecords, StreamType
<1> QED
  BY <1>4, <1>5, <1>6, <1>7, <1>8

(* What the reader makes of as much of the reply as it has.                 *)
LEMMA ReplyRead ==
  ASSUME Chosen, NEW t \in Seq(Nat), Begins(t, Reply)
  PROVE  /\ 2 <= Len(t) /\ Len(t) < Len(Reply) - 1 => Status(t) = "truncated"
         /\ Len(Reply) - 1 <= Len(t) => /\ Status(t) = "complete"
                                        /\ Records(t) = ReplyFront
<1>1. /\ ReplyFront \in Seq(TlvRecords) /\ NoTerminator(ReplyFront)
      /\ ReplyFront # <<>> /\ ReplyFront[1].value = <<>>
      /\ Reply = Stream(Terminated(ReplyFront))
  BY ReplyIsTerminated
<1>2. ASSUME 2 <= Len(t), Len(t) < Len(Reply) - 1
      PROVE  Status(t) = "truncated"
  <2>1. Cut(Walk(t)[1])
    BY <1>1, <1>2, WalkedCut
  <2> QED
    BY <2>1 DEF Cut, Status
<1>3. ASSUME Len(Reply) - 1 <= Len(t)
      PROVE  Status(t) = "complete" /\ Records(t) = ReplyFront
  <2>1. Walk(t)[1] = [records |-> ReplyFront, status |-> "complete"]
    BY <1>1, <1>3, WalkedToEnd
  <2> QED
    BY <2>1 DEF Status, Records
<1> QED
  BY <1>2, <1>3

LEMMA ReplyEnds ==
  ASSUME Chosen
  PROVE  Len(Reply) \in Nat /\ 3 <= Len(Reply) /\ Reply[Len(Reply)] = Terminator
<1> DEFINE e == At(Terminated(ReplyFront), Len(ReplyFront) + 1)
<1>1. /\ ReplyFront \in Seq(TlvRecords) /\ Reply \in Seq(Nat)
      /\ Reply = Stream(Terminated(ReplyFront))
  BY ReplyIsTerminated
<1>2. Len(Reply) \in Nat
  BY <1>1, LenProperties
<1>3. Begins(Reply, Stream(Terminated(ReplyFront)))
  BY <1>1, <1>2 DEF Begins
<1>4. /\ e \in Nat \ {0} /\ Len(Reply) = e + 2
      /\ \A j \in {1, 3} : e - 1 + j <= Len(Reply) => Reply[e - 1 + j] = Terminator
  BY <1>1, <1>3, TerminatorStands
<1> HIDE DEF e
<1>5. e - 1 + 3 = e + 2 /\ e + 2 <= Len(Reply)
  BY <1>4
<1> QED
  BY <1>2, <1>4, <1>5

(* The reply is chosen when the call is.                                    *)
LEMMA ReplyUnchanged ==
  ASSUME UNCHANGED <<desc, params, result, form>>
  PROVE  Reply' = Reply
BY Zenon DEF Reply

(* Two parts of one sequence: the first begins it.                          *)
LEMMA ConcatBegins ==
  ASSUME NEW a \in Seq(Nat), NEW b \in Seq(Nat)
  PROVE  /\ Begins(a, a \o b)
         /\ Len(a) \in Nat /\ Len(b) \in Nat /\ Len(a \o b) = Len(a) + Len(b)
<1>1. Joins(a \o b, a, b) /\ Len(a) \in Nat /\ Len(b) \in Nat
  BY ConcatJoins, LenProperties
<1> QED
  BY <1>1 DEF Joins, Begins

LEMMA CellsJoin ==
  \A a, b, c \in Seq(Nat) : (a \o b) \o c = a \o (b \o c)
BY ConcatAssociative

(* A frame moves the first of the cells on the way to what is read.         *)
LEMMA FrameMoves ==
  ASSUME NEW a \in Seq(Nat), NEW b \in Seq(Nat), NEW n \in 0..Len(b)
  PROVE  /\ a \o SubSeq(b, 1, n) \in Seq(Nat) /\ SubSeq(b, n + 1, Len(b)) \in Seq(Nat)
         /\ Len(a \o SubSeq(b, 1, n)) = Len(a) + n
         /\ Len(SubSeq(b, n + 1, Len(b))) = Len(b) - n
         /\ (a \o SubSeq(b, 1, n)) \o SubSeq(b, n + 1, Len(b)) = a \o b
<1>1. Len(b) \in Nat /\ Len(a) \in Nat /\ \A i \in 1..Len(b) : b[i] \in Nat
  BY LenProperties, ElementOfSeq
<1>2. SubSeq(b, 1, n) \in Seq(Nat) /\ Len(SubSeq(b, 1, n)) = n
  BY <1>1, SubSeqProperties
<1>3. SubSeq(b, n + 1, Len(b)) \in Seq(Nat) /\ Len(SubSeq(b, n + 1, Len(b))) = Len(b) - n
  <2>1. \A i \in n + 1..Len(b) : b[i] \in Nat
    BY <1>1
  <2> QED
    BY <1>1, <2>1, SubSeqProperties
<1>4. SubSeq(b, 1, n) \o SubSeq(b, n + 1, Len(b)) = b
  <2>1. 1 \in 1..Len(b) + 1 /\ n \in 1 - 1..Len(b) /\ Len(b) \in n..Len(b)
    BY <1>1
  <2>2. SubSeq(b, 1, n) \o SubSeq(b, n + 1, Len(b)) = SubSeq(b, 1, Len(b))
    BY <2>1, ConcatAdjacentSubSeq, Zenon
  <2> QED
    BY <2>2, SubSeqFull
<1> DEFINE x == SubSeq(b, 1, n)
           y == SubSeq(b, n + 1, Len(b))
<1>5. x \in Seq(Nat) /\ y \in Seq(Nat) /\ x \o y = b
  BY <1>2, <1>3, <1>4
<1> HIDE DEF x, y
<1>6. (a \o x) \o y = a \o b
  <2>1. (a \o x) \o y = a \o (x \o y)
    BY <1>5, CellsJoin, Zenon
  <2> QED
    BY <1>5, <2>1
<1>7. a \o x \in Seq(Nat) /\ Len(a \o x) = Len(a) + Len(x)
  BY <1>5, ConcatProperties
<1> QED
  BY <1>2, <1>3, <1>6, <1>7 DEF x, y

LEMMA ReadInvInit ==
  ASSUME Init
  PROVE  ReadInv
BY EmptySeq, Zenon DEF Init, ReadInv, Chosen, Reading

LEMMA ReadInvNext ==
  ASSUME ReadInv, [Next]_vars
  PROVE  ReadInv'
<1>1. Chosen /\ Reading
  BY DEF ReadInv
<1>2. Len(Reply) \in Nat /\ 3 <= Len(Reply) /\ Reply \in Seq(Nat)
  BY <1>1, ReplyEnds, ReplyIsTerminated
<1>3. CASE Invoke
  <2>1. Chosen'
    BY <1>1, <1>3 DEF Chosen, Invoke
  <2>2. phase' = "called" /\ joined' = joined /\ joined = <<>> /\ frames' = frames /\ frames = 0
    BY <1>1, <1>3 DEF Reading, Invoke
  <2> QED
    BY <2>1, <2>2, EmptySeq DEF ReadInv, Reading
<1>4. CASE Dispatch
  <2>1. Chosen' /\ Reply' = Reply
    BY <1>1, <1>4, ReplyUnchanged DEF Chosen, Dispatch
  <2>2. phase' = "reading" /\ joined' = <<>> /\ wire' = Reply /\ frames' = 0
    BY <1>1, <1>4 DEF Reading, Dispatch, Reply
  <2>3. joined' \in Seq(Nat) /\ wire' \in Seq(Nat)
    BY <1>2, <2>2, EmptySeq
  <2>4. joined' \o wire' = Reply'
    BY <1>2, <2>1, <2>2, ConcatEmptySeq
  <2>5. Len(joined') = 0
    BY <2>2
  <2>6. Len(joined') < Len(Reply') - 1
    BY <1>2, <2>1, <2>5
  <2>7. frames' \in Nat /\ frames' < MaxFrames
    BY <2>2, WireAssumption
  <2> QED
    BY <2>1, <2>2, <2>3, <2>4, <2>6, <2>7 DEF ReadInv, Reading
<1>5. CASE ReadFrame
  <2> DEFINE n == Least(chunk, Len(wire))
  <2>1. Chosen' /\ Reply' = Reply
    BY <1>1, <1>5, ReplyUnchanged DEF Chosen, ReadFrame
  <2>2. /\ phase = "reading" /\ joined \in Seq(Nat) /\ wire \in Seq(Nat)
        /\ joined \o wire = Reply /\ Len(joined) < Len(Reply) - 1
        /\ frames \in Nat /\ frames < MaxFrames /\ frames' = frames + 1
    BY <1>1, <1>5 DEF Reading, ReadFrame
  <2>3. /\ joined' = joined \o SubSeq(wire, 1, n)
        /\ wire' = SubSeq(wire, n + 1, Len(wire))
    BY <1>5, Zenon DEF ReadFrame
  <2>4. /\ Len(joined) \in Nat /\ Len(wire) \in Nat
        /\ Len(Reply) = Len(joined) + Len(wire)
    BY <2>2, ConcatBegins, Zenon
  <2>5. chunk \in Nat /\ chunk >= 3
    BY <1>1, WireAssumption DEF Chosen
  <2>6. n \in 0..Len(wire) /\ (n >= 3 \/ n = Len(wire))
    BY <2>4, <2>5 DEF Least
  <2> HIDE DEF n
  <2>7. /\ joined' \in Seq(Nat) /\ wire' \in Seq(Nat)
        /\ Len(joined') = Len(joined) + n /\ Len(wire') = Len(wire) - n
        /\ joined' \o wire' = Reply'
    BY <2>1, <2>2, <2>3, <2>6, FrameMoves
  <2>8. Begins(joined', Reply)
    BY <2>1, <2>7, ConcatBegins
  <2>9. 2 <= Len(joined')
    <3>1. \A l, j, w, m \in Nat :
            l = j + w /\ 3 <= l /\ (m >= 3 \/ m = w) => 2 <= j + m
      OBVIOUS
    <3>2. Len(Reply) \in Nat /\ 3 <= Len(Reply) /\ n \in Nat
      BY <1>2, <2>4, <2>6
    <3> QED
      BY <2>4, <2>6, <2>7, <3>1, <3>2
  <2>10. CASE Len(joined') < Len(Reply) - 1
    <3>1. Status(joined') = "truncated"
      BY <1>1, <2>7, <2>8, <2>9, <2>10, ReplyRead
    <3>2. wire' # <<>>
      <4>1. Len(wire') # 0
        BY <1>2, <2>4, <2>6, <2>7, <2>10
      <4>2. Len(<<>>) = 0
        OBVIOUS
      <4> QED
        BY <4>1, <4>2
    <3>3. frames' \in Nat /\ (frames' < MaxFrames \/ frames' = MaxFrames)
      BY <2>2, WireAssumption
    <3>4. CASE frames' < MaxFrames
      <4>1. ~(frames' >= MaxFrames)
        BY <3>3, <3>4, WireAssumption
      <4>2. phase' = "reading"
        BY <1>5, <3>1, <3>2, <4>1 DEF ReadFrame
      <4> QED
        BY <2>1, <2>7, <2>9, <2>10, <3>3, <3>4, <4>2 DEF ReadInv, Reading
    <3>5. CASE frames' = MaxFrames
      <4>1. frames' >= MaxFrames
        BY <3>3, <3>5, WireAssumption
      <4>2. phase' = "raised"
        BY <1>5, <3>1, <4>1 DEF ReadFrame
      <4> QED
        BY <2>1, <2>7, <2>10, <3>3, <3>5, <4>2 DEF ReadInv, Reading
    <3> QED
      BY <3>3, <3>4, <3>5
  <2>11. CASE Len(Reply) - 1 <= Len(joined')
    <3>1. Status(joined') = "complete"
      BY <1>1, <2>7, <2>8, <2>11, ReplyRead
    <3>2. phase' = "joined" /\ frames' \in Nat
      BY <1>5, <2>2, <3>1 DEF ReadFrame
    <3> QED
      BY <2>1, <2>7, <2>11, <3>2 DEF ReadInv, Reading
  <2> QED
    BY <1>2, <2>4, <2>6, <2>7, <2>10, <2>11
<1>6. CASE Parse
  <2>1. Chosen' /\ Reply' = Reply
    BY <1>1, <1>6, ReplyUnchanged DEF Chosen, Parse
  <2>2. /\ phase = "joined" /\ joined \in Seq(Nat) /\ wire \in Seq(Nat)
        /\ joined \o wire = Reply /\ Len(Reply) - 1 <= Len(joined) /\ frames \in Nat
    BY <1>1, <1>6 DEF Reading, Parse
  <2>3. Begins(joined, Reply)
    BY <2>2, ConcatBegins
  <2>4. Status(joined) = "complete" /\ Records(joined) = ReplyFront
    BY <1>1, <2>2, <2>3, ReplyRead
  <2>5. \E r \in ToSet(Records(joined)) : r.tag = ReturnCode
    <3>1. ReplyFront[2] \in ToSet(ReplyFront) /\ ReplyFront[2].tag = ReturnCode
      <4>1. ReplyFront \in Seq(TlvRecords) /\ 2 \in 1..Len(ReplyFront)
            /\ ReplyFront[2].tag = ReturnCode
        BY <1>1, ReplyIsTerminated
      <4>2. 2 \in DOMAIN ReplyFront
        BY <4>1, LenProperties
      <4> QED
        BY <4>1, <4>2, Zenon DEF ToSet
    <3> QED
      BY <2>4, <3>1
  <2>6. phase' = "done" /\ joined' = joined /\ wire' = wire /\ frames' = frames
    BY <1>6, <2>4, <2>5 DEF Parse
  <2> QED
    BY <2>1, <2>2, <2>6 DEF ReadInv, Reading
<1>7. CASE UNCHANGED vars
  <2>1. Chosen' /\ Reply' = Reply
    BY <1>1, <1>7, ReplyUnchanged DEF Chosen, vars
  <2> QED
    BY <1>1, <1>7, <2>1, Zenon DEF ReadInv, Reading, vars
<1> QED
  BY <1>3, <1>4, <1>5, <1>6, <1>7 DEF Next

(* What the reader has read and what is on its way make up the reply; it    *)
(* goes on while a cell before the terminator's closing tag is missing, and *)
(* no further than its cap of frames.                                       *)
THEOREM SpecReadInv == Spec => []ReadInv
<1>1. Init => ReadInv
  BY ReadInvInit
<1>2. ReadInv /\ [Next]_vars => ReadInv'
  BY ReadInvNext
<1> QED
  BY <1>1, <1>2, PTL DEF Spec

(* However the gateway cuts a reply of whatever records, and whatever its   *)
(* values hold, the reader does not stop before its end, and gives up on it *)
(* at its cap alone, with the terminator still to come.                     *)
THEOREM SpecReadsToTerminator == Spec => []ReadsToTerminator
<1>1. ASSUME ReadInv PROVE ReadsToTerminator
  <2>1. Chosen /\ Reading
    BY <1>1 DEF ReadInv
  <2>2. ASSUME phase = "raised"
        PROVE  frames = MaxFrames /\ Len(wire) > 1
    <3>1. /\ joined \in Seq(Nat) /\ wire \in Seq(Nat) /\ frames = MaxFrames
          /\ joined \o wire = Reply /\ Len(joined) < Len(Reply) - 1
      BY <2>1, <2>2 DEF Reading
    <3>2. /\ Len(joined) \in Nat /\ Len(wire) \in Nat
          /\ Len(Reply) = Len(joined) + Len(wire)
      BY <3>1, ConcatBegins, Zenon
    <3> QED
      BY <3>1, <3>2
  <2>3. ASSUME phase \in {"joined", "done"}
        PROVE  wire \in {<<>>, <<Terminator>>}
    <3>1. /\ joined \in Seq(Nat) /\ wire \in Seq(Nat)
          /\ joined \o wire = Reply /\ Len(Reply) - 1 <= Len(joined)
      BY <2>1, <2>3 DEF Reading
    <3>2. Reply[Len(Reply)] = Terminator /\ Len(Reply) \in Nat
      BY <2>1, ReplyEnds
    <3>3. /\ Len(joined) \in Nat /\ Len(wire) \in Nat
          /\ Len(Reply) = Len(joined) + Len(wire)
      BY <3>1, ConcatBegins, Zenon
    <3>4. CASE Len(wire) = 0
      BY <3>1, <3>4, EmptySeq
    <3>5. CASE Len(wire) = 1
      <4>1. Joins(Reply, joined, wire)
        BY <3>1, ConcatJoins, Zenon
      <4>2. Reply[Len(joined) + 1] = wire[1]
        BY <3>5, <4>1 DEF Joins
      <4>3. wire[1] = Terminator
        BY <3>2, <3>3, <3>5, <4>2
      <4>4. <<Terminator>> \in Seq(Nat) /\ Len(<<Terminator>>) = 1
            /\ <<Terminator>>[1] = Terminator
        BY DEF Terminator
      <4>5. \A i \in 1..1 : wire[i] = <<Terminator>>[i]
        BY <4>3, <4>4
      <4>6. wire = <<Terminator>>
        BY <3>1, <3>5, <4>4, <4>5, SeqEqual
      <4> QED
        BY <4>6
    <3>6. Len(wire) = 0 \/ Len(wire) = 1
      <4>1. \A l, m, k \in Nat : l = m + k /\ l - 1 <= m => k = 0 \/ k = 1
        OBVIOUS
      <4> QED
        BY <3>1, <3>2, <3>3, <4>1
    <3> QED
      BY <3>4, <3>5, <3>6
  <2> QED
    BY <2>2, <2>3 DEF ReadsToTerminator
<1> QED
  BY <1>1, SpecReadInv, PTL

-----------------------------------------------------------------------------
(* The scan, one record at a time                                           *)

IsScan(g, records, ids, n) ==
  g = [i \in 0..n |-> IF i = 0 THEN Nothing ELSE RecordRead(g[i - 1], records[i], ids)]

LEMMA ScanExists ==
  ASSUME NEW records, NEW ids, NEW n \in Nat
  PROVE  \E g : IsScan(g, records, ids, n)
<1> DEFINE S == {k \in 0..n : \E g : IsScan(g, records, ids, k)}
<1>1. 0 \in S
  <2>1. [i \in 0..0 |-> Nothing][0] = Nothing
    OBVIOUS
  <2>2. IsScan([i \in 0..0 |-> Nothing], records, ids, 0)
    <3>1. \A i \in 0..0 : i = 0
      OBVIOUS
    <3> QED
      BY <3>1, Zenon DEF IsScan
  <2> QED
    BY <2>2
<1>2. ASSUME NEW k \in 0..n - 1, k \in S
      PROVE  k + 1 \in S
  <2>1. PICK g : IsScan(g, records, ids, k)
    BY <1>2
  <2> DEFINE e(v, i) == IF i = 0 THEN Nothing ELSE RecordRead(v[i - 1], records[i], ids)
             h == [i \in 0..k + 1 |-> IF i = k + 1 THEN e(g, i) ELSE g[i]]
  <2>2. \A i \in 0..k : g[i] = e(g, i)
    BY <2>1, Zenon DEF IsScan
  <2>3. \A i \in 0..k + 1 : h[i] = e(h, i)
    <3> TAKE i \in 0..k + 1
    <3>1. CASE i = 0
      <4>1. i # k + 1 /\ i \in 0..k
        BY <3>1
      <4>2. h[i] = g[i]
        BY <4>1
      <4>3. g[i] = Nothing
        BY <2>2, <3>1, <4>1
      <4> HIDE DEF h
      <4> QED
        BY <3>1, <4>2, <4>3
    <3>2. CASE i # 0
      <4>1. i - 1 \in 0..k /\ i - 1 \in 0..k + 1 /\ i - 1 # k + 1
        BY <3>2
      <4>2. h[i - 1] = g[i - 1]
        BY <4>1
      <4>3. h[i] = e(g, i)
        <5>1. CASE i = k + 1
          BY <5>1
        <5>2. CASE i # k + 1
          <6>1. i \in 0..k
            BY <5>2
          <6>2. h[i] = g[i]
            BY <5>2
          <6> HIDE DEF h, e
          <6> QED
            BY <2>2, <6>1, <6>2
        <5> QED
          BY <5>1, <5>2
      <4> HIDE DEF h
      <4> QED
        BY <3>2, <4>2, <4>3
    <3> QED
      BY <3>1, <3>2
  <2>4. h = [i \in 0..k + 1 |-> h[i]]
    OBVIOUS
  <2>5. h = [i \in 0..k + 1 |-> e(h, i)]
    <3> HIDE DEF h, e
    <3> QED
      BY <2>3, <2>4
  <2>6. IsScan(h, records, ids, k + 1)
    BY <2>5, Zenon DEF IsScan
  <2> HIDE DEF h
  <2>7. k + 1 \in 0..n
    OBVIOUS
  <2> QED
    BY <2>6, <2>7
<1>3. \A k \in 0..n : k \in S
  <2> HIDE DEF S
  <2> QED
    BY <1>1, <1>2, UpTo
<1>4. n \in S
  BY <1>3
<1> QED
  BY <1>4

LEMMA ScanIsLast ==
  ASSUME NEW records, NEW ids, Len(records) \in Nat
  PROVE  \E g : IsScan(g, records, ids, Len(records)) /\ Scan(records, ids) = g[Len(records)]
<1> DEFINE f == CHOOSE g : IsScan(g, records, ids, Len(records))
<1>1. IsScan(f, records, ids, Len(records))
  BY ScanExists
<1>2. Scan(records, ids) = f[Len(records)]
  BY Zenon DEF Scan, IsScan
<1> QED
  BY <1>1, <1>2

LEMMA ScanEmpty == \A ids : Scan(<<>>, ids) = Nothing
<1> TAKE ids
<1>1. Len(<<>>) = 0 /\ Len(<<>>) \in Nat
  OBVIOUS
<1>2. PICK g : IsScan(g, <<>>, ids, Len(<<>>)) /\ Scan(<<>>, ids) = g[Len(<<>>)]
  BY <1>1, ScanIsLast
<1>3. 0 \in 0..0
  OBVIOUS
<1> QED
  BY <1>1, <1>2, <1>3, Zenon DEF IsScan

LEMMA ScanAppend ==
  ASSUME NEW rs \in Seq(TlvRecords), NEW r \in TlvRecords, NEW ids
  PROVE  Scan(Append(rs, r), ids) = RecordRead(Scan(rs, ids), r, ids)
<1> DEFINE n == Len(rs)
           qs == Append(rs, r)
<1>1. /\ n \in Nat /\ Len(qs) = n + 1 /\ qs[n + 1] = r
      /\ \A i \in 1..n : qs[i] = rs[i]
  BY AppendProperties, LenProperties
<1>2. PICK g : IsScan(g, rs, ids, n) /\ Scan(rs, ids) = g[n]
  BY <1>1, ScanIsLast
<1>3. PICK h : IsScan(h, qs, ids, n + 1) /\ Scan(qs, ids) = h[n + 1]
  <2>1. Len(qs) \in Nat
    BY <1>1
  <2> HIDE DEF qs
  <2>2. \E h : IsScan(h, qs, ids, Len(qs)) /\ Scan(qs, ids) = h[Len(qs)]
    BY <2>1, ScanIsLast
  <2> QED
    BY <1>1, <2>2
<1> HIDE DEF n, qs
<1>4. \A i \in 0..n : g[i] = IF i = 0 THEN Nothing ELSE RecordRead(g[i - 1], rs[i], ids)
  BY <1>2, Zenon DEF IsScan
<1>5. \A i \in 0..n + 1 : h[i] = IF i = 0 THEN Nothing ELSE RecordRead(h[i - 1], qs[i], ids)
  BY <1>3, Zenon DEF IsScan
<1> DEFINE S == {i \in 0..n : h[i] = g[i]}
<1>6. 0 \in S
  BY <1>1, <1>4, <1>5
<1>7. ASSUME NEW k \in 0..n - 1, k \in S
      PROVE  k + 1 \in S
  <2>1. k + 1 \in 0..n /\ k + 1 \in 0..n + 1 /\ k + 1 # 0 /\ (k + 1) - 1 = k /\ k + 1 \in 1..n
    BY <1>1
  <2>2. g[k + 1] = RecordRead(g[k], rs[k + 1], ids)
    BY <1>4, <2>1
  <2>3. h[k + 1] = RecordRead(h[k], qs[k + 1], ids)
    BY <1>5, <2>1
  <2>4. h[k] = g[k] /\ qs[k + 1] = rs[k + 1]
    BY <1>1, <1>7, <2>1
  <2> QED
    BY <2>1, <2>2, <2>3, <2>4
<1>8. h[n] = g[n]
  <2>1. \A i \in 0..n : i \in S
    <3> HIDE DEF S
    <3> QED
      BY <1>1, <1>6, <1>7, UpTo
  <2> QED
    BY <1>1, <2>1
<1>9. h[n + 1] = RecordRead(h[n], qs[n + 1], ids)
  <2>1. n + 1 \in 0..n + 1 /\ n + 1 # 0 /\ (n + 1) - 1 = n
    BY <1>1
  <2> QED
    BY <1>5, <2>1
<1>10. Scan(qs, ids) = RecordRead(Scan(rs, ids), r, ids)
  BY <1>1, <1>2, <1>3, <1>8, <1>9
<1> QED
  BY <1>10 DEF qs

Pairs == Seq(Nat \X Seq(Nat))
Counts == Seq(Nat \X Nat)

ReadStates ==
  [pairs : Pairs, name : Nat, inTable : BOOLEAN, rows : Seq(Nat), counts : Counts]

LEMMA FlushedFields ==
  ASSUME NEW a \in ReadStates
  PROVE  /\ Flushed(a) \in ReadStates
         /\ Flushed(a).name = a.name
         /\ Flushed(a).inTable = a.inTable
         /\ Flushed(a).rows = a.rows
         /\ Flushed(a).counts = a.counts
         /\ InNamedTable(a) => Flushed(a).pairs = Append(a.pairs, <<a.name, a.rows>>)
         /\ ~InNamedTable(a) => Flushed(a) = a
<1>1. CASE InNamedTable(a)
  <2> DEFINE q == Append(a.pairs, <<a.name, a.rows>>)
  <2>1. q \in Pairs
    BY DEF Pairs, ReadStates
  <2>2. Flushed(a) = [a EXCEPT !.pairs = q]
    BY <1>1 DEF Flushed
  <2> HIDE DEF q
  <2>3. /\ Flushed(a) \in ReadStates
         /\ Flushed(a).name = a.name
         /\ Flushed(a).inTable = a.inTable
         /\ Flushed(a).rows = a.rows
         /\ Flushed(a).counts = a.counts
         /\ Flushed(a).pairs = q
    BY <2>1, <2>2 DEF ReadStates
  <2> QED BY <1>1, <2>3 DEF q
<1>2. CASE ~InNamedTable(a)
  BY <1>2 DEF Flushed
<1> QED BY <1>1, <1>2

LEMMA DeltaByTag ==
  \A a, r, ids : r.tag = TableDelta => RecordRead(a, r, ids) = DeltaRead(a, r, ids)
BY DEF RecordRead, ParamName, ParamValue, TableName, TableInfo, TableContent, TableRow,
       TableDelta, TableEnd, TableDeltaEnd

(* Which of the steps a record's tag calls for.                             *)
LEMMA ReadByTag ==
  ASSUME NEW a, NEW r, NEW ids
  PROVE  /\ r.tag = ParamName => RecordRead(a, r, ids) = NameRead(a, r)
         /\ r.tag = ParamValue => RecordRead(a, r, ids) = ValueRead(a, r)
         /\ r.tag = TableName => RecordRead(a, r, ids) = TableNameRead(a, r)
         /\ r.tag = TableInfo => RecordRead(a, r, ids) = InfoRead(a, r)
         /\ r.tag = TableDelta => RecordRead(a, r, ids) = DeltaRead(a, r, ids)
         /\ r.tag \in {TableEnd, TableDeltaEnd} => RecordRead(a, r, ids) = TableEndRead(a)
         /\ r.tag \in {TableContent, TableRow} /\ a.inTable =>
              RecordRead(a, r, ids) = [a EXCEPT !.rows = @ \o r.value]
         /\ r.tag \in {DmTableId, CallStart, FuncName, ParamSection, ExportDecl,
                       ResponseStart, ReturnCode} => RecordRead(a, r, ids) = a
<1>1. r.tag = ParamName => RecordRead(a, r, ids) = NameRead(a, r)
  BY DEF RecordRead, ParamName, ParamValue, TableName, TableInfo, TableContent,
         TableRow, TableDelta, TableEnd, TableDeltaEnd
<1>2. r.tag = ParamValue => RecordRead(a, r, ids) = ValueRead(a, r)
  BY DEF RecordRead, ParamName, ParamValue, TableName, TableInfo, TableContent,
         TableRow, TableDelta, TableEnd, TableDeltaEnd
<1>3. r.tag = TableName => RecordRead(a, r, ids) = TableNameRead(a, r)
  BY DEF RecordRead, ParamName, ParamValue, TableName, TableInfo, TableContent,
         TableRow, TableDelta, TableEnd, TableDeltaEnd
<1>4. r.tag = TableInfo => RecordRead(a, r, ids) = InfoRead(a, r)
  BY DEF RecordRead, ParamName, ParamValue, TableName, TableInfo, TableContent,
         TableRow, TableDelta, TableEnd, TableDeltaEnd
<1>5. r.tag = TableDelta => RecordRead(a, r, ids) = DeltaRead(a, r, ids)
  BY DeltaByTag
<1>6. r.tag \in {TableEnd, TableDeltaEnd} => RecordRead(a, r, ids) = TableEndRead(a)
  BY DEF RecordRead, ParamName, ParamValue, TableName, TableInfo, TableContent,
         TableRow, TableDelta, TableEnd, TableDeltaEnd
<1>7. r.tag \in {TableContent, TableRow} /\ a.inTable =>
       RecordRead(a, r, ids) = [a EXCEPT !.rows = @ \o r.value]
  BY DEF RecordRead, ParamName, ParamValue, TableName, TableInfo, TableContent,
         TableRow, TableDelta, TableEnd, TableDeltaEnd
<1>8. r.tag \in {DmTableId, CallStart, FuncName, ParamSection, ExportDecl,
                ResponseStart, ReturnCode} => RecordRead(a, r, ids) = a
  <2> SUFFICES ASSUME r.tag \in {DmTableId, CallStart, FuncName, ParamSection, ExportDecl,
                                 ResponseStart, ReturnCode}
               PROVE  RecordRead(a, r, ids) = a
    OBVIOUS
  <2>1. /\ r.tag # ParamName /\ r.tag # ParamValue /\ r.tag # TableName
        /\ r.tag # TableInfo /\ r.tag # TableContent /\ r.tag # TableRow
        /\ r.tag # TableDelta /\ r.tag # TableEnd /\ r.tag # TableDeltaEnd
    BY DEF ParamName, ParamValue, TableName, TableInfo, TableContent, TableRow,
           TableDelta, TableEnd, TableDeltaEnd, DmTableId, CallStart, FuncName,
           ParamSection, ExportDecl, ResponseStart, ReturnCode
  <2> QED
    BY <2>1 DEF RecordRead
<1> QED
  BY <1>1, <1>2, <1>3, <1>4, <1>5, <1>6, <1>7, <1>8, Zenon

-----------------------------------------------------------------------------
(* What the reader has read, and what a record adds to it                  *)

(* Between two parameters a table that is open has a name.                  *)
Between(a) == a \in ReadStates /\ (a.inTable <=> a.name # 0)

(* No table is open.                                                        *)
Closed(a, pairs, name, counts) ==
  /\ a \in ReadStates /\ a.inTable = FALSE
  /\ a.pairs = pairs /\ a.name = name /\ a.counts = counts

(* A table is, and these rows of it were read.                              *)
Open(a, pairs, name, rows, counts) ==
  /\ a \in ReadStates /\ a.inTable = TRUE
  /\ a.pairs = pairs /\ a.name = name /\ a.rows = rows /\ a.counts = counts

Counted(counts, name, n) == IF n > 0 THEN Append(counts, <<name, n>>) ELSE counts

LEMMA ClosedFlushed ==
  ASSUME NEW a, NEW p, NEW c, Closed(a, p, 0, c)
  PROVE  Between(a) /\ Flushed(a).pairs = p /\ a.counts = c
<1>1. a \in ReadStates /\ a.inTable = FALSE /\ a.name = 0 /\ a.pairs = p /\ a.counts = c
  BY DEF Closed
<1>2. ~InNamedTable(a)
  BY <1>1 DEF InNamedTable
<1>3. Flushed(a) = a
  BY <1>1, <1>2, FlushedFields
<1> QED
  BY <1>1, <1>3 DEF Between

LEMMA OpenFlushed ==
  ASSUME NEW a, NEW p, NEW m, NEW q, NEW c, Open(a, p, m, q, c), m # 0
  PROVE  Between(a) /\ Flushed(a).pairs = Append(p, <<m, q>>) /\ a.counts = c
<1>1. /\ a \in ReadStates /\ a.inTable = TRUE /\ a.name = m /\ a.pairs = p
      /\ a.rows = q /\ a.counts = c
  BY DEF Open
<1>2. InNamedTable(a)
  BY <1>1 DEF InNamedTable
<1>3. Flushed(a).pairs = Append(a.pairs, <<a.name, a.rows>>)
  BY <1>1, <1>2, FlushedFields
<1> QED
  BY <1>1, <1>3 DEF Between

LEMMA NameStep ==
  ASSUME NEW a, Between(a), NEW r, NEW m \in Nat, r.tag = ParamName, r.value = <<m>>, NEW ids
  PROVE  Closed(RecordRead(a, r, ids), Flushed(a).pairs, m, a.counts)
<1>0. PICK b : b = RecordRead(a, r, ids) /\ b = NameRead(a, r)
  BY ReadByTag, Zenon
<1>1. r.value[1] = m
  OBVIOUS
<1>2. CASE InNamedTable(a)
  <2>1. PICK f : f = Flushed(a)
    OBVIOUS
  <2>2. f \in ReadStates /\ f.counts = a.counts
    BY <2>1, FlushedFields DEF Between
  <2>3. b = [f EXCEPT !.inTable = FALSE, !.rows = <<>>, !.name = m]
    BY <1>0, <1>1, <1>2, <2>1 DEF NameRead
  <2>4. <<>> \in Seq(Nat)
    OBVIOUS
  <2>5. /\ b \in ReadStates /\ b.pairs = f.pairs /\ b.name = m
        /\ b.inTable = FALSE /\ b.counts = f.counts
    BY <2>2, <2>3, <2>4 DEF ReadStates
  <2> QED
    BY <1>0, <2>1, <2>2, <2>5 DEF Closed
<1>3. CASE ~InNamedTable(a)
  <2>1. b = [a EXCEPT !.name = m]
    BY <1>0, <1>1, <1>3 DEF NameRead
  <2>2. Flushed(a) = a /\ a \in ReadStates
    BY <1>3, FlushedFields DEF Between
  <2>3. a.inTable = FALSE
    BY <1>3 DEF InNamedTable, Between, ReadStates
  <2>4. /\ b \in ReadStates /\ b.pairs = a.pairs /\ b.name = m
        /\ b.inTable = FALSE /\ b.counts = a.counts
    BY <2>1, <2>2, <2>3 DEF ReadStates
  <2> QED
    BY <1>0, <2>2, <2>4 DEF Closed
<1> QED
  BY <1>2, <1>3

LEMMA ValueStep ==
  ASSUME NEW a, NEW p, NEW m, NEW c, Closed(a, p, m, c), m # 0,
         NEW r, r.tag = ParamValue, r.value \in Seq(Nat), NEW ids
  PROVE  Closed(RecordRead(a, r, ids), Append(p, <<m, r.value>>), 0, c)
<1>0. PICK b : b = RecordRead(a, r, ids) /\ b = ValueRead(a, r)
  BY ReadByTag, Zenon
<1>1. /\ a \in ReadStates /\ a.inTable = FALSE /\ a.name = m
      /\ a.pairs = p /\ a.counts = c
  BY DEF Closed
<1> DEFINE q == Append(p, <<m, r.value>>)
<1>2. q \in Pairs
  BY <1>1 DEF Pairs, ReadStates
<1>3. b = [a EXCEPT !.pairs = q, !.name = 0]
  BY <1>0, <1>1 DEF ValueRead
<1> HIDE DEF q
<1>4. PICK e : e = [a EXCEPT !.pairs = q]
  OBVIOUS
<1>5. e \in ReadStates /\ e.pairs = q /\ e.inTable = a.inTable /\ e.counts = a.counts
  BY <1>1, <1>2, <1>4 DEF ReadStates
<1>6. PICK z \in Nat : z = 0
  OBVIOUS
<1>7. b = [e EXCEPT !.name = z]
  BY <1>3, <1>4, <1>6
<1>8. /\ b \in ReadStates /\ b.pairs = e.pairs /\ b.name = z
      /\ b.inTable = e.inTable /\ b.counts = e.counts
  BY <1>5, <1>7 DEF ReadStates
<1>9. Closed(b, q, 0, c)
  BY <1>1, <1>5, <1>6, <1>8 DEF Closed
<1> QED
  BY <1>0, <1>9 DEF q

LEMMA TableNameStep ==
  ASSUME NEW a \in ReadStates, NEW r, r.tag = TableName, NEW m \in Nat,
         r.value = <<m>> \/ (r.value = <<>> /\ a.name = m), NEW ids
  PROVE  Open(RecordRead(a, r, ids), Flushed(a).pairs, m, <<>>, a.counts)
<1>0. PICK b : b = RecordRead(a, r, ids) /\ b = TableNameRead(a, r)
  BY ReadByTag, Zenon
<1>1. PICK f : f = Flushed(a)
  OBVIOUS
<1>2. f \in ReadStates /\ f.name = a.name /\ f.counts = a.counts
  BY <1>1, FlushedFields
<1>3. b = [f EXCEPT !.name = m, !.inTable = TRUE, !.rows = <<>>]
  <2>1. (IF r.value = <<>> THEN f.name ELSE r.value[1]) = m
    <3>1. CASE r.value = <<m>>
      <4>1. r.value # <<>> /\ r.value[1] = m
        BY <3>1
      <4> QED
        BY <4>1, Zenon
    <3>2. CASE r.value = <<>> /\ a.name = m
      BY <1>2, <3>2
    <3> QED
      BY <3>1, <3>2
  <2> QED
    BY <1>0, <1>1, <2>1 DEF TableNameRead
<1>4. <<>> \in Seq(Nat)
  OBVIOUS
<1>5. /\ b \in ReadStates /\ b.pairs = f.pairs /\ b.name = m
      /\ b.inTable = TRUE /\ b.rows = <<>> /\ b.counts = f.counts
  BY <1>2, <1>3, <1>4 DEF ReadStates
<1> QED
  BY <1>0, <1>1, <1>2, <1>5 DEF Open

LEMMA InfoStep ==
  ASSUME NEW a, NEW p, NEW m, NEW q, NEW c, Open(a, p, m, q, c), m # 0,
         NEW r, r.tag = TableInfo, NEW n \in Nat, r.value[2] = n, NEW ids
  PROVE  Open(RecordRead(a, r, ids), p, m, q, Counted(c, m, n))
<1>0. PICK b : b = RecordRead(a, r, ids) /\ b = InfoRead(a, r)
  BY ReadByTag, Zenon
<1>1. /\ a \in ReadStates /\ a.inTable = TRUE /\ a.name = m
      /\ a.pairs = p /\ a.rows = q /\ a.counts = c
  BY DEF Open
<1> DEFINE e == Append(c, <<m, n>>)
<1>2. e \in Counts
  BY <1>1 DEF Counts, ReadStates
<1>3. b = IF n > 0 THEN [a EXCEPT !.counts = e] ELSE a
  BY <1>0, <1>1 DEF InfoRead, InNamedTable
<1> HIDE DEF e
<1>4. /\ b \in ReadStates /\ b.pairs = a.pairs /\ b.name = a.name
      /\ b.inTable = TRUE /\ b.rows = a.rows
      /\ b.counts = IF n > 0 THEN e ELSE a.counts
  BY <1>1, <1>2, <1>3 DEF ReadStates
<1>5. Open(b, p, m, q, IF n > 0 THEN e ELSE c)
  BY <1>1, <1>4 DEF Open
<1> QED
  BY <1>0, <1>5, Zenon DEF e, Counted

LEMMA RowsStep ==
  ASSUME NEW a, NEW p, NEW m, NEW q, NEW c, Open(a, p, m, q, c),
         NEW r, r.tag \in {TableContent, TableRow}, r.value \in Seq(Nat), NEW ids
  PROVE  Open(RecordRead(a, r, ids), p, m, q \o r.value, c)
<1>1. /\ a \in ReadStates /\ a.inTable /\ a.name = m
      /\ a.pairs = p /\ a.rows = q /\ a.counts = c
  BY DEF Open
<1>2. PICK b : b = RecordRead(a, r, ids) /\ b = [a EXCEPT !.rows = @ \o r.value]
  BY <1>1, ReadByTag, Zenon
<1> DEFINE e == q \o r.value
<1>3. e \in Seq(Nat)
  BY <1>1, ConcatProperties DEF ReadStates
<1>4. b = [a EXCEPT !.rows = e]
  BY <1>1, <1>2
<1> HIDE DEF e
<1>5. /\ b \in ReadStates /\ b.pairs = a.pairs /\ b.name = a.name
      /\ b.inTable = TRUE /\ b.rows = e /\ b.counts = a.counts
  BY <1>1, <1>3, <1>4 DEF ReadStates
<1> QED
  BY <1>1, <1>2, <1>5 DEF Open, e

LEMMA DeltaStep ==
  ASSUME NEW a \in ReadStates, NEW ids, NEW id \in DOMAIN ids, NEW m \in Nat, ids[id] = m,
         NEW r, r.tag = TableDelta, NEW x, NEW n, r.value = <<x, id, n>>
  PROVE  Open(RecordRead(a, r, ids), Flushed(a).pairs, m, <<>>, a.counts)
<1>0. PICK b : b = RecordRead(a, r, ids) /\ b = DeltaRead(a, r, ids)
  <2>1. RecordRead(a, r, ids) = DeltaRead(a, r, ids)
    BY DeltaByTag
  <2> QED
    BY <2>1
<1>1. PICK f : f = Flushed(a)
  OBVIOUS
<1>2. f \in ReadStates /\ f.counts = a.counts
  BY <1>1, FlushedFields
<1>3. Len(r.value) >= 3 /\ r.value[2] = id
  OBVIOUS
<1>4. b = [f EXCEPT !.name = m, !.inTable = TRUE, !.rows = <<>>]
  BY <1>0, <1>1, <1>3 DEF DeltaRead
<1>5. <<>> \in Seq(Nat)
  OBVIOUS
<1>6. /\ b \in ReadStates /\ b.pairs = f.pairs /\ b.name = m
      /\ b.inTable = TRUE /\ b.rows = <<>> /\ b.counts = f.counts
  BY <1>2, <1>4, <1>5 DEF ReadStates
<1> QED
  BY <1>0, <1>1, <1>2, <1>6 DEF Open

LEMMA EndStep ==
  ASSUME NEW a, NEW p, NEW m, NEW q, NEW c, Open(a, p, m, q, c), m # 0,
         NEW r, r.tag \in {TableEnd, TableDeltaEnd}, NEW ids
  PROVE  Closed(RecordRead(a, r, ids), Append(p, <<m, q>>), 0, c)
<1>0. PICK b : b = RecordRead(a, r, ids) /\ b = TableEndRead(a)
  <2>1. RecordRead(a, r, ids) = TableEndRead(a)
    BY ReadByTag
  <2> QED
    BY <2>1, Zenon
<1>1. /\ a \in ReadStates /\ a.inTable = TRUE /\ a.name = m
      /\ a.pairs = p /\ a.rows = q /\ a.counts = c
  BY DEF Open
<1>2. InNamedTable(a)
  BY <1>1 DEF InNamedTable
<1>3. PICK f : f = Flushed(a)
  OBVIOUS
<1>4. f \in ReadStates /\ f.counts = c /\ f.pairs = Append(p, <<m, q>>)
  BY <1>1, <1>2, <1>3, FlushedFields
<1>5. PICK z \in Nat : z = 0
  OBVIOUS
<1>6. b = [f EXCEPT !.name = z, !.inTable = FALSE, !.rows = <<>>]
  BY <1>0, <1>2, <1>3, <1>5 DEF TableEndRead
<1>7. <<>> \in Seq(Nat)
  OBVIOUS
<1>8. /\ b \in ReadStates /\ b.pairs = f.pairs /\ b.name = z
      /\ b.inTable = FALSE /\ b.counts = f.counts
  BY <1>4, <1>6, <1>7 DEF ReadStates
<1> QED
  BY <1>0, <1>4, <1>5, <1>8 DEF Closed

(* From a to b one parameter was read: its data, and the count n it was     *)
(* declared with, if any.                                                   *)
Adds(a, b, name, data, n) ==
  /\ Between(b)
  /\ Flushed(b).pairs = Append(Flushed(a).pairs, <<name, data>>)
  /\ b.counts = Counted(a.counts, name, n)

LEMMA RecordsConcat ==
  ASSUME NEW rs \in Seq(TlvRecords), NEW qs \in Seq(TlvRecords), NEW r \in TlvRecords
  PROVE  /\ rs \o qs \in Seq(TlvRecords)
         /\ Append(qs, r) \in Seq(TlvRecords)
         /\ rs \o Append(qs, r) = Append(rs \o qs, r)
<1>1. rs \o qs \in Seq(TlvRecords) /\ Append(qs, r) \in Seq(TlvRecords)
  BY ConcatProperties, AppendProperties
<1>2. <<r>> \in Seq(TlvRecords)
  OBVIOUS
<1>3. Append(qs, r) = qs \o <<r>> /\ Append(rs \o qs, r) = (rs \o qs) \o <<r>>
  BY <1>1, AppendIsConcat
<1>4. (rs \o qs) \o <<r>> = rs \o (qs \o <<r>>)
  BY <1>2, ConcatAssociative
<1> QED
  BY <1>1, <1>3, <1>4, Zenon

LEMMA ScanStep ==
  ASSUME NEW rs \in Seq(TlvRecords), NEW qs \in Seq(TlvRecords), NEW r \in TlvRecords,
         NEW ids
  PROVE  Scan(rs \o Append(qs, r), ids) = RecordRead(Scan(rs \o qs, ids), r, ids)
<1>1. rs \o qs \in Seq(TlvRecords) /\ rs \o Append(qs, r) = Append(rs \o qs, r)
  BY RecordsConcat, Zenon
<1>2. PICK ps \in Seq(TlvRecords) : ps = rs \o qs
  BY <1>1
<1>3. Scan(Append(ps, r), ids) = RecordRead(Scan(ps, ids), r, ids)
  BY ScanAppend, Zenon
<1> QED
  BY <1>1, <1>2, <1>3

LEMMA ScanOne ==
  ASSUME NEW rs \in Seq(TlvRecords), NEW r \in TlvRecords, NEW ids
  PROVE  /\ <<r>> \in Seq(TlvRecords)
         /\ Scan(rs \o <<r>>, ids) = RecordRead(Scan(rs, ids), r, ids)
<1>1. rs \o <<r>> = Append(rs, r)
  BY AppendIsConcat
<1>2. Scan(Append(rs, r), ids) = RecordRead(Scan(rs, ids), r, ids)
  BY ScanAppend
<1>3. <<r>> \in Seq(TlvRecords)
  OBVIOUS
<1> QED
  BY <1>1, <1>2, <1>3, Zenon

LEMMA RecFields ==
  ASSUME NEW tag, NEW value
  PROVE  Rec(tag, value).tag = tag /\ Rec(tag, value).value = value
BY DEF Rec

LEMMA ScalarScanned ==
  ASSUME NEW front \in Seq(TlvRecords), NEW ids, NEW f \in Fields, NEW value \in Seq(Nat),
         Between(Scan(front, ids))
  PROVE  Adds(Scan(front, ids), Scan(front \o Scalar(f, value), ids), f.name, value, 0)
<1>1. PICK m \in Nat : m = f.name /\ m # 0
  BY DEF Fields
<1>2. PICK r : r = Rec(ParamName, <<m>>)
  OBVIOUS
<1>3. PICK q : q = Rec(ParamValue, value)
  OBVIOUS
<1>4. r \in TlvRecords /\ q \in TlvRecords
  BY <1>1, <1>2, <1>3 DEF TlvRecords, Rec, ParamName, ParamValue
<1>5. r.tag = ParamName /\ r.value = <<m>> /\ q.tag = ParamValue /\ q.value = value
  BY <1>2, <1>3, RecFields
<1>6. PICK ps : ps = <<r>>
  OBVIOUS
<1>7. Scalar(f, value) = Append(ps, q)
  BY <1>1, <1>2, <1>3, <1>6 DEF Scalar
<1>8. PICK a : a = Scan(front, ids)
  OBVIOUS
<1>9. PICK b : b = Scan(front \o ps, ids)
  OBVIOUS
<1>10. Closed(b, Flushed(a).pairs, m, a.counts) /\ ps \in Seq(TlvRecords)
  <2>1. /\ <<r>> \in Seq(TlvRecords)
        /\ Scan(front \o <<r>>, ids) = RecordRead(Scan(front, ids), r, ids)
    BY <1>4, ScanOne, Zenon
  <2>2. b = RecordRead(a, r, ids) /\ Between(a)
    BY <1>6, <1>8, <1>9, <2>1
  <2>3. Closed(RecordRead(a, r, ids), Flushed(a).pairs, m, a.counts)
    BY <1>5, <2>2, NameStep, Zenon
  <2> QED
    BY <1>6, <2>1, <2>2, <2>3
<1>11. Closed(RecordRead(b, q, ids), Append(Flushed(a).pairs, <<m, value>>), 0, a.counts)
  BY <1>1, <1>5, <1>10, ValueStep, Zenon
<1>12. Scan(front \o Scalar(f, value), ids) = RecordRead(b, q, ids)
  <2>1. Scan(front \o Append(ps, q), ids) = RecordRead(Scan(front \o ps, ids), q, ids)
    BY <1>4, <1>10, ScanStep, Zenon
  <2> QED
    BY <1>7, <1>9, <2>1
<1>13. ~(0 > 0)
  OBVIOUS
<1> QED
  <2>1. PICK z : z = RecordRead(b, q, ids)
    OBVIOUS
  <2>2. /\ Between(z) /\ Flushed(z).pairs = Append(Flushed(a).pairs, <<m, value>>)
        /\ z.counts = a.counts
    BY <1>11, <2>1, ClosedFlushed, Zenon
  <2>3. Counted(a.counts, m, 0) = a.counts
    BY <1>13, Zenon DEF Counted
  <2>4. Adds(a, z, m, value, 0)
    BY <2>2, <2>3, Zenon DEF Adds
  <2> QED
    BY <1>1, <1>8, <1>12, <2>1, <2>4, Zenon

LEMMA RowsAreSeqs == Rows \subseteq Seq(Seq(Nat))
<1> SUFFICES ASSUME NEW rows \in Rows
             PROVE  rows \in Seq(Seq(Nat))
  OBVIOUS
<1>1. [1..RowSize -> Nat] \subseteq Seq(Nat)
  BY RowIsCells
<1> QED
  BY <1>1 DEF Rows

LEMMA RowRecordsAppend ==
  ASSUME NEW tag \in Nat \ {Terminator}, NEW rows \in Rows, NEW row \in [1..RowSize -> Nat]
  PROVE  /\ Append(rows, row) \in Rows
         /\ RowRecords(tag, Append(rows, row)) = Append(RowRecords(tag, rows), Rec(tag, row))
<1>1. PICK qs \in Rows : /\ qs = Append(rows, row) /\ Len(qs) = Len(rows) + 1
                         /\ \A i \in 1..Len(rows) : qs[i] = rows[i]
                         /\ qs[Len(rows) + 1] = row
  <2>1. PICK X : X = [1..RowSize -> Nat]
    OBVIOUS
  <2>2. rows \in Seq(X) /\ row \in X
    BY <2>1 DEF Rows
  <2>3. /\ Append(rows, row) \in Seq(X) /\ Len(Append(rows, row)) = Len(rows) + 1
        /\ \A i \in 1..Len(rows) : Append(rows, row)[i] = rows[i]
        /\ Append(rows, row)[Len(rows) + 1] = row
    BY <2>2, AppendProperties
  <2> QED
    BY <2>1, <2>3, Zenon DEF Rows
<1>2. Len(rows) \in Nat
  BY LenProperties DEF Rows
<1>3. Rec(tag, row) \in PlainRecords
  BY RecIsPlain, RowIsCells
<1>4. PICK ls \in Seq(PlainRecords) :
        /\ ls = RowRecords(tag, rows) /\ Len(ls) = Len(rows)
        /\ \A i \in 1..Len(rows) : ls[i] = Rec(tag, rows[i])
  BY RowRecordsType
<1>5. PICK ks \in Seq(PlainRecords) :
        /\ ks = RowRecords(tag, qs) /\ Len(ks) = Len(qs)
        /\ \A i \in 1..Len(qs) : ks[i] = Rec(tag, qs[i])
  BY RowRecordsType
<1>6. PICK r \in PlainRecords : r = Rec(tag, row)
  BY <1>3
<1>7. PICK ms \in Seq(PlainRecords) :
        /\ ms = Append(ls, r) /\ Len(ms) = Len(ls) + 1
        /\ \A i \in 1..Len(ls) : ms[i] = ls[i]
        /\ ms[Len(ls) + 1] = r
  BY AppendProperties
<1>8. \A i \in 1..Len(ks) : ks[i] = ms[i]
  <2> TAKE i \in 1..Len(ks)
  <2>1. CASE i \in 1..Len(rows)
    BY <1>1, <1>2, <1>4, <1>5, <1>7, <2>1
  <2>2. CASE i = Len(rows) + 1
    BY <1>1, <1>2, <1>4, <1>5, <1>6, <1>7, <2>2
  <2> QED
    BY <1>1, <1>2, <1>5, <2>1, <2>2
<1>9. Len(ks) = Len(ms)
  BY <1>1, <1>4, <1>5, <1>7
<1>10. ks = ms
  BY <1>8, <1>9, SeqEqual
<1> QED
  BY <1>1, <1>4, <1>5, <1>6, <1>7, <1>10

(* The records of a table's rows add them to the table that is open.        *)
LEMMA RowsScanned ==
  ASSUME NEW front \in Seq(TlvRecords), NEW ids, NEW tag \in {TableContent, TableRow},
         NEW p, NEW m, NEW c, Open(Scan(front, ids), p, m, <<>>, c)
  PROVE  \A rows \in Rows :
           Open(Scan(front \o RowRecords(tag, rows), ids), p, m, FlattenSeq(rows), c)
<1> DEFINE P == {rows \in Rows :
                   Open(Scan(front \o RowRecords(tag, rows), ids), p, m, FlattenSeq(rows), c)}
<1>1. tag \in Nat \ {Terminator}
  BY DEF TableContent, TableRow, Terminator
<1>2. <<>> \in P
  <2>1. RowRecords(tag, <<>>) = <<>> /\ <<>> \in Rows
    BY DEF RowRecords, Rows
  <2>2. front \o <<>> = front
    BY ConcatEmptySeq
  <2> QED
    BY <2>1, <2>2, FlattenEmpty
<1>3. ASSUME NEW rows \in Rows, NEW row \in [1..RowSize -> Nat], rows \in P
      PROVE  Append(rows, row) \in P
  <2>1. PICK r : r = Rec(tag, row)
    OBVIOUS
  <2>2. r \in TlvRecords /\ r.tag = tag /\ r.value = row /\ row \in Seq(Nat)
    BY <1>1, <2>1, RecIsPlain, RowIsCells, RecFields DEF PlainRecords
  <2>3. RowRecords(tag, rows) \in Seq(TlvRecords)
    BY <1>1, RowRecordsType, PlainSequence
  <2>4. /\ Append(rows, row) \in Rows
        /\ RowRecords(tag, Append(rows, row)) = Append(RowRecords(tag, rows), r)
    BY <1>1, <2>1, RowRecordsAppend
  <2>5. PICK a : a = Scan(front \o RowRecords(tag, rows), ids)
    OBVIOUS
  <2>6. Open(a, p, m, FlattenSeq(rows), c)
    BY <1>3, <2>5
  <2>7. Open(RecordRead(a, r, ids), p, m, FlattenSeq(rows) \o r.value, c)
    BY <2>2, <2>6, RowsStep
  <2>8. FlattenSeq(Append(rows, row)) = FlattenSeq(rows) \o row
    BY <2>2, RowsAreSeqs, FlattenAppend
  <2>9. Scan(front \o Append(RowRecords(tag, rows), r), ids) = RecordRead(a, r, ids)
    BY <2>2, <2>3, <2>5, ScanStep
  <2> QED
    BY <2>2, <2>4, <2>7, <2>8, <2>9
<1>4. \A rows \in Rows : rows \in P
  <2> HIDE DEF P
  <2>1. \A rows \in Seq([1..RowSize -> Nat]), row \in [1..RowSize -> Nat] :
          rows \in P => Append(rows, row) \in P
    BY <1>3 DEF Rows
  <2> QED
    BY <1>2, <2>1, SeqInduction DEF Rows
<1> QED
  BY <1>4

LEMMA RecordsAssoc ==
  \A a, b, c \in Seq(TlvRecords) : (a \o b) \o c = a \o (b \o c)
BY ConcatAssociative

HeadedTable(m, id, tag, rows) ==
  <<Rec(TableName, <<m>>), Rec(DmTableId, <<id>>), Rec(TableInfo, <<RowSize, Len(rows)>>)>>
  \o RowRecords(tag, rows)

(* The first record of a table opens it.                                    *)
LEMMA TableOpened ==
  ASSUME NEW front \in Seq(TlvRecords), NEW ids, Between(Scan(front, ids)), NEW m \in Nat,
         NEW x, x = Rec(TableName, <<m>>)
  PROVE  /\ x \in TlvRecords /\ <<x>> \in Seq(TlvRecords)
         /\ Open(Scan(front \o <<x>>, ids), Flushed(Scan(front, ids)).pairs, m, <<>>,
                 Scan(front, ids).counts)
<1>1. x \in TlvRecords /\ x.tag = TableName /\ x.value = <<m>>
  BY RecFields DEF TlvRecords, Rec, TableName
<1>2. PICK a \in ReadStates : a = Scan(front, ids)
  BY DEF Between
<1>3. Open(RecordRead(a, x, ids), Flushed(a).pairs, m, <<>>, a.counts)
  BY <1>1, TableNameStep
<1>4. <<x>> \in Seq(TlvRecords) /\ Scan(front \o <<x>>, ids) = RecordRead(Scan(front, ids), x, ids)
  BY <1>1, ScanOne, Zenon
<1> QED
  BY <1>1, <1>2, <1>3, <1>4

LEMMA HeadedScanned ==
  ASSUME NEW front \in Seq(TlvRecords), NEW ids, Between(Scan(front, ids)),
         NEW m \in Nat \ {0}, NEW id \in Nat, NEW tag \in {TableContent, TableRow},
         NEW rows \in Rows
  PROVE  Adds(Scan(front, ids), Scan(front \o HeadedTable(m, id, tag, rows), ids),
              m, FlattenSeq(rows), Len(rows))
<1>1. PICK n \in Nat : n = Len(rows)
  BY LenProperties DEF Rows
<1>2. PICK x : x = Rec(TableName, <<m>>)
  OBVIOUS
<1>3. PICK y : y = Rec(DmTableId, <<id>>)
  OBVIOUS
<1>4. PICK z : z = Rec(TableInfo, <<RowSize, n>>)
  OBVIOUS
<1>5. /\ y \in TlvRecords /\ y.tag = DmTableId
      /\ z \in TlvRecords /\ z.tag = TableInfo /\ z.value[2] = n
  <2>1. <<RowSize, n>> \in Seq(Nat) /\ <<RowSize, n>>[2] = n
    BY WireAssumption
  <2> QED
    BY <1>3, <1>4, <2>1, RecFields DEF TlvRecords, Rec, DmTableId, TableInfo
<1>6. PICK a : a = Scan(front, ids)
  OBVIOUS
<1>7. PICK p, c : p = Flushed(a).pairs /\ c = a.counts
  OBVIOUS
<1>8. PICK ps : ps = <<x>>
  OBVIOUS
<1>9. ps \in Seq(TlvRecords) /\ x \in TlvRecords /\ Open(Scan(front \o ps, ids), p, m, <<>>, c)
  BY <1>2, <1>6, <1>7, <1>8, TableOpened
<1>10. PICK qs \in Seq(TlvRecords) : qs = Append(ps, y)
  BY <1>5, <1>9, AppendProperties
<1>11. Open(Scan(front \o qs, ids), p, m, <<>>, c)
  <2>1. Scan(front \o Append(ps, y), ids) = RecordRead(Scan(front \o ps, ids), y, ids)
    <3>1. y \in TlvRecords /\ ps \in Seq(TlvRecords)
      BY <1>5, <1>9
    <3> QED
      BY <3>1, ScanStep
  <2>2. RecordRead(Scan(front \o ps, ids), y, ids) = Scan(front \o ps, ids)
    BY <1>5, ReadByTag
  <2> QED
    BY <1>9, <1>10, <2>1, <2>2
<1>12. PICK rs \in Seq(TlvRecords) : rs = Append(qs, z)
  BY <1>5, AppendProperties
<1>13. PICK e : e = Counted(c, m, n)
  OBVIOUS
<1>14. Open(Scan(front \o rs, ids), p, m, <<>>, e)
  <2>1. Scan(front \o Append(qs, z), ids) = RecordRead(Scan(front \o qs, ids), z, ids)
    <3>1. z \in TlvRecords
      BY <1>5
    <3> QED
      BY <3>1, ScanStep
  <2>2. m # 0
    OBVIOUS
  <2>3. Open(RecordRead(Scan(front \o qs, ids), z, ids), p, m, <<>>, Counted(c, m, n))
    BY <1>5, <1>11, <2>2, InfoStep, Zenon
  <2> QED
    BY <1>12, <1>13, <2>1, <2>3
<1>15. PICK heads \in Seq(TlvRecords) : heads = front \o rs
  BY ConcatProperties
<1>16. Open(Scan(heads \o RowRecords(tag, rows), ids), p, m, FlattenSeq(rows), e)
  BY <1>14, <1>15, RowsScanned, Zenon
<1>17. front \o HeadedTable(m, id, tag, rows) = heads \o RowRecords(tag, rows)
  <2>1. tag \in Nat \ {Terminator}
    BY DEF TableContent, TableRow, Terminator
  <2>2. PICK ls \in Seq(TlvRecords) : ls = RowRecords(tag, rows)
    BY <2>1, RowRecordsType, PlainSequence
  <2>3. <<x, y, z>> = rs
    BY <1>8, <1>10, <1>12
  <2>4. HeadedTable(m, id, tag, rows) = rs \o ls
    BY <1>1, <1>2, <1>3, <1>4, <2>2, <2>3 DEF HeadedTable
  <2>5. (front \o rs) \o ls = front \o (rs \o ls)
    BY RecordsAssoc, ZenonT(60)
  <2> QED
    BY <1>15, <2>2, <2>4, <2>5
<1>18. m # 0
  OBVIOUS
<1>19. PICK b : b = Scan(front \o HeadedTable(m, id, tag, rows), ids)
  OBVIOUS
<1>20. /\ Between(b) /\ Flushed(b).pairs = Append(p, <<m, FlattenSeq(rows)>>) /\ b.counts = e
  <2>1. Open(b, p, m, FlattenSeq(rows), e)
    BY <1>16, <1>17, <1>19
  <2> QED
    BY <1>18, <2>1, OpenFlushed, Zenon
<1>21. Adds(a, b, m, FlattenSeq(rows), n)
  BY <1>7, <1>13, <1>20, Zenon DEF Adds
<1> QED
  BY <1>1, <1>6, <1>19, <1>21

LEMMA OneThenTwo ==
  ASSUME NEW X, NEW x \in X, NEW y \in X, NEW z \in X
  PROVE  <<x>> \o <<y, z>> = <<x, y, z>>
<1>1. PICK t : t = <<x>>
  OBVIOUS
<1>2. PICK u : u = <<y, z>>
  OBVIOUS
<1>3. PICK w : w = <<x, y, z>>
  OBVIOUS
<1>4. t \in Seq(X) /\ Len(t) = 1 /\ t[1] = x
  BY <1>1
<1>5. u \in Seq(X) /\ Len(u) = 2 /\ u[1] = y /\ u[2] = z
  BY <1>2
<1>6. w \in Seq(X) /\ Len(w) = 3 /\ w[1] = x /\ w[2] = y /\ w[3] = z
  BY <1>3
<1>7. PICK v : v = t \o u
  OBVIOUS
<1>8. /\ v \in Seq(X) /\ Len(v) = Len(t) + Len(u)
      /\ \A i \in 1..Len(t) + Len(u) : v[i] = IF i <= Len(t) THEN t[i] ELSE u[i - Len(t)]
  BY <1>4, <1>5, <1>7, ConcatProperties
<1>9. Len(v) = 3 /\ v[1] = x /\ v[2] = y /\ v[3] = z
  BY <1>4, <1>5, <1>8
<1>10. \A i \in 1..Len(v) : v[i] = w[i]
  BY <1>6, <1>9
<1>11. v = w
  BY <1>6, <1>9, <1>10, <1>8, SeqEqual
<1> QED
  BY <1>1, <1>2, <1>3, <1>7, <1>11

LEMMA PlainTableScanned ==
  ASSUME NEW front \in Seq(TlvRecords), NEW ids, Between(Scan(front, ids)),
         NEW f \in Fields, NEW rows \in Rows
  PROVE  Adds(Scan(front, ids), Scan(front \o PlainTable(f, rows), ids),
              f.name, FlattenSeq(rows), Len(rows))
<1>1. PICK m \in Nat \ {0} : m = f.name
  BY DEF Fields
<1>2. CASE rows # <<>>
  <2>1. PICK x : x = Rec(TableName, <<m>>)
    OBVIOUS
  <2>2. PICK y : y = Rec(DmTableId, <<1>>)
    OBVIOUS
  <2>3. PICK z : z = Rec(TableInfo, <<RowSize, Len(rows)>>)
    OBVIOUS
  <2>4. TableRow \in Nat \ {Terminator} /\ TableRow \in {TableContent, TableRow} /\ 1 \in Nat
    BY DEF TableRow, Terminator
  <2>5. PICK ls \in Seq(TlvRecords) : ls = RowRecords(TableRow, rows)
    BY <2>4, RowRecordsType, PlainSequence
  <2>6. PICK S : x \in S /\ y \in S /\ z \in S /\ ls \in Seq(S)
    <3>1. TlvRecords \subseteq TlvRecords \union {x, y, z}
      OBVIOUS
    <3>2. ls \in Seq(TlvRecords \union {x, y, z})
      BY <3>1
    <3> QED
      BY <3>2
  <2>7. <<x>> \o (<<y, z>> \o ls) = <<x, y, z>> \o ls
    <3>1. <<x>> \in Seq(S) /\ <<y, z>> \in Seq(S) /\ <<x>> \o <<y, z>> = <<x, y, z>>
      <4>1. <<x>> \in Seq(S)
        BY <2>6
      <4>2. <<y, z>> \in Seq(S)
        BY <2>6
      <4>3. <<x>> \o <<y, z>> = <<x, y, z>>
        BY <2>6, OneThenTwo
      <4> QED
        BY <4>1, <4>2, <4>3
    <3>2. (<<x>> \o <<y, z>>) \o ls = <<x>> \o (<<y, z>> \o ls)
      BY <2>6, <3>1, ConcatAssociative
    <3> QED
      BY <3>1, <3>2
  <2>8. PlainTable(f, rows) = HeadedTable(m, 1, TableRow, rows)
    BY <1>1, <1>2, <2>1, <2>2, <2>3, <2>5, <2>7 DEF PlainTable, HeadedTable
  <2> QED
    BY <1>1, <2>4, <2>8, HeadedScanned
<1>3. CASE rows = <<>>
  <2>1. PICK x : x = Rec(TableName, <<m>>)
    OBVIOUS
  <2>2. /\ <<x>> \in Seq(TlvRecords)
        /\ Open(Scan(front \o <<x>>, ids), Flushed(Scan(front, ids)).pairs, m, <<>>,
                Scan(front, ids).counts)
    BY <2>1, TableOpened
  <2>3. PlainTable(f, rows) = <<x>>
    <3>1. <<x>> \o <<>> = <<x>>
      BY <2>2, ConcatEmptySeq
    <3> QED
      BY <1>1, <1>3, <2>1, <3>1 DEF PlainTable
  <2>4. m # 0 /\ FlattenSeq(rows) = <<>> /\ Len(rows) = 0 /\ ~(0 > 0)
    BY <1>3, FlattenEmpty
  <2>5. PICK b : b = Scan(front \o <<x>>, ids)
    OBVIOUS
  <2>6. PICK a : a = Scan(front, ids)
    OBVIOUS
  <2>7. Between(b) /\ Flushed(b).pairs = Append(Flushed(a).pairs, <<m, <<>>>>)
        /\ b.counts = a.counts
    <3>1. Open(b, Flushed(a).pairs, m, <<>>, a.counts)
      BY <2>2, <2>5, <2>6
    <3> QED
      BY <2>4, <3>1, OpenFlushed
  <2>8. Adds(a, b, m, <<>>, 0)
    BY <2>4, <2>7, Zenon DEF Adds, Counted
  <2> QED
    BY <1>1, <2>3, <2>4, <2>5, <2>6, <2>8
<1> QED
  BY <1>2, <1>3

LEMMA ClosedIsFlushed ==
  ASSUME NEW a, NEW p, NEW m, NEW c, Closed(a, p, m, c)
  PROVE  a \in ReadStates /\ a.name = m /\ Flushed(a).pairs = p /\ a.counts = c
<1>1. a \in ReadStates /\ a.inTable = FALSE /\ a.name = m /\ a.pairs = p /\ a.counts = c
  BY DEF Closed
<1>2. ~InNamedTable(a)
  BY <1>1 DEF InNamedTable
<1>3. Flushed(a) = a
  BY <1>1, <1>2, FlushedFields
<1> QED
  BY <1>1, <1>3

LEMMA FiveAppended ==
  ASSUME NEW X, NEW a \in X, NEW b \in X, NEW c \in X, NEW d \in X, NEW e \in X
  PROVE  Append(Append(Append(Append(<<a>>, b), c), d), e) = <<a, b, c, d, e>>
<1>1. PICK s1 : s1 = <<a>>
  OBVIOUS
<1>2. s1 \in Seq(X) /\ Len(s1) = 1 /\ s1[1] = a
  BY <1>1
<1>3. PICK s2 : s2 = Append(s1, b)
  OBVIOUS
<1>4. s2 \in Seq(X) /\ Len(s2) = 2 /\ s2[1] = a /\ s2[2] = b
  <2>1. s1 \in Seq(X)
    BY <1>2
  <2>2. /\ Append(s1, b) \in Seq(X) /\ Len(Append(s1, b)) = Len(s1) + 1
        /\ \A i \in 1..Len(s1) : Append(s1, b)[i] = s1[i]
        /\ Append(s1, b)[Len(s1) + 1] = b
    BY <2>1, AppendProperties
  <2>3. /\ s2 \in Seq(X) /\ Len(s2) = Len(s1) + 1
        /\ \A i \in 1..Len(s1) : s2[i] = s1[i]
        /\ s2[Len(s1) + 1] = b
    BY <1>3, <2>2
  <2> QED
    BY <1>2, <2>3
<1>5. PICK s3 : s3 = Append(s2, c)
  OBVIOUS
<1>6. s3 \in Seq(X) /\ Len(s3) = 3 /\ s3[1] = a /\ s3[2] = b /\ s3[3] = c
  <2>1. s2 \in Seq(X)
    BY <1>4
  <2>2. /\ Append(s2, c) \in Seq(X) /\ Len(Append(s2, c)) = Len(s2) + 1
        /\ \A i \in 1..Len(s2) : Append(s2, c)[i] = s2[i]
        /\ Append(s2, c)[Len(s2) + 1] = c
    BY <2>1, AppendProperties
  <2>3. /\ s3 \in Seq(X) /\ Len(s3) = Len(s2) + 1
        /\ \A i \in 1..Len(s2) : s3[i] = s2[i]
        /\ s3[Len(s2) + 1] = c
    BY <1>5, <2>2
  <2> QED
    BY <1>4, <2>3
<1>7. PICK s4 : s4 = Append(s3, d)
  OBVIOUS
<1>8. s4 \in Seq(X) /\ Len(s4) = 4 /\ s4[1] = a /\ s4[2] = b /\ s4[3] = c /\ s4[4] = d
  <2>1. s3 \in Seq(X)
    BY <1>6
  <2>2. /\ Append(s3, d) \in Seq(X) /\ Len(Append(s3, d)) = Len(s3) + 1
        /\ \A i \in 1..Len(s3) : Append(s3, d)[i] = s3[i]
        /\ Append(s3, d)[Len(s3) + 1] = d
    BY <2>1, AppendProperties
  <2>3. /\ s4 \in Seq(X) /\ Len(s4) = Len(s3) + 1
        /\ \A i \in 1..Len(s3) : s4[i] = s3[i]
        /\ s4[Len(s3) + 1] = d
    BY <1>7, <2>2
  <2> QED
    BY <1>6, <2>3
<1>9. PICK s5 : s5 = Append(s4, e)
  OBVIOUS
<1>10. s5 \in Seq(X) /\ Len(s5) = 5 /\ s5[1] = a /\ s5[2] = b /\ s5[3] = c /\ s5[4] = d /\ s5[5] = e
  <2>1. s4 \in Seq(X)
    BY <1>8
  <2>2. /\ Append(s4, e) \in Seq(X) /\ Len(Append(s4, e)) = Len(s4) + 1
        /\ \A i \in 1..Len(s4) : Append(s4, e)[i] = s4[i]
        /\ Append(s4, e)[Len(s4) + 1] = e
    BY <2>1, AppendProperties
  <2>3. /\ s5 \in Seq(X) /\ Len(s5) = Len(s4) + 1
        /\ \A i \in 1..Len(s4) : s5[i] = s4[i]
        /\ s5[Len(s4) + 1] = e
    BY <1>9, <2>2
  <2> QED
    BY <1>8, <2>3
<1>11. PICK w : w = <<a, b, c, d, e>>
  OBVIOUS
<1>12. w \in Seq(X) /\ Len(w) = 5 /\ w[1] = a /\ w[2] = b /\ w[3] = c /\ w[4] = d /\ w[5] = e
  BY <1>11
<1>13. \A i \in 1..Len(s5) : s5[i] = w[i]
  BY <1>10, <1>12
<1>14. s5 = w
  BY <1>10, <1>12, <1>13, SeqEqual
<1> QED
  BY <1>1, <1>3, <1>5, <1>7, <1>9, <1>11, <1>14

LEMMA NamedTableScanned ==
  ASSUME NEW front \in Seq(TlvRecords), NEW ids, Between(Scan(front, ids)),
         NEW f \in Fields, NEW rows \in Rows
  PROVE  Adds(Scan(front, ids), Scan(front \o NamedTable(f, rows), ids),
              f.name, FlattenSeq(WiderRows(rows)), Len(rows))
<1>1. PICK m \in Nat : m = f.name /\ m # 0
  BY DEF Fields
<1>2. PICK n \in Nat : n = Len(rows)
  BY LenProperties DEF Rows
<1>3. PICK v \in Seq(Nat) : v = FlattenSeq(WiderRows(rows))
  BY WiderRowsType, FlattenType
<1>4. PICK k \in Nat : k = RowSize + Padding
  BY WireAssumption
<1>5. PICK r1 : r1 = Rec(ParamName, <<m>>)
  OBVIOUS
<1>6. PICK r2 : r2 = Rec(TableName, <<>>)
  OBVIOUS
<1>7. PICK r3 : r3 = Rec(TableInfo, <<k, n>>)
  OBVIOUS
<1>8. PICK r4 : r4 = Rec(TableContent, v)
  OBVIOUS
<1>9. PICK r5 : r5 = Rec(TableEnd, <<>>)
  OBVIOUS
<1>10. r1 \in TlvRecords /\ r1.tag = ParamName /\ r1.value = <<m>>
  BY <1>5, RecFields DEF TlvRecords, Rec, ParamName
<1>11. r2 \in TlvRecords /\ r2.tag = TableName /\ r2.value = <<>>
  BY <1>6, RecFields DEF TlvRecords, Rec, TableName
<1>12. r3 \in TlvRecords /\ r3.tag = TableInfo /\ r3.value[2] = n
  BY <1>7, RecFields DEF TlvRecords, Rec, TableInfo
<1>13. r4 \in TlvRecords /\ r4.tag \in {TableContent, TableRow} /\ r4.value = v
  BY <1>8, RecFields DEF TlvRecords, Rec, TableContent
<1>14. r5 \in TlvRecords /\ r5.tag \in {TableEnd, TableDeltaEnd}
  BY <1>9, RecFields DEF TlvRecords, Rec, TableEnd
<1>15. PICK a : a = Scan(front, ids)
  OBVIOUS
<1>16. PICK p, c : p = Flushed(a).pairs /\ c = a.counts
  OBVIOUS
<1>17. PICK s1 \in Seq(TlvRecords) : s1 = <<r1>>
  <2>1. r1 \in TlvRecords
    BY <1>10
  <2> QED
    BY <2>1, ScanOne
<1>18. PICK s2 \in Seq(TlvRecords) : s2 = Append(s1, r2)
  BY <1>11, AppendProperties
<1>19. PICK s3 \in Seq(TlvRecords) : s3 = Append(s2, r3)
  BY <1>12, AppendProperties
<1>20. PICK s4 \in Seq(TlvRecords) : s4 = Append(s3, r4)
  BY <1>13, AppendProperties
<1>21. PICK s5 \in Seq(TlvRecords) : s5 = Append(s4, r5)
  BY <1>14, AppendProperties
<1>22. NamedTable(f, rows) = s5
  <2>1. s5 = <<r1, r2, r3, r4, r5>>
    <3>1. /\ r1 \in TlvRecords /\ r2 \in TlvRecords /\ r3 \in TlvRecords
          /\ r4 \in TlvRecords /\ r5 \in TlvRecords
      BY <1>10, <1>11, <1>12, <1>13, <1>14
    <3>2. Append(Append(Append(Append(<<r1>>, r2), r3), r4), r5) = <<r1, r2, r3, r4, r5>>
      BY <3>1, FiveAppended
    <3> QED
      BY <1>17, <1>18, <1>19, <1>20, <1>21, <3>2, Zenon
  <2> QED
    BY <1>1, <1>2, <1>3, <1>4, <1>5, <1>6, <1>7, <1>8, <1>9, <2>1 DEF NamedTable
<1>23. Closed(Scan(front \o s1, ids), p, m, c)
  <2>1. Scan(front \o <<r1>>, ids) = RecordRead(a, r1, ids)
    BY <1>10, <1>15, ScanOne
  <2>2. Closed(RecordRead(a, r1, ids), Flushed(a).pairs, m, a.counts)
    BY <1>10, <1>15, NameStep
  <2> QED
    BY <1>16, <1>17, <2>1, <2>2
<1>24. Open(Scan(front \o s2, ids), p, m, <<>>, c)
  <2>1. PICK b : b = Scan(front \o s1, ids)
    OBVIOUS
  <2>2. b \in ReadStates /\ b.name = m /\ Flushed(b).pairs = p /\ b.counts = c
    BY <1>23, <2>1, ClosedIsFlushed
  <2>3. Open(RecordRead(b, r2, ids), Flushed(b).pairs, m, <<>>, b.counts)
    BY <1>11, <2>2, TableNameStep
  <2>4. Scan(front \o Append(s1, r2), ids) = RecordRead(b, r2, ids)
    BY <1>11, <2>1, ScanStep
  <2> QED
    BY <1>18, <2>2, <2>3, <2>4
<1>25. Open(Scan(front \o s3, ids), p, m, <<>>, Counted(c, m, n))
  <2>1. Open(RecordRead(Scan(front \o s2, ids), r3, ids), p, m, <<>>, Counted(c, m, n))
    BY <1>1, <1>12, <1>24, InfoStep
  <2>2. Scan(front \o Append(s2, r3), ids) = RecordRead(Scan(front \o s2, ids), r3, ids)
    BY <1>12, ScanStep
  <2> QED
    BY <1>19, <2>1, <2>2
<1>26. Open(Scan(front \o s4, ids), p, m, v, Counted(c, m, n))
  <2>1. Open(RecordRead(Scan(front \o s3, ids), r4, ids), p, m, <<>> \o r4.value, Counted(c, m, n))
    <3>1. r4.tag \in {TableContent, TableRow} /\ r4.value \in Seq(Nat)
      BY <1>13
    <3>2. PICK q : q = <<>>
      OBVIOUS
    <3>3. PICK b, e : b = Scan(front \o s3, ids) /\ e = Counted(c, m, n)
      OBVIOUS
    <3>4. Open(b, p, m, q, e)
      BY <1>25, <3>2, <3>3
    <3>5. Open(RecordRead(b, r4, ids), p, m, q \o r4.value, e)
      BY <3>1, <3>4, RowsStep
    <3> QED
      BY <3>2, <3>3, <3>5
  <2>2. Scan(front \o Append(s3, r4), ids) = RecordRead(Scan(front \o s3, ids), r4, ids)
    BY <1>13, ScanStep
  <2>3. <<>> \o r4.value = v
    BY <1>13, ConcatEmptySeq
  <2> QED
    BY <1>20, <2>1, <2>2, <2>3
<1>27. Closed(Scan(front \o s5, ids), Append(p, <<m, v>>), 0, Counted(c, m, n))
  <2>1. Closed(RecordRead(Scan(front \o s4, ids), r5, ids),
               Append(p, <<m, v>>), 0, Counted(c, m, n))
    BY <1>1, <1>14, <1>26, EndStep
  <2>2. Scan(front \o Append(s4, r5), ids) = RecordRead(Scan(front \o s4, ids), r5, ids)
    BY <1>14, ScanStep
  <2> QED
    BY <1>21, <2>1, <2>2
<1>28. PICK b : b = Scan(front \o s5, ids)
  OBVIOUS
<1>29. Between(b) /\ Flushed(b).pairs = Append(p, <<m, v>>) /\ b.counts = Counted(c, m, n)
  BY <1>27, <1>28, ClosedFlushed
<1>30. Adds(a, b, m, v, n)
  BY <1>16, <1>29, Zenon DEF Adds
<1> QED
  BY <1>1, <1>2, <1>3, <1>15, <1>22, <1>28, <1>30

LEMMA TwoAppended ==
  ASSUME NEW X, NEW a \in X, NEW b \in X
  PROVE  Append(<<a>>, b) = <<a, b>>
<1>1. PICK s : s = <<a>>
  OBVIOUS
<1>2. s \in Seq(X) /\ Len(s) = 1 /\ s[1] = a
  BY <1>1
<1>3. PICK t : t = Append(s, b)
  OBVIOUS
<1>4. t \in Seq(X) /\ Len(t) = 2 /\ t[1] = a /\ t[2] = b
  <2>1. s \in Seq(X)
    BY <1>2
  <2>2. /\ Append(s, b) \in Seq(X) /\ Len(Append(s, b)) = Len(s) + 1
        /\ \A i \in 1..Len(s) : Append(s, b)[i] = s[i]
        /\ Append(s, b)[Len(s) + 1] = b
    BY <2>1, AppendProperties
  <2>3. /\ t \in Seq(X) /\ Len(t) = Len(s) + 1
        /\ \A i \in 1..Len(s) : t[i] = s[i]
        /\ t[Len(s) + 1] = b
    BY <1>3, <2>2
  <2> QED
    BY <1>2, <2>3
<1>5. PICK w : w = <<a, b>>
  OBVIOUS
<1>6. w \in Seq(X) /\ Len(w) = 2 /\ w[1] = a /\ w[2] = b
  BY <1>5
<1>7. \A i \in 1..Len(t) : t[i] = w[i]
  BY <1>4, <1>6
<1>8. t = w
  BY <1>4, <1>6, <1>7, SeqEqual
<1> QED
  BY <1>1, <1>3, <1>5, <1>8

LEMMA DeltaTableScanned ==
  ASSUME NEW front \in Seq(TlvRecords), NEW ids, Between(Scan(front, ids)),
         NEW id \in DOMAIN ids, id \in Nat, NEW m \in Nat \ {0}, ids[id] = m, NEW rows \in Rows
  PROVE  Adds(Scan(front, ids), Scan(front \o DeltaTable(rows, id), ids),
              m, FlattenSeq(rows), Len(rows))
<1>1. PICK n \in Nat : n = Len(rows)
  BY LenProperties DEF Rows
<1>2. PICK k \in Nat : k = RowSize
  BY WireAssumption
<1>3. PICK x : x = Rec(TableDelta, <<3, id, n>>)
  OBVIOUS
<1>4. PICK z : z = Rec(TableInfo, <<k, n>>)
  OBVIOUS
<1>5. PICK y : y = Rec(TableDeltaEnd, <<>>)
  OBVIOUS
<1>6. x \in TlvRecords /\ x.tag = TableDelta /\ x.value = <<3, id, n>>
  BY <1>3, RecFields DEF TlvRecords, Rec, TableDelta
<1>7. z \in TlvRecords /\ z.tag = TableInfo /\ z.value[2] = n
  BY <1>4, RecFields DEF TlvRecords, Rec, TableInfo
<1>8. y \in TlvRecords /\ y.tag \in {TableEnd, TableDeltaEnd}
  BY <1>5, RecFields DEF TlvRecords, Rec, TableDeltaEnd
<1>9. PICK a \in ReadStates : a = Scan(front, ids)
  BY DEF Between
<1>10. PICK p, c : p = Flushed(a).pairs /\ c = a.counts
  OBVIOUS
<1>11. PICK s1 \in Seq(TlvRecords) : s1 = <<x>>
  <2>1. x \in TlvRecords
    BY <1>6
  <2> QED
    BY <2>1, ScanOne
<1>12. PICK s2 \in Seq(TlvRecords) : s2 = Append(s1, z)
  BY <1>7, AppendProperties
<1>13. Open(Scan(front \o s1, ids), p, m, <<>>, c)
  <2>1. Scan(front \o <<x>>, ids) = RecordRead(a, x, ids)
    BY <1>6, <1>9, ScanOne
  <2>2. Open(RecordRead(a, x, ids), Flushed(a).pairs, m, <<>>, a.counts)
    BY <1>6, DeltaStep
  <2> QED
    BY <1>10, <1>11, <2>1, <2>2
<1>14. PICK e : e = Counted(c, m, n)
  OBVIOUS
<1>15. m # 0
  OBVIOUS
<1>16. Open(Scan(front \o s2, ids), p, m, <<>>, e)
  <2>1. Open(RecordRead(Scan(front \o s1, ids), z, ids), p, m, <<>>, Counted(c, m, n))
    BY <1>7, <1>13, <1>15, InfoStep
  <2>2. Scan(front \o Append(s1, z), ids) = RecordRead(Scan(front \o s1, ids), z, ids)
    BY <1>7, ScanStep
  <2> QED
    BY <1>12, <1>14, <2>1, <2>2
<1>17. PICK tag \in {TableContent, TableRow} : tag = TableContent /\ tag \in Nat \ {Terminator}
  BY DEF TableContent, Terminator
<1>18. PICK ls \in Seq(TlvRecords) : ls = RowRecords(tag, rows)
  BY <1>17, RowRecordsType, PlainSequence
<1>19. PICK s3 \in Seq(TlvRecords) : s3 = s2 \o ls
  BY ConcatProperties
<1>20. Open(Scan(front \o s3, ids), p, m, FlattenSeq(rows), e)
  <2>1. PICK heads \in Seq(TlvRecords) : heads = front \o s2
    BY ConcatProperties
  <2>2. Open(Scan(heads \o RowRecords(tag, rows), ids), p, m, FlattenSeq(rows), e)
    BY <1>16, <2>1, RowsScanned
  <2>3. (front \o s2) \o ls = front \o (s2 \o ls)
    <3>1. /\ front \in Seq(TlvRecords) /\ s2 \in Seq(TlvRecords)
          /\ ls \in Seq(TlvRecords)
      OBVIOUS
    <3> QED
      BY <3>1, RecordsAssoc, ZenonT(60)
  <2>4. heads \o ls = front \o s3
    BY <1>19, <2>1, <2>3
  <2> QED
    BY <1>18, <2>2, <2>4
<1>21. PICK s4 \in Seq(TlvRecords) : s4 = Append(s3, y)
  BY <1>8, AppendProperties
<1>22. Closed(Scan(front \o s4, ids), Append(p, <<m, FlattenSeq(rows)>>), 0, e)
  <2>1. Closed(RecordRead(Scan(front \o s3, ids), y, ids), Append(p, <<m, FlattenSeq(rows)>>), 0, e)
    BY <1>8, <1>15, <1>20, EndStep
  <2>2. Scan(front \o Append(s3, y), ids) = RecordRead(Scan(front \o s3, ids), y, ids)
    BY <1>8, ScanStep
  <2> QED
    BY <1>21, <2>1, <2>2
<1>23. DeltaTable(rows, id) = s4
  <2>1. Append(s3, y) = s3 \o <<y>>
    BY <1>8, AppendIsConcat
  <2>2. s2 = <<x, z>>
    <3>1. x \in TlvRecords /\ z \in TlvRecords
      BY <1>6, <1>7
    <3>2. Append(<<x>>, z) = <<x, z>>
      BY <3>1, TwoAppended
    <3> QED
      BY <1>11, <1>12, <3>2, Zenon
  <2> QED
    BY <1>1, <1>2, <1>3, <1>4, <1>5, <1>17, <1>18, <1>19, <1>21, <2>1, <2>2, Zenon DEF DeltaTable
<1>24. PICK b : b = Scan(front \o s4, ids)
  OBVIOUS
<1>25. Between(b) /\ Flushed(b).pairs = Append(p, <<m, FlattenSeq(rows)>>) /\ b.counts = e
  BY <1>22, <1>24, ClosedFlushed
<1>26. Adds(a, b, m, FlattenSeq(rows), n)
  BY <1>10, <1>14, <1>25, Zenon DEF Adds
<1> QED
  BY <1>1, <1>9, <1>23, <1>24, <1>26

-----------------------------------------------------------------------------
(* Blocks of records, a parameter each                                     *)

(* A block of records that adds one parameter to what was read before it,   *)
(* whatever that was.                                                       *)
Yields(block, ids, name, data, n) ==
  \A front \in Seq(TlvRecords) :
    Between(Scan(front, ids)) =>
      Adds(Scan(front, ids), Scan(front \o block, ids), name, data, n)

(* The pairs there are for the names of K, in some order.                   *)
PairsOf(pairs, K, name, data) ==
  /\ \A i \in 1..Len(pairs) : \E k \in K : pairs[i] = <<name[k], data[k]>>
  /\ \A k \in K : \E i \in 1..Len(pairs) : pairs[i] = <<name[k], data[k]>>

(* Those of the parameters in K that were declared with a count of rows.    *)
Declared(K, n) == {k \in K : n[k] > 0}

(* The parameters in K were read, and nothing else.                         *)
AllRead(b, K, name, data, n) ==
  /\ Between(b)
  /\ PairsOf(Flushed(b).pairs, K, name, data)
  /\ PairsOf(b.counts, Declared(K, n), name, n)

LEMMA PairsAppended ==
  ASSUME NEW X, NEW s \in Seq(X), NEW K, NEW name, NEW data, PairsOf(s, K, name, data), NEW i
  PROVE  PairsOf(Append(s, <<name[i], data[i]>>), K \union {i}, name, data)
<1>0. PICK e : e = <<name[i], data[i]>>
  OBVIOUS
<1>1. PICK q : q = Append(s, e)
  OBVIOUS
<1>2. /\ Len(s) \in Nat /\ Len(q) = Len(s) + 1 /\ q[Len(s) + 1] = e
      /\ \A k \in 1..Len(s) : q[k] = s[k]
  <2>1. s \in Seq(X \union {e})
    OBVIOUS
  <2> QED
    BY <1>1, <2>1, AppendProperties, LenProperties
<1>3. \A k \in 1..Len(s) : k \in 1..Len(q)
  BY <1>2
<1>4. Len(s) + 1 \in 1..Len(q)
  BY <1>2
<1>5. \A k \in 1..Len(q) : k \in 1..Len(s) \/ k = Len(s) + 1
  BY <1>2
<1>6. \A k \in 1..Len(q) : \E j \in K \union {i} : q[k] = <<name[j], data[j]>>
  <2> TAKE k \in 1..Len(q)
  <2>1. CASE k \in 1..Len(s)
    <3>1. PICK j \in K : s[k] = <<name[j], data[j]>>
      BY <2>1 DEF PairsOf
    <3> QED
      BY <1>2, <2>1, <3>1
  <2>2. CASE k = Len(s) + 1
    BY <1>0, <1>2, <2>2
  <2> QED
    BY <1>5, <2>1, <2>2
<1>7. \A j \in K \union {i} : \E k \in 1..Len(q) : q[k] = <<name[j], data[j]>>
  <2> TAKE j \in K \union {i}
  <2>1. CASE j \in K
    <3>1. PICK k \in 1..Len(s) : s[k] = <<name[j], data[j]>>
      BY <2>1 DEF PairsOf
    <3>2. k \in 1..Len(q) /\ q[k] = s[k]
      BY <1>2, <1>3
    <3> QED
      BY <3>1, <3>2
  <2>2. CASE j = i
    BY <1>0, <1>2, <1>4, <2>2
  <2> QED
    BY <2>1, <2>2
<1> QED
  BY <1>0, <1>1, <1>6, <1>7, Zenon DEF PairsOf

LEMMA NothingRead ==
  ASSUME NEW name, NEW data, NEW n
  PROVE  AllRead(Nothing, {}, name, data, n)
<1>1. PICK z \in Nat : z = 0
  OBVIOUS
<1>2. PICK b : b = Nothing
  OBVIOUS
<1>3. b = [pairs |-> <<>>, name |-> z, inTable |-> FALSE, rows |-> <<>>, counts |-> <<>>]
  BY <1>1, <1>2 DEF Nothing
<1>4. <<>> \in Pairs /\ <<>> \in Counts /\ <<>> \in Seq(Nat)
  BY DEF Pairs, Counts
<1>5. b \in ReadStates /\ b.pairs = <<>> /\ b.name = z /\ b.inTable = FALSE /\ b.counts = <<>>
  BY <1>3, <1>4 DEF ReadStates
<1>6. Closed(b, <<>>, 0, <<>>)
  BY <1>1, <1>5 DEF Closed
<1>7. Between(b) /\ Flushed(b).pairs = <<>> /\ b.counts = <<>>
  BY <1>6, ClosedFlushed
<1>8. Len(<<>>) = 0 /\ 1..0 = {}
  OBVIOUS
<1>9. AllRead(b, {}, name, data, n)
  BY <1>7, <1>8 DEF AllRead, PairsOf, Declared
<1> QED
  BY <1>2, <1>9

LEMMA OneMoreRead ==
  ASSUME NEW a, NEW b, NEW K, NEW name, NEW data, NEW n, NEW i,
         AllRead(a, K, name, data, n), n[i] \in Nat,
         Adds(a, b, name[i], data[i], n[i])
  PROVE  AllRead(b, K \union {i}, name, data, n)
<1>1. PICK p, q : p = Flushed(a).pairs /\ q = Flushed(b).pairs
  OBVIOUS
<1>2. PICK c, e : c = a.counts /\ e = b.counts
  OBVIOUS
<1>3. /\ Between(b) /\ q = Append(p, <<name[i], data[i]>>)
      /\ e = Counted(c, name[i], n[i])
  BY <1>1, <1>2 DEF Adds
<1>4. PairsOf(p, K, name, data) /\ PairsOf(c, Declared(K, n), name, n)
  BY <1>1, <1>2 DEF AllRead
<1>5. p \in Pairs /\ c \in Counts
  <2>1. a \in ReadStates
    BY DEF AllRead, Between
  <2>2. Flushed(a) \in ReadStates
    BY <2>1, FlushedFields
  <2> QED
    BY <1>1, <1>2, <2>1, <2>2 DEF ReadStates
<1>6. PairsOf(q, K \union {i}, name, data)
  BY <1>3, <1>4, <1>5, PairsAppended DEF Pairs
<1> DEFINE L == Declared(K, n)
           M == Declared(K \union {i}, n)
<1>7. PairsOf(e, M, name, n)
  <2>1. CASE n[i] > 0
    <3>1. e = Append(c, <<name[i], n[i]>>)
      BY <1>3, <2>1 DEF Counted
    <3>2. M = L \union {i}
      BY <2>1 DEF Declared
    <3> HIDE DEF L, M
    <3>3. PairsOf(c, L, name, n)
      BY <1>4 DEF L
    <3>4. PairsOf(Append(c, <<name[i], n[i]>>), L \union {i}, name, n)
      BY <1>5, <3>3, PairsAppended DEF Counts
    <3> QED
      BY <3>1, <3>2, <3>4
  <2>2. CASE ~(n[i] > 0)
    <3>1. e = c
      BY <1>3, <2>2 DEF Counted
    <3>2. M = L
      BY <2>2 DEF Declared
    <3> HIDE DEF M
    <3> QED
      BY <1>4, <3>1, <3>2
  <2> QED
    BY <2>1, <2>2
<1> HIDE DEF L
<1> QED
  BY <1>1, <1>2, <1>3, <1>6, <1>7, Zenon DEF AllRead

(* A sequence of blocks, those in K adding a parameter each and the others  *)
(* empty.                                                                   *)
LEMMA BlocksRead ==
  ASSUME NEW head \in Seq(TlvRecords), NEW ids, Scan(head, ids) = Nothing,
         NEW B \in Seq(Seq(TlvRecords)), NEW K \in SUBSET (1..Len(B)),
         NEW name, NEW data, NEW n,
         \A i \in K : n[i] \in Nat /\ Yields(B[i], ids, name[i], data[i], n[i]),
         \A i \in (1..Len(B)) \ K : B[i] = <<>>
  PROVE  AllRead(Scan(head \o FlattenSeq(B), ids), K, name, data, n)
<1> DEFINE Upto(k) == FlattenSeq(SubSeq(B, 1, k))
           S == {k \in 0..Len(B) :
                  AllRead(Scan(head \o Upto(k), ids), K \intersect 1..k, name, data, n)}
<1>0. Len(B) \in Nat
  BY LenProperties
<1>1. 0 \in S
  <2>1. SubSeq(B, 1, 0) = <<>>
    BY SubSeqEmpty, <1>0
  <2>2. head \o <<>> = head
    BY ConcatEmptySeq
  <2>3. K \intersect 1..0 = {} /\ 0 \in 0..Len(B)
    BY <1>0
  <2>4. AllRead(Scan(head \o Upto(0), ids), K \intersect 1..0, name, data, n)
    BY <2>1, <2>2, <2>3, FlattenEmpty, NothingRead
  <2> QED
    BY <2>3, <2>4
<1>2. ASSUME NEW k \in 0..Len(B) - 1, k \in S
      PROVE  k + 1 \in S
  <2>0. k + 1 \in 1..Len(B) /\ k + 1 \in 0..Len(B) /\ k \in Nat
    BY <1>0
  <2>1. /\ SubSeq(B, 1, k) \in Seq(Seq(TlvRecords))
        /\ SubSeq(B, 1, k + 1) = Append(SubSeq(B, 1, k), B[k + 1])
    BY PrefixAppend
  <2>2. B[k + 1] \in Seq(TlvRecords)
    BY <2>0
  <2>3. PICK f \in Seq(TlvRecords) : f = Upto(k)
    BY <2>1, FlattenType
  <2>4. Upto(k + 1) = f \o B[k + 1]
    BY <2>1, <2>2, <2>3, FlattenAppend
  <2> HIDE DEF Front
  <2>5. AllRead(Scan(head \o f, ids), K \intersect 1..k, name, data, n)
    BY <1>2, <2>3
  <2>6. PICK front \in Seq(TlvRecords) : front = head \o f
    BY ConcatProperties
  <2>7. head \o Upto(k + 1) = front \o B[k + 1]
    <3>1. (head \o f) \o B[k + 1] = head \o (f \o B[k + 1])
      BY <2>2, RecordsAssoc, ZenonT(60)
    <3> QED
      BY <2>4, <2>6, <3>1
  <2>8. AllRead(Scan(front \o B[k + 1], ids), K \intersect 1..k + 1, name, data, n)
    <3>1. CASE k + 1 \in K
      <4>1. n[k + 1] \in Nat /\ Yields(B[k + 1], ids, name[k + 1], data[k + 1], n[k + 1])
        BY <3>1
      <4>2. Between(Scan(front, ids))
        BY <2>5, <2>6 DEF AllRead
      <4>3. Adds(Scan(front, ids), Scan(front \o B[k + 1], ids), name[k + 1], data[k + 1], n[k + 1])
        BY <4>1, <4>2 DEF Yields
      <4>4. (K \intersect 1..k) \union {k + 1} = K \intersect 1..k + 1
        BY <2>0, <3>1
      <4>5. AllRead(Scan(front, ids), K \intersect 1..k, name, data, n)
        BY <2>5, <2>6
      <4>6. AllRead(Scan(front \o B[k + 1], ids), (K \intersect 1..k) \union {k + 1}, name, data, n)
        BY <4>1, <4>3, <4>5, OneMoreRead
      <4> QED
        BY <4>4, <4>6
    <3>2. CASE k + 1 \notin K
      <4>1. B[k + 1] = <<>>
        BY <2>0, <3>2
      <4>2. front \o <<>> = front
        BY ConcatEmptySeq
      <4>3. K \intersect 1..k = K \intersect 1..k + 1
        <5>1. \A i \in 1..k + 1 : i \in 1..k \/ i = k + 1
          BY <2>0
        <5>2. \A i \in 1..k : i \in 1..k + 1
          BY <2>0
        <5> QED
          BY <3>2, <5>1, <5>2
      <4> QED
        BY <2>5, <2>6, <4>1, <4>2, <4>3
    <3> QED
      BY <3>1, <3>2
  <2> QED
    BY <2>0, <2>7, <2>8
<1>3. Len(B) \in S
  <2> HIDE DEF S
  <2>1. \A k \in 0..Len(B) : k \in S
    BY <1>0, <1>1, <1>2, UpTo
  <2> QED
    BY <1>0, <2>1
<1>4. SubSeq(B, 1, Len(B)) = B
  BY SubSeqFull
<1>5. K \intersect 1..Len(B) = K
  OBVIOUS
<1> QED
  BY <1>3, <1>4, <1>5

LEMMA GreatestElement ==
  ASSUME NEW n \in Nat, NEW S \in SUBSET (1..n), S # {}
  PROVE  \E m \in S : \A i \in S : i <= m
<1> DEFINE T == {k \in 0..n : \A i \in S : i <= k}
<1>1. T \in SUBSET Nat /\ T # {}
  <2>1. n \in T
    OBVIOUS
  <2> QED
    BY <2>1
<1>2. PICK m \in T : \A k \in T : m <= k
  BY <1>1, LeastElement
<1>3. m \in S
  <2> SUFFICES ASSUME m \notin S PROVE FALSE
    OBVIOUS
  <2>1. \A i \in S : i <= m - 1
    OBVIOUS
  <2>2. m - 1 \in 0..n
    <3>1. PICK i \in S : i \in 1..n
      OBVIOUS
    <3>2. i <= m - 1 /\ m \in 0..n
      BY <2>1
    <3> QED
      BY <3>1, <3>2
  <2>3. m - 1 \in T
    BY <2>1, <2>2
  <2>4. m <= m - 1 /\ m \in Nat
    BY <1>2, <2>3
  <2> QED
    BY <2>4
<1> QED
  BY <1>2, <1>3

Distinct(K, name) == \A i, k \in K : name[i] = name[k] => i = k

-----------------------------------------------------------------------------
(* What the pairs decode to                                                *)

(* The last of the pairs with a name, where a name has one value.           *)
LEMMA LastOfIs ==
  ASSUME NEW X, NEW pairs \in Seq(X), NEW K, NEW name, NEW data, NEW j \in K,
         Distinct(K, name), PairsOf(pairs, K, name, data)
  PROVE  LastOf(pairs, name[j]) = data[j]
<1> DEFINE at == {i \in DOMAIN pairs : pairs[i][1] = name[j]}
<1>1. DOMAIN pairs = 1..Len(pairs) /\ Len(pairs) \in Nat
  BY LenProperties
<1>2. \A i \in 1..Len(pairs) : \E k \in K : pairs[i] = <<name[k], data[k]>>
  BY Zenon DEF PairsOf
<1>3. \A k \in K : \E i \in 1..Len(pairs) : pairs[i] = <<name[k], data[k]>>
  BY Zenon DEF PairsOf
<1>4. at # {}
  <2>1. PICK i \in 1..Len(pairs) : pairs[i] = <<name[j], data[j]>>
    BY <1>3
  <2>2. i \in at
    BY <1>1, <2>1
  <2> QED
    BY <2>2
<1>5. \A i \in at : pairs[i][2] = data[j]
  <2> TAKE i \in at
  <2>1. PICK k \in K : pairs[i] = <<name[k], data[k]>>
    BY <1>1, <1>2
  <2>2. name[k] = name[j]
    BY <2>1
  <2>3. k = j
    BY <2>2 DEF Distinct
  <2> QED
    BY <2>1, <2>3
<1>6. at \in SUBSET (1..Len(pairs))
  BY <1>1
<1> DEFINE last == CHOOSE i \in at : \A k \in at : k <= i
<1>7. LastOf(pairs, name[j]) = pairs[last][2]
  BY DEF LastOf
<1> HIDE DEF at
<1>8. \E i \in at : \A k \in at : k <= i
  BY <1>1, <1>4, <1>6, GreatestElement
<1>9. last \in at
  BY <1>8
<1> QED
  BY <1>5, <1>7, <1>9

Firsts(pairs) == {pairs[i][1] : i \in DOMAIN pairs}

LEMMA PairNames ==
  ASSUME NEW X, NEW pairs \in Seq(X), NEW K, NEW name, NEW data, PairsOf(pairs, K, name, data)
  PROVE  Firsts(pairs) = {name[k] : k \in K}
<1>1. DOMAIN pairs = 1..Len(pairs)
  BY LenProperties
<1>2. ASSUME NEW i \in DOMAIN pairs
      PROVE  \E k \in K : pairs[i][1] = name[k]
  <2>1. PICK k \in K : pairs[i] = <<name[k], data[k]>>
    BY <1>1 DEF PairsOf
  <2> QED
    BY <1>2, <2>1
<1>3. ASSUME NEW k \in K
      PROVE  \E i \in DOMAIN pairs : pairs[i][1] = name[k]
  <2>1. PICK i \in 1..Len(pairs) : pairs[i] = <<name[k], data[k]>>
    BY DEF PairsOf
  <2>2. pairs[i][1] = name[k]
    BY <1>3, <2>1
  <2> QED
    BY <1>1, <2>2, Zenon
<1> QED
  BY <1>2, <1>3 DEF Firsts

(* Each value is what its parameter's data decodes to.                      *)
Restored(K, f, name, v, data, n, counted) ==
  \A i \in K : v[name[i]] = IF ~f[i].table THEN data[i]
                            ELSE DecodeTable(data[i], IF counted THEN n[i] ELSE 0)

Taken(K, name, v) == [m \in {name[i] : i \in K} |-> v[m]]

OneEach(fields) == \A g, h \in fields : g.name = h.name => g = h

(* What was read of the parameters in K, which are fields.                  *)
PairsFor(e, fields, K, f, name, data, n) ==
  /\ e.pairs \in Pairs /\ e.counts \in Counts
  /\ PairsOf(e.pairs, K, name, data) /\ PairsOf(e.counts, Declared(K, n), name, n)
  /\ OneEach(fields) /\ Distinct(K, name)
  /\ \A i \in K : f[i] \in fields
  /\ \A i \in K : name[i] = f[i].name
  /\ \A i \in K : n[i] \in Nat

(* What the pairs of the parameters in K decode to: each to its value.      *)
LEMMA PairsDecoded ==
  ASSUME NEW e, NEW fields, NEW K, NEW f, NEW name, NEW data, NEW n, NEW v,
         NEW counted \in BOOLEAN, PairsFor(e, fields, K, f, name, data, n),
         Restored(K, f, name, v, data, n, counted)
  PROVE  Decoded(fields, e, counted) = Taken(K, name, v)
<1>1. /\ e.pairs \in Pairs /\ e.counts \in Counts
      /\ PairsOf(e.pairs, K, name, data) /\ PairsOf(e.counts, Declared(K, n), name, n)
      /\ OneEach(fields) /\ Distinct(K, name)
      /\ \A i \in K : f[i] \in fields
      /\ \A i \in K : name[i] = f[i].name
      /\ \A i \in K : n[i] \in Nat
  BY DEF PairsFor
<1> DEFINE p == e.pairs
           c == e.counts
           L == Declared(K, n)
           names == Firsts(p)
           counts == Firsts(c)
           Field(m) == CHOOSE g \in fields : g.name = m
           value(m) == IF ~Field(m).table THEN LastOf(p, m)
                       ELSE DecodeTable(LastOf(p, m),
                                        IF counted /\ m \in counts THEN LastOf(c, m) ELSE 0)
<1>2. Decoded(fields, e, counted) =
        [m \in names \intersect {g.name : g \in fields} |-> value(m)]
  BY Zenon DEF Decoded, Firsts
<1>3. p \in Seq(Nat \X Seq(Nat)) /\ c \in Seq(Nat \X Nat)
  BY <1>1 DEF Pairs, Counts
<1>4. PairsOf(p, K, name, data) /\ PairsOf(c, L, name, n) /\ Distinct(L, name)
  BY <1>1 DEF Distinct, Declared
<1> HIDE DEF p, c, L
<1>5. names = {name[j] : j \in K}
  BY <1>3, <1>4, PairNames
<1>6. counts = {name[j] : j \in L}
  BY <1>3, <1>4, PairNames
<1>7. names \intersect {g.name : g \in fields} = {name[i] : i \in K}
  BY <1>1, <1>5
<1>8. ASSUME NEW j \in K
       PROVE  value(name[j]) = v[name[j]]
  <2>1. PICK m : m = name[j]
    OBVIOUS
  <2>2. Field(m) = f[j]
    <3>1. f[j] \in fields /\ f[j].name = m
      BY <1>1, <2>1
    <3>2. Field(m) \in fields /\ Field(m).name = m
      BY <3>1
    <3> HIDE DEF Field
    <3> QED
      BY <1>1, <3>1, <3>2 DEF OneEach
  <2>3. LastOf(p, m) = data[j]
    <3>1. LastOf(p, name[j]) = data[j]
      <4>1. p \in Seq(Nat \X Seq(Nat)) /\ PairsOf(p, K, name, data) /\ Distinct(K, name)
        BY <1>1, <1>3, <1>4
      <4> QED
        BY <4>1, LastOfIs
    <3> QED
      BY <2>1, <3>1
  <2>4. (IF counted /\ m \in counts THEN LastOf(c, m) ELSE 0) = IF counted THEN n[j] ELSE 0
    <3>1. CASE n[j] > 0
      <4>1. j \in L
        BY <3>1 DEF L, Declared
      <4>3. m \in counts
        BY <1>6, <2>1, <4>1
      <4> HIDE DEF counts
      <4>4. LastOf(c, name[j]) = n[j]
        BY <1>3, <1>4, <4>1, LastOfIs
      <4> QED
        BY <2>1, <4>3, <4>4
    <3>2. CASE ~(n[j] > 0)
      <4>1. n[j] = 0
        BY <1>1, <3>2
      <4>2. m \notin counts
        <5> SUFFICES ASSUME m \in counts PROVE FALSE
          OBVIOUS
        <5>1. PICK k \in L : name[k] = name[j]
          BY <1>6, <2>1
        <5>2. k = j
          BY <1>1, <5>1 DEF L, Distinct, Declared
        <5> QED
          BY <3>2, <5>2 DEF L, Declared
      <4> HIDE DEF counts
      <4> QED
        BY <4>1, <4>2
    <3> QED
      BY <3>1, <3>2
  <2>5. v[m] = IF ~f[j].table THEN data[j]
                 ELSE DecodeTable(data[j], IF counted THEN n[j] ELSE 0)
    BY <2>1 DEF Restored
  <2> HIDE DEF Field, counts
  <2> QED
    BY <2>1, <2>2, <2>3, <2>4, <2>5
<1> HIDE DEF names, value
<1>9. \A m \in {name[i] : i \in K} : value(m) = v[m]
  BY <1>8
<1> QED
  BY <1>2, <1>7, <1>9 DEF Taken

(* A block that the reader reads as the value of a parameter, whose rows it  *)
(* decodes with or without the count it read.                               *)
Carries(block, ids, f, value, counted, data, n) ==
  /\ n \in Nat /\ Yields(block, ids, f.name, data, n)
  /\ value = IF ~f.table THEN data ELSE DecodeTable(data, IF counted THEN n ELSE 0)

Carried(block, ids, f, value, counted) ==
  \E data : \E n : Carries(block, ids, f, value, counted, data, n)

(* Each block but the empty ones is that of a parameter, of K.              *)
AllCarried(B, d, I, K, v, counted, ids) ==
  /\ B \in Seq(Seq(TlvRecords)) /\ Len(B) = Len(d)
  /\ I \in SUBSET (1..Len(d)) /\ K \in SUBSET I
  /\ counted \in BOOLEAN
  /\ \A i \in K : Carried(B[i], ids, d[i], v[d[i].name], counted)
  /\ \A i \in (1..Len(d)) \ K : B[i] = <<>>

FieldsAt(d, I) == {d[i] : i \in I}

NamesAt(d, I) == {d[i].name : i \in I}

TakenAt(d, K, v) == [m \in NamesAt(d, K) |-> v[m]]

(* What a sequence of blocks decodes to: each parameter to the value its    *)
(* block was made from.                                                     *)
LEMMA BlocksDecoded ==
  ASSUME NEW head \in Seq(TlvRecords), NEW ids, Scan(head, ids) = Nothing,
         NEW d \in Descs, NEW B, NEW I, NEW K, NEW v, NEW counted,
         AllCarried(B, d, I, K, v, counted, ids)
  PROVE  Decoded(FieldsAt(d, I), Flushed(Scan(head \o FlattenSeq(B), ids)), counted) =
           TakenAt(d, K, v)
<1> DEFINE fields == FieldsAt(d, I)
           name == [i \in 1..Len(d) |-> d[i].name]
           fits(i, u, k) == Carries(B[i], ids, d[i], v[d[i].name], counted, u, k)
           data == [i \in K |-> CHOOSE u : \E k : fits(i, u, k)]
           n == [i \in K |-> CHOOSE k : fits(i, data[i], k)]
<1>1. /\ B \in Seq(Seq(TlvRecords)) /\ Len(B) = Len(d)
      /\ I \in SUBSET (1..Len(d)) /\ K \in SUBSET I
  BY DEF AllCarried
<1>2. counted \in BOOLEAN
  BY DEF AllCarried
<1>3. \A i \in K : Carried(B[i], ids, d[i], v[d[i].name], counted)
  BY DEF AllCarried
<1>4. \A i \in (1..Len(B)) \ K : B[i] = <<>>
  BY <1>1 DEF AllCarried
<1>5. \A i \in K : fits(i, data[i], n[i])
  <2>1. \A i \in K : \E u : \E k : fits(i, u, k)
    BY <1>3 DEF Carried
  <2> HIDE DEF fits
  <2>2. \A i \in K : \E k : fits(i, data[i], k)
    BY <2>1
  <2> HIDE DEF data
  <2> QED
    BY <2>2
<1> HIDE DEF data, n
<1>6. \A i \in K : n[i] \in Nat /\ Yields(B[i], ids, d[i].name, data[i], n[i])
  BY <1>5 DEF Carries
<1>7. \A i \in K : v[d[i].name] = IF ~d[i].table THEN data[i]
                                  ELSE DecodeTable(data[i], IF counted THEN n[i] ELSE 0)
  BY <1>5 DEF Carries
<1> HIDE DEF fits
<1>8. PICK b : b = Scan(head \o FlattenSeq(B), ids)
  OBVIOUS
<1>9. AllRead(b, K, name, data, n)
  <2>1. B \in Seq(Seq(TlvRecords)) /\ K \in SUBSET (1..Len(B))
    BY <1>1
  <2>2. \A i \in K : n[i] \in Nat /\ Yields(B[i], ids, name[i], data[i], n[i])
    BY <1>6, <1>1
  <2> HIDE DEF name
  <2> QED
    BY <1>8, <1>4, <2>1, <2>2, BlocksRead
<1>10. PICK e : e = Flushed(b)
  OBVIOUS
<1>11. /\ e.pairs \in Pairs /\ e.counts \in Counts
       /\ PairsOf(e.pairs, K, name, data) /\ PairsOf(e.counts, Declared(K, n), name, n)
  <2> HIDE DEF name
  <2>1. b \in ReadStates
    BY <1>9 DEF AllRead, Between
  <2>2. e \in ReadStates /\ e.counts = b.counts
    BY <1>10, <2>1, FlushedFields
  <2>3. e.pairs \in Pairs /\ e.counts \in Counts
    BY <2>2 DEF ReadStates
  <2> QED
    BY <1>9, <1>10, <2>2, <2>3 DEF AllRead
<1>12. \A i, j \in 1..Len(d) : d[i].name = d[j].name => i = j
  <2>1. DOMAIN d = 1..Len(d)
    BY DescIs, LenProperties
  <2> QED
    BY <2>1, DescAssumption
<1>13. \A i \in K : d[i] \in fields
  BY <1>1 DEF FieldsAt
<1>14. OneEach(fields)
  <2> SUFFICES ASSUME NEW g \in fields, NEW h \in fields, g.name = h.name
               PROVE  g = h
    BY Zenon DEF OneEach
  <2>1. PICK i \in I : g = d[i]
    BY DEF FieldsAt
  <2>2. PICK j \in I : h = d[j]
    BY DEF FieldsAt
  <2> QED
    BY <1>12, <1>1, <2>1, <2>2
<1>15. Distinct(K, name) /\ \A i \in K : name[i] = d[i].name
  BY <1>12, <1>1 DEF Distinct
<1>16. \A i \in K : n[i] \in Nat
  BY <1>6
<1>17. Restored(K, d, name, v, data, n, counted)
  <2> HIDE DEF name
  <2> QED
    BY <1>15, <1>7 DEF Restored
<1>18. Taken(K, name, v) = TakenAt(d, K, v)
  <2> HIDE DEF name
  <2>1. {name[i] : i \in K} = NamesAt(d, K)
    BY <1>15 DEF NamesAt
  <2> QED
    BY <2>1 DEF Taken, TakenAt
<1> HIDE DEF fields, name
<1>19. Decoded(fields, e, counted) = Taken(K, name, v)
  <2>1. PairsFor(e, fields, K, d, name, data, n)
    BY <1>11, <1>13, <1>14, <1>15, <1>16 DEF PairsFor
  <2> QED
    BY <1>17, <1>2, <2>1, PairsDecoded
<1> QED
  BY <1>8, <1>10, <1>18, <1>19 DEF fields

LEMMA Products ==
  /\ \A a, w \in Nat : a * w \in Nat /\ (a + 1) * w = a * w + w
  /\ \A i, n, w \in Nat : 1 <= i /\ i <= n => (i - 1) * w \in Nat /\ (i - 1) * w + w <= n * w
  /\ \A n \in Nat, w \in Nat \ {0} :
       /\ (n * w) \div w = n
       /\ n # 0 => (n * w) \div n = w /\ (n * w) % n = 0
<1>1. \A a, w \in Nat : a * w \in Nat /\ (a + 1) * w = a * w + w
  OBVIOUS
<1>2. \A i, n, w \in Nat : 1 <= i /\ i <= n => (i - 1) * w \in Nat /\ (i - 1) * w + w <= n * w
  OBVIOUS
<1>3. \A n \in Nat, w \in Nat \ {0} : (n * w) \div w = n
  OBVIOUS
<1>4. \A n, w \in Nat \ {0} : (n * w) \div n = w
  OBVIOUS
<1>5. \A n, w \in Nat \ {0} : (n * w) % n = 0
  OBVIOUS
<1> QED
  BY <1>1, <1>2, <1>3, <1>4, <1>5

-----------------------------------------------------------------------------
(* Rows, flattened and decoded                                             *)

(* The cells of rows that are equally wide, one row after the other.        *)
LEMMA RowsFlattened ==
  ASSUME NEW w \in Nat
  PROVE  \A rows \in Seq({s \in Seq(Nat) : Len(s) = w}) :
           /\ FlattenSeq(rows) \in Seq(Nat)
           /\ Len(FlattenSeq(rows)) = Len(rows) * w
           /\ \A i \in 1..Len(rows), j \in 1..w : FlattenSeq(rows)[(i - 1) * w + j] = rows[i][j]
<1> DEFINE X == {s \in Seq(Nat) : Len(s) = w}
           P == {rows \in Seq(X) :
                   /\ FlattenSeq(rows) \in Seq(Nat)
                   /\ Len(FlattenSeq(rows)) = Len(rows) * w
                   /\ \A i \in 1..Len(rows), j \in 1..w :
                        FlattenSeq(rows)[(i - 1) * w + j] = rows[i][j]}
<1>1. <<>> \in P
  <2>1. Len(<<>>) = 0 /\ 1..0 = {} /\ 0 * w = 0 /\ <<>> \in Seq(X) /\ <<>> \in Seq(Nat)
    OBVIOUS
  <2> HIDE DEF X
  <2> QED
    BY <2>1, FlattenEmpty
<1>2. ASSUME NEW rows \in Seq(X), NEW row \in X, rows \in P
      PROVE  Append(rows, row) \in P
  <2>1. PICK F \in Seq(Nat) : F = FlattenSeq(rows)
    BY <1>2
  <2>2. PICK n \in Nat : n = Len(rows)
    BY LenProperties
  <2>3. Len(F) = n * w /\ \A i \in 1..n, j \in 1..w : F[(i - 1) * w + j] = rows[i][j]
    BY <1>2, <2>1, <2>2
  <2>4. row \in Seq(Nat) /\ Len(row) = w
    OBVIOUS
  <2>5. rows \in Seq(Seq(Nat))
    <3>1. X \subseteq Seq(Nat)
      OBVIOUS
    <3> HIDE DEF X
    <3> QED
      BY <3>1
  <2>6. PICK qs : qs = Append(rows, row)
    OBVIOUS
  <2>7. /\ qs \in Seq(X) /\ Len(qs) = n + 1 /\ qs[n + 1] = row
        /\ \A i \in 1..n : qs[i] = rows[i]
    <3> HIDE DEF X
    <3> QED
      BY <2>2, <2>6, AppendProperties
  <2>8. PICK G : G = F \o row
    OBVIOUS
  <2>9. FlattenSeq(qs) = G
    BY <2>1, <2>4, <2>5, <2>6, <2>8, FlattenAppend
  <2>10. /\ G \in Seq(Nat) /\ Len(G) = Len(F) + Len(row)
         /\ \A i \in 1..Len(F) + Len(row) : G[i] = IF i <= Len(F) THEN F[i] ELSE row[i - Len(F)]
    BY <2>4, <2>8, ConcatProperties
  <2>11. PICK nw \in Nat : nw = n * w
    BY Products
  <2>12. (n + 1) * w = nw + w
    BY <2>11, Products
  <2>13. ASSUME NEW i \in 1..n + 1, NEW j \in 1..w
         PROVE  G[(i - 1) * w + j] = qs[i][j]
    <3>1. CASE i \in 1..n
      <4>1. PICK k \in Nat : k = (i - 1) * w /\ k + w <= nw
        BY <2>11, <3>1, Products
      <4>2. k + j \in 1..nw + w /\ k + j <= nw
        <5>1. k + w <= nw
          BY <4>1
        <5> QED
          BY <5>1
      <4>3. G[k + j] = F[k + j]
        BY <2>3, <2>4, <2>10, <2>11, <4>2
      <4>4. F[k + j] = rows[i][j]
        BY <2>3, <3>1, <4>1
      <4> QED
        BY <2>7, <3>1, <4>1, <4>3, <4>4
    <3>2. CASE i = n + 1
      <4>1. (i - 1) * w = nw
        BY <2>11, <3>2
      <4>2. nw + j \in 1..nw + w /\ ~(nw + j <= nw) /\ nw + j - nw = j
        OBVIOUS
      <4>3. G[nw + j] = row[j]
        BY <2>3, <2>4, <2>10, <2>11, <4>2
      <4> QED
        BY <2>7, <3>2, <4>1, <4>3
    <3> QED
      BY <3>1, <3>2
  <2>14. Len(G) = Len(qs) * w
    BY <2>3, <2>4, <2>7, <2>10, <2>11, <2>12
  <2> HIDE DEF X
  <2>15. \A i \in 1..Len(qs), j \in 1..w : FlattenSeq(qs)[(i - 1) * w + j] = qs[i][j]
    BY <2>7, <2>9, <2>13
  <2>16. FlattenSeq(qs) \in Seq(Nat) /\ Len(FlattenSeq(qs)) = Len(qs) * w
    BY <2>9, <2>10, <2>14
  <2>17. qs \in P
    BY <2>7, <2>15, <2>16
  <2> QED
    BY <2>6, <2>17
<1>3. \A rows \in Seq(X) : rows \in P
  <2> HIDE DEF P, X
  <2> QED
    BY <1>1, <1>2, SeqInduction
<1> QED
  BY <1>3

(* Rows that may be wider than RowSize, decoded at the stride their declared *)
(* count gives, or at RowSize when they are not wider and none was declared. *)
LEMMA RowsDecoded ==
  ASSUME NEW w \in Nat, w >= RowSize, NEW rows \in Rows,
         NEW wide \in Seq({s \in Seq(Nat) : Len(s) = w}), Len(wide) = Len(rows),
         \A i \in 1..Len(rows), j \in 1..RowSize : wide[i][j] = rows[i][j],
         NEW count \in Nat, count = Len(rows) \/ (count = 0 /\ w = RowSize)
  PROVE  DecodeTable(FlattenSeq(wide), count) = rows
<1>1. PICK n \in Nat : n = Len(rows)
  BY LenProperties DEF Rows
<1>2. PICK F \in Seq(Nat) : F = FlattenSeq(wide)
  BY RowsFlattened
<1>3. Len(F) = n * w /\ \A i \in 1..n, j \in 1..w : F[(i - 1) * w + j] = wide[i][j]
  <2>1. Len(FlattenSeq(wide)) = Len(wide) * w
    BY RowsFlattened
  <2>2. \A i \in 1..Len(wide), j \in 1..w : FlattenSeq(wide)[(i - 1) * w + j] = wide[i][j]
    BY RowsFlattened
  <2> QED
    BY <1>1, <1>2, <2>1, <2>2
<1>4. w \in Nat \ {0} /\ RowSize \in Nat \ {0}
  BY WireAssumption
<1>5. PICK length \in Nat : length = n * w /\ length = Len(F)
  BY <1>3, Products
<1> DEFINE stride == IF count = 0 THEN RowSize ELSE length \div count
           Row(i) == SubSeq(F, (i - 1) * stride + 1, (i - 1) * stride + RowSize)
           table == [i \in 1..(length \div stride) |-> Row(i)]
<1>6. DecodeTable(F, count) =
        CASE count = 0 /\ length = 0 -> <<>>
          [] count # 0 /\ (length % count # 0 \/ stride < RowSize) -> Undecodable
          [] OTHER -> table
  BY <1>5 DEF DecodeTable
<1>7. CASE count = 0 /\ n = 0
  <2>1. length = 0
    BY <1>5, <1>7
  <2>2. rows = <<>>
    BY <1>1, <1>7, EmptySeq DEF Rows
  <2> HIDE DEF table, stride
  <2> QED
    BY <1>2, <1>6, <1>7, <2>1, <2>2
<1>8. CASE ~(count = 0 /\ n = 0)
  <2>1. n # 0
    BY <1>1, <1>8
  <2>2. stride = w
    <3>1. CASE count = 0
      BY <1>1, <1>8, <3>1
    <3>2. CASE count # 0
      <4>1. count = n
        BY <1>1, <3>2
      <4> QED
        BY <1>4, <1>5, <2>1, <3>2, <4>1, Products
    <3> QED
      BY <3>1, <3>2
  <2>3. length # 0 /\ (count # 0 => length % count = 0)
    <3>1. count # 0 => count = n
      BY <1>1
    <3>2. (n * w) % n = 0
      BY <1>4, <2>1, Products
    <3>3. n * w # 0
      BY <1>4, <2>1
    <3> QED
      BY <1>5, <3>1, <3>2, <3>3
  <2>4. length \div stride = n
    BY <1>4, <1>5, <2>2, Products
  <2>5. DecodeTable(F, count) = table
    <3>1. ~(stride < RowSize)
      <4> HIDE DEF stride
      <4> QED
        BY <1>4, <2>2
    <3>2. ~(count = 0 /\ length = 0) /\ ~(count # 0 /\ (length % count # 0 \/ stride < RowSize))
      BY <2>3, <3>1, Zenon
    <3> HIDE DEF table, stride
    <3> QED
      BY <1>6, <3>2
  <2>6. ASSUME NEW i \in 1..n
        PROVE  Row(i) = rows[i]
    <3>1. PICK k \in Nat : k = (i - 1) * w /\ k + w <= length
      BY <1>5, Products
    <3>2. Row(i) = SubSeq(F, k + 1, k + RowSize)
      BY <2>2, <3>1
    <3>3. PICK row : row = Row(i)
      OBVIOUS
    <3>4. \A j \in k + 1..k + RowSize : F[j] \in Nat
      <4>1. k + w <= length /\ w \in Nat /\ RowSize \in Nat /\ RowSize <= w
        BY <1>4, <3>1
      <4>2. \A j \in k + 1..k + RowSize : j \in 1..length
        BY <4>1
      <4>3. length = Len(F)
        BY <1>5
      <4> QED
        BY <4>2, <4>3
    <3>5. /\ row \in Seq(Nat) /\ Len(row) = RowSize
          /\ \A j \in 1..RowSize : row[j] = F[k + j]
      <4>1. k + 1 \in Int /\ k + RowSize \in Int /\ k + 1 <= k + RowSize
            /\ (k + RowSize) - (k + 1) + 1 = RowSize
        BY <1>4
      <4>2. /\ SubSeq(F, k + 1, k + RowSize) \in Seq(Nat)
            /\ Len(SubSeq(F, k + 1, k + RowSize)) = (k + RowSize) - (k + 1) + 1
            /\ \A j \in 1..(k + RowSize) - (k + 1) + 1 :
                 SubSeq(F, k + 1, k + RowSize)[j] = F[(k + 1) + j - 1]
        BY <3>4, <4>1, SubSeqProperties, SMTT(30)
      <4>3. \A j \in 1..RowSize : (k + 1) + j - 1 = k + j
        OBVIOUS
      <4> QED
        BY <3>2, <3>3, <4>1, <4>2, <4>3
    <3>6. rows[i] \in Seq(Nat) /\ Len(rows[i]) = RowSize
      BY <1>1, RowIsCells DEF Rows
    <3>7. \A j \in 1..RowSize : row[j] = rows[i][j]
      <4> TAKE j \in 1..RowSize
      <4>1. j \in 1..w
        BY <1>4
      <4>2. F[k + j] = wide[i][j]
        BY <1>3, <3>1, <4>1
      <4> QED
        BY <1>1, <3>5, <4>2
    <3>8. row = rows[i]
      BY <3>5, <3>6, <3>7, SeqEqual
    <3> QED
      BY <3>3, <3>8
  <2> HIDE DEF Row, stride
  <2>7. table = [i \in 1..n |-> rows[i]]
    BY <2>4, <2>6
  <2>8. rows = [i \in 1..n |-> rows[i]]
    BY <1>1 DEF Rows
  <2> QED
    BY <1>2, <2>5, <2>7, <2>8
<1> QED
  BY <1>7, <1>8

LEMMA ScalarYields ==
  ASSUME NEW f \in Fields, NEW value \in Seq(Nat), NEW ids
  PROVE  Yields(Scalar(f, value), ids, f.name, value, 0)
BY ScalarScanned, Zenon DEF Yields

LEMMA RowsAsWide ==
  ASSUME NEW rows \in Rows, NEW count \in {0, Len(rows)}
  PROVE  DecodeTable(FlattenSeq(rows), count) = rows
<1>1. RowSize \in Nat /\ RowSize >= RowSize
  BY WireAssumption
<1>2. rows \in Seq({s \in Seq(Nat) : Len(s) = RowSize})
  <2>1. [1..RowSize -> Nat] \subseteq {s \in Seq(Nat) : Len(s) = RowSize}
    BY RowIsCells
  <2> QED
    BY <2>1 DEF Rows
<1>3. count \in Nat /\ (count = Len(rows) \/ (count = 0 /\ RowSize = RowSize))
  BY LenProperties DEF Rows
<1>4. \A i \in 1..Len(rows), j \in 1..RowSize : rows[i][j] = rows[i][j]
  OBVIOUS
<1> QED
  BY <1>1, <1>2, <1>3, <1>4, RowsDecoded

LEMMA WiderRowsDecoded ==
  ASSUME NEW rows \in Rows
  PROVE  DecodeTable(FlattenSeq(WiderRows(rows)), Len(rows)) = rows
<1>1. PICK w : w = RowSize + Padding
  OBVIOUS
<1>2. w \in Nat /\ w >= RowSize
  BY <1>1, WireAssumption
<1>3. PICK wide : wide = WiderRows(rows)
  OBVIOUS
<1>4. Len(wide) = Len(rows) /\ \A i \in 1..Len(rows) : wide[i] = Wider(rows[i])
  BY <1>3, WiderRowsType
<1>5. \A i \in 1..Len(rows) : rows[i] \in [1..RowSize -> Nat]
  BY DEF Rows
<1>6. wide \in Seq({s \in Seq(Nat) : Len(s) = w})
  <2>1. wide \in Seq(Seq(Nat))
    BY <1>3, WiderRowsType
  <2>2. \A i \in 1..Len(wide) : wide[i] \in {s \in Seq(Nat) : Len(s) = w}
    BY <1>1, <1>4, <1>5, WiderType
  <2> QED
    BY <2>1, <2>2
<1>7. \A i \in 1..Len(rows), j \in 1..RowSize : wide[i][j] = rows[i][j]
  BY <1>4, <1>5, WiderType
<1>8. Len(rows) \in Nat
  BY LenProperties DEF Rows
<1> QED
  BY <1>2, <1>3, <1>4, <1>6, <1>7, <1>8, RowsDecoded

-----------------------------------------------------------------------------
(* The reply, decoded                                                      *)

(* However a table comes back, its records yield cells that decode to its   *)
(* rows.                                                                    *)
LEMMA TableYields ==
  ASSUME NEW f \in Fields, NEW rows \in Rows, NEW ids \in Seq(Nat), NEW style
  PROVE  \E data \in Seq(Nat), n \in Nat :
           /\ Yields(TableReply(f, rows, ids, style), ids, f.name, data, n)
           /\ rows = DecodeTable(data, n)
<1>0. Len(rows) \in Nat
  BY LenProperties DEF Rows
<1>1. PICK flat \in Seq(Nat) : flat = FlattenSeq(rows)
  BY RowsAreSeqs, FlattenType
<1>2. rows = DecodeTable(flat, Len(rows))
  BY <1>1, RowsAsWide
<1>3. CASE TableReply(f, rows, ids, style) = NamedTable(f, rows)
  <2>1. PICK wide \in Seq(Nat) : wide = FlattenSeq(WiderRows(rows))
    BY WiderRowsType, FlattenType
  <2>2. Yields(NamedTable(f, rows), ids, f.name, wide, Len(rows))
    BY <2>1, NamedTableScanned DEF Yields
  <2>3. rows = DecodeTable(wide, Len(rows))
    BY <2>1, WiderRowsDecoded
  <2> QED
    BY <1>0, <1>3, <2>2, <2>3
<1>4. ASSUME NEW i \in DOMAIN ids, ids[i] = f.name,
             TableReply(f, rows, ids, style) = DeltaTable(rows, i)
      PROVE  Yields(TableReply(f, rows, ids, style), ids, f.name, flat, Len(rows))
  <2>1. i \in Nat /\ f.name \in Nat \ {0}
    <3>1. DOMAIN ids = 1..Len(ids) /\ Len(ids) \in Nat
      BY LenProperties
    <3> QED
      BY <3>1 DEF Fields
  <2>2. Yields(DeltaTable(rows, i), ids, f.name, flat, Len(rows))
    BY <1>1, <1>4, <2>1, DeltaTableScanned DEF Yields
  <2> QED
    BY <1>4, <2>2
<1>5. CASE TableReply(f, rows, ids, style) = PlainTable(f, rows)
  <2>1. Yields(PlainTable(f, rows), ids, f.name, flat, Len(rows))
    BY <1>1, PlainTableScanned DEF Yields
  <2> QED
    BY <1>0, <1>2, <1>5, <2>1
<1>6. CASE \E i \in DOMAIN ids : /\ ids[i] = f.name
                                 /\ TableReply(f, rows, ids, style) = DeltaTable(rows, i)
  <2>1. Yields(TableReply(f, rows, ids, style), ids, f.name, flat, Len(rows))
    BY <1>4, <1>6
  <2> QED
    BY <1>0, <1>2, <2>1
<1> QED
  BY <1>3, <1>5, <1>6, TableReplyIs

(* Records that the reader takes no notice of.                              *)
IgnoredRecords ==
  {r \in PlainRecords : r.tag \in {DmTableId, CallStart, FuncName, ParamSection, ExportDecl,
                                   ResponseStart, ReturnCode}}

LEMMA IgnoredScanned ==
  ASSUME NEW ids
  PROVE  \A s \in Seq(IgnoredRecords) : s \in Seq(TlvRecords) /\ Scan(s, ids) = Nothing
<1> DEFINE P == {s \in Seq(TlvRecords) : Scan(s, ids) = Nothing}
<1>1. <<>> \in P
  BY ScanEmpty
<1>2. ASSUME NEW s \in Seq(IgnoredRecords), NEW e \in IgnoredRecords, s \in P
      PROVE  Append(s, e) \in P
  <2>1. e \in TlvRecords
    BY DEF IgnoredRecords, PlainRecords
  <2>2. e.tag \in {DmTableId, CallStart, FuncName, ParamSection, ExportDecl,
                   ResponseStart, ReturnCode}
    BY DEF IgnoredRecords
  <2>3. s \in Seq(TlvRecords) /\ Scan(s, ids) = Nothing
    BY <1>2
  <2>4. Append(s, e) \in Seq(TlvRecords)
    BY <2>1, <2>3, AppendProperties
  <2>5. Scan(Append(s, e), ids) = RecordRead(Scan(s, ids), e, ids)
    BY <2>1, <2>3, ScanAppend
  <2>6. RecordRead(Nothing, e, ids) = Nothing
    BY <2>2, ReadByTag
  <2>7. Scan(Append(s, e), ids) = Nothing
    BY <2>3, <2>5, <2>6
  <2> QED
    BY <2>4, <2>7
<1> HIDE DEF P
<1>3. \A s \in Seq(IgnoredRecords) : s \in P
  BY <1>1, <1>2, SeqInduction
<1> QED
  BY <1>3 DEF P

LEMMA RecIsIgnored ==
  ASSUME NEW tag \in {DmTableId, CallStart, FuncName, ParamSection, ExportDecl,
                     ResponseStart, ReturnCode},
         NEW value \in Seq(Nat)
  PROVE  Rec(tag, value) \in IgnoredRecords
<1>1. tag \in Nat \ {Terminator}
  BY TagsArePlain
<1>2. Rec(tag, value) \in PlainRecords
  BY <1>1, RecIsPlain
<1> QED
  BY <1>2, RecFields DEF IgnoredRecords

LEMMA ReplyHeadIgnored == \A ids : ReplyHead \in Seq(TlvRecords) /\ Scan(ReplyHead, ids) = Nothing
<1>1. <<>> \in Seq(Nat) /\ <<0>> \in Seq(Nat)
  BY EmptySeq
<1>2. Rec(ResponseStart, <<>>) \in IgnoredRecords /\ Rec(ReturnCode, <<0>>) \in IgnoredRecords
  BY <1>1, RecIsIgnored
<1>3. PICK r, q : r = Rec(ResponseStart, <<>>) /\ q = Rec(ReturnCode, <<0>>)
  OBVIOUS
<1>4. r \in IgnoredRecords /\ q \in IgnoredRecords
  BY <1>2, <1>3
<1>5. <<r, q>> \in Seq(IgnoredRecords)
  BY <1>4
<1>6. ReplyHead \in Seq(IgnoredRecords)
  BY <1>3, <1>5 DEF ReplyHead
<1> QED
  BY <1>6, IgnoredScanned

LEMMA DescFields ==
  ASSUME NEW d \in Descs
  PROVE  /\ Len(d) \in Nat /\ DOMAIN d = 1..Len(d) /\ ToSet(d) = {d[i] : i \in 1..Len(d)}
         /\ \A i \in 1..Len(d) : d[i] \in Fields /\ d[i].table \in BOOLEAN
<1>1. d \in Seq(Fields)
  BY DescIs
<1>2. Len(d) \in Nat /\ DOMAIN d = 1..Len(d)
  BY <1>1, LenProperties
<1>3. \A i \in 1..Len(d) : d[i] \in Fields /\ d[i].table \in BOOLEAN
  BY <1>1, FieldOf
<1> QED
  BY <1>2, <1>3 DEF ToSet

(* A parameter of a reply carries the handler's value.                      *)
LEMMA ReplyBlockCarries ==
  ASSUME NEW d \in Descs, NEW r \in ResultSets, NEW ids \in Seq(Nat), NEW style,
         NEW i \in 1..Len(d), d[i].direction # "import", d[i].name \in DOMAIN r
  PROVE  Carried(ReplyBlock(d, r, ids, style, i), ids, d[i], r[d[i].name], TRUE)
<1>1. d[i] \in Fields
  BY DescFields
<1>2. CASE d[i].table
  <2>1. r[d[i].name] \in Rows
    BY <1>2, ValueIs
  <2>2. ReplyBlock(d, r, ids, style, i) = TableReply(d[i], r[d[i].name], ids, style)
    BY <1>2, Zenon DEF ReplyBlock
  <2>3. PICK data \in Seq(Nat), n \in Nat :
          /\ Yields(TableReply(d[i], r[d[i].name], ids, style), ids, d[i].name, data, n)
          /\ r[d[i].name] = DecodeTable(data, n)
    BY <1>1, <2>1, TableYields
  <2>4. Carries(ReplyBlock(d, r, ids, style, i), ids, d[i], r[d[i].name], TRUE, data, n)
    BY <1>2, <2>2, <2>3 DEF Carries
  <2> QED
    BY <2>4 DEF Carried
<1>3. CASE ~d[i].table
  <2>1. r[d[i].name] \in Seq(Nat)
    BY <1>3, ValueIs
  <2>2. ReplyBlock(d, r, ids, style, i) = Scalar(d[i], r[d[i].name])
    BY <1>3, Zenon DEF ReplyBlock
  <2>3. Yields(Scalar(d[i], r[d[i].name]), ids, d[i].name, r[d[i].name], 0)
    BY <1>1, <2>1, ScalarYields
  <2>4. Carries(ReplyBlock(d, r, ids, style, i), ids, d[i], r[d[i].name], TRUE, r[d[i].name], 0)
    BY <1>3, <2>2, <2>3 DEF Carries
  <2> QED
    BY <2>4 DEF Carried
<1> QED
  BY <1>2, <1>3

LEMMA ReplyDecoded ==
  ASSUME NEW d \in Descs, NEW r \in ResultSets, NEW ids \in Seq(Nat), NEW style
  PROVE  Decoded({f \in ToSet(d) : f.direction # "import"},
                 Flushed(Scan(ReplyRecords(d, r, ids, style), ids)), TRUE) =
           Only(r, {f.name : f \in {g \in ToSet(d) : g.direction # "import"}})
<1> DEFINE B == [i \in DOMAIN d |-> ReplyBlock(d, r, ids, style, i)]
           I == {i \in 1..Len(d) : d[i].direction # "import"}
           K == {i \in I : d[i].name \in DOMAIN r}
<1>1. d \in Seq(Fields) /\ Len(d) \in Nat /\ DOMAIN d = 1..Len(d)
  BY DescIs, DescFields
<1>2. \A i \in 1..Len(d) : B[i] = ReplyBlock(d, r, ids, style, i)
  BY <1>1
<1>3. B \in Seq(Seq(TlvRecords)) /\ Len(B) = Len(d)
  <2>1. \A i \in 1..Len(d) : ReplyBlock(d, r, ids, style, i) \in Seq(PlainRecords)
    BY ReplyBlockType
  <2>2. \A i \in 1..Len(d) : B[i] \in Seq(TlvRecords)
    BY <1>2, <2>1, PlainSequence
  <2>3. DOMAIN B = DOMAIN d /\ B = [i \in DOMAIN d |-> B[i]]
    OBVIOUS
  <2> HIDE DEF B
  <2> QED
    BY <1>1, <2>2, <2>3, BlocksType
<1>4. \A i \in K : Carried(B[i], ids, d[i], r[d[i].name], TRUE)
  <2> SUFFICES ASSUME NEW i \in K
               PROVE  Carried(B[i], ids, d[i], r[d[i].name], TRUE)
    OBVIOUS
  <2>1. i \in 1..Len(d) /\ d[i].direction # "import" /\ d[i].name \in DOMAIN r
    OBVIOUS
  <2>2. Carried(ReplyBlock(d, r, ids, style, i), ids, d[i], r[d[i].name], TRUE)
    BY <2>1, ReplyBlockCarries
  <2> HIDE DEF B
  <2> QED
    BY <1>2, <2>1, <2>2
<1>5. \A i \in (1..Len(d)) \ K : B[i] = <<>>
  <2> SUFFICES ASSUME NEW i \in (1..Len(d)) \ K
               PROVE  ReplyBlock(d, r, ids, style, i) = <<>>
    BY <1>2
  <2> QED
    BY DEF ReplyBlock
<1>6. ReplyRecords(d, r, ids, style) = ReplyHead \o FlattenSeq(B)
  BY DEF ReplyRecords
<1>7. {f \in ToSet(d) : f.direction # "import"} = FieldsAt(d, I)
  BY DescFields DEF FieldsAt
<1>8. I \in SUBSET (1..Len(d)) /\ K \in SUBSET I
  OBVIOUS
<1>9. NamesAt(d, K) = DOMAIN r \intersect {f.name : f \in FieldsAt(d, I)}
  BY DEF NamesAt, FieldsAt
<1>10. ReplyHead \in Seq(TlvRecords) /\ Scan(ReplyHead, ids) = Nothing
  BY ReplyHeadIgnored
<1> HIDE DEF B, I, K
<1>11. Decoded(FieldsAt(d, I), Flushed(Scan(ReplyHead \o FlattenSeq(B), ids)), TRUE) =
         TakenAt(d, K, r)
  <2>1. AllCarried(B, d, I, K, r, TRUE, ids)
    BY <1>3, <1>4, <1>5, <1>8 DEF AllCarried
  <2>2. PICK counted : counted = TRUE
    OBVIOUS
  <2>3. AllCarried(B, d, I, K, r, counted, ids)
    BY <2>1, <2>2, Zenon
  <2>4. PICK head \in Seq(TlvRecords) : head = ReplyHead
    BY <1>10
  <2>5. Scan(head, ids) = Nothing
    BY <1>10, <2>4
  <2>6. Decoded(FieldsAt(d, I), Flushed(Scan(head \o FlattenSeq(B), ids)), counted) =
          TakenAt(d, K, r)
    BY <2>3, <2>5, BlocksDecoded
  <2> QED
    BY <2>2, <2>4, <2>6, Zenon
<1> QED
  BY <1>6, <1>7, <1>9, <1>11 DEF Only, TakenAt

-----------------------------------------------------------------------------
(* The request                                                             *)

RequestBlock(d, p, i) ==
  IF d[i].direction = "export" \/ d[i].name \notin DOMAIN p THEN <<>>
  ELSE IF d[i].table THEN TableRequest(d, p, d[i])
  ELSE Scalar(d[i], p[d[i].name])

RequestHead(d) ==
  <<Rec(CallStart, <<>>), Rec(FuncName, <<1>>), Rec(ParamSection, <<>>)>>
  \o FlattenSeq([i \in DOMAIN d |->
       IF d[i].direction # "import" THEN <<Rec(ExportDecl, <<d[i].name>>)>> ELSE <<>>])

RequestRecords(d, p) ==
  RequestHead(d) \o FlattenSeq([i \in DOMAIN d |-> RequestBlock(d, p, i)])

LEMMA RequestHeadType ==
  ASSUME NEW d \in Descs
  PROVE  RequestHead(d) \in Seq(IgnoredRecords)
<1> DEFINE b == [i \in DOMAIN d |->
                   IF d[i].direction # "import" THEN <<Rec(ExportDecl, <<d[i].name>>)>> ELSE <<>>]
<1>1. d \in Seq(Fields)
  BY DescIs
<1>2. \A i \in 1..Len(d) : b[i] \in Seq(IgnoredRecords)
  <2> TAKE i \in 1..Len(d)
  <2>1. d[i].name \in Nat /\ i \in DOMAIN d
    BY <1>1, FieldOf
  <2>2. <<d[i].name>> \in Seq(Nat)
    BY <2>1
  <2>3. Rec(ExportDecl, <<d[i].name>>) \in IgnoredRecords
    BY <2>2, RecIsIgnored
  <2>4. PICK e : e = Rec(ExportDecl, <<d[i].name>>)
    OBVIOUS
  <2>5. <<e>> \in Seq(IgnoredRecords) /\ <<>> \in Seq(IgnoredRecords)
    BY <2>3, <2>4
  <2>6. b[i] = <<e>> \/ b[i] = <<>>
    BY <2>1, <2>4
  <2> QED
    BY <2>5, <2>6
<1>3. DOMAIN b = DOMAIN d /\ b = [i \in DOMAIN d |-> b[i]]
  OBVIOUS
<1>4. RequestHead(d) =
        <<Rec(CallStart, <<>>), Rec(FuncName, <<1>>), Rec(ParamSection, <<>>)>> \o FlattenSeq(b)
  BY Zenon DEF RequestHead
<1> HIDE DEF b
<1>5. b \in Seq(Seq(IgnoredRecords))
  BY <1>1, <1>2, <1>3, BlocksType, Zenon
<1>6. FlattenSeq(b) \in Seq(IgnoredRecords)
  BY <1>5, FlattenType
<1>7. <<>> \in Seq(Nat) /\ <<1>> \in Seq(Nat)
  OBVIOUS
<1>8. PICK x : x = Rec(CallStart, <<>>)
  OBVIOUS
<1>9. PICK y : y = Rec(FuncName, <<1>>)
  OBVIOUS
<1>10. PICK z : z = Rec(ParamSection, <<>>)
  OBVIOUS
<1>11. x \in IgnoredRecords /\ y \in IgnoredRecords /\ z \in IgnoredRecords
  BY <1>7, <1>8, <1>9, <1>10, RecIsIgnored
<1>12. <<x, y, z>> \in Seq(IgnoredRecords)
  BY <1>11
<1>13. <<x, y, z>> \o FlattenSeq(b) \in Seq(IgnoredRecords)
  BY <1>6, <1>12, ConcatProperties
<1> QED
  BY <1>4, <1>8, <1>9, <1>10, <1>13

LEMMA FlattenHas ==
  ASSUME NEW X
  PROVE  \A ss \in Seq(Seq(X)) : \A i \in 1..Len(ss) : \A k \in 1..Len(ss[i]) :
           \E j \in 1..Len(FlattenSeq(ss)) : FlattenSeq(ss)[j] = ss[i][k]
<1> DEFINE Has(ss) == \A i \in 1..Len(ss) : \A k \in 1..Len(ss[i]) :
                        \E j \in 1..Len(FlattenSeq(ss)) : FlattenSeq(ss)[j] = ss[i][k]
           P == {ss \in Seq(Seq(X)) : Has(ss)}
<1>1. <<>> \in P
  <2>1. PICK e : e = <<>>
    OBVIOUS
  <2>2. e \in Seq(Seq(X)) /\ Len(e) = 0
    BY <2>1
  <2>3. e \in P
    BY <2>2
  <2> QED
    BY <2>1, <2>3
<1>2. ASSUME NEW ss \in Seq(Seq(X)), NEW s \in Seq(X), ss \in P
      PROVE  Append(ss, s) \in P
  <2>1. PICK f \in Seq(X) : f = FlattenSeq(ss)
    BY FlattenType
  <2>2. PICK t : t = Append(ss, s)
    OBVIOUS
  <2>3. /\ Append(ss, s) \in Seq(Seq(X)) /\ Len(Append(ss, s)) = Len(ss) + 1
        /\ \A i \in 1..Len(ss) : Append(ss, s)[i] = ss[i]
        /\ Append(ss, s)[Len(ss) + 1] = s
    BY AppendProperties
  <2>4. /\ t \in Seq(Seq(X)) /\ Len(t) = Len(ss) + 1
        /\ \A i \in 1..Len(ss) : t[i] = ss[i]
        /\ t[Len(ss) + 1] = s
    BY <2>2, <2>3
  <2>5. PICK g : g = f \o s
    OBVIOUS
  <2>6. FlattenSeq(t) = g
    BY <2>1, <2>2, <2>5, FlattenAppend
  <2>7. Joins(g, f, s)
    BY <2>5, ConcatJoins
  <2>8. Len(f) \in Nat /\ Len(s) \in Nat /\ Len(ss) \in Nat
    BY LenProperties
  <2>9. ASSUME NEW i \in 1..Len(t), NEW k \in 1..Len(t[i])
        PROVE  \E j \in 1..Len(g) : g[j] = t[i][k]
    <3>1. CASE i <= Len(ss)
      <4>1. i \in 1..Len(ss) /\ t[i] = ss[i] /\ k \in 1..Len(ss[i])
        BY <2>4, <2>8, <3>1
      <4>2. PICK j \in 1..Len(f) : f[j] = ss[i][k]
        BY <1>2, <2>1, <4>1
      <4>3. j \in 1..Len(g) /\ g[j] = f[j]
        BY <2>7, <2>8 DEF Joins
      <4> QED
        BY <4>1, <4>2, <4>3
    <3>2. CASE ~(i <= Len(ss))
      <4>1. i = Len(ss) + 1
        BY <2>4, <2>8, <3>2
      <4>2. t[i] = s /\ k \in 1..Len(s)
        BY <2>4, <4>1
      <4>3. Len(f) + k \in 1..Len(g) /\ g[Len(f) + k] = s[k]
        BY <2>7, <2>8, <4>2 DEF Joins
      <4> QED
        BY <4>2, <4>3
    <3> QED
      BY <3>1, <3>2
  <2>10. t \in P
    BY <2>4, <2>6, <2>9
  <2> QED
    BY <2>2, <2>10
<1> HIDE DEF P
<1>3. \A ss \in Seq(Seq(X)) : ss \in P
  BY <1>1, <1>2, SeqInduction
<1> QED
  BY <1>3 DEF P

(* A table that is sent with rows has an id.                                *)
SentId(d, p, f) ==
  CHOOSE i \in 1..Len(DmTableIds(d, p)) : DmTableIds(d, p)[i] = f.name

LEMMA SentIdType ==
  ASSUME NEW d \in Descs, NEW p, NEW i \in 1..Len(d), SentWithRows(d[i], p)
  PROVE  SentId(d, p, d[i]) \in Nat
<1> DEFINE b == [j \in DOMAIN d |-> IF SentWithRows(d[j], p) THEN <<d[j].name>> ELSE <<>>]
<1>1. d \in Seq(Fields) /\ DOMAIN d = 1..Len(d)
  BY DescIs, DescFields
<1>2. \A j \in 1..Len(d) : b[j] \in Seq(Nat)
  <2> TAKE j \in 1..Len(d)
  <2>1. d[j].name \in Nat /\ j \in DOMAIN d
    BY <1>1, FieldOf
  <2>2. <<d[j].name>> \in Seq(Nat) /\ <<>> \in Seq(Nat)
    BY <2>1
  <2> QED
    BY <2>1, <2>2
<1>3. DOMAIN b = DOMAIN d /\ b = [j \in DOMAIN d |-> b[j]]
  OBVIOUS
<1>4. DmTableIds(d, p) = FlattenSeq(b)
  BY DEF DmTableIds
<1>5. b[i] = <<d[i].name>>
  BY <1>1
<1> HIDE DEF b
<1>6. b \in Seq(Seq(Nat)) /\ Len(b) = Len(d)
  BY <1>1, <1>2, <1>3, BlocksType, Zenon
<1>7. PICK m : m = d[i].name
  OBVIOUS
<1>8. i \in 1..Len(b) /\ 1 \in 1..Len(b[i]) /\ b[i][1] = m
  BY <1>5, <1>6, <1>7
<1>9. PICK ids \in Seq(Nat) : ids = FlattenSeq(b)
  BY <1>6, FlattenType
<1>10. \E j \in 1..Len(FlattenSeq(b)) : FlattenSeq(b)[j] = b[i][1]
  <2>1. \A x \in 1..Len(b) : \A k \in 1..Len(b[x]) :
          \E j \in 1..Len(FlattenSeq(b)) : FlattenSeq(b)[j] = b[x][k]
    BY <1>6, FlattenHas
  <2> QED
    BY <1>8, <2>1
<1>11. \E j \in 1..Len(ids) : ids[j] = m
  BY <1>8, <1>9, <1>10
<1>12. (CHOOSE j \in 1..Len(ids) : ids[j] = m) \in 1..Len(ids)
  BY <1>11
<1>13. Len(ids) \in Nat
  BY LenProperties
<1>14. SentId(d, p, d[i]) = CHOOSE j \in 1..Len(ids) : ids[j] = m
  BY <1>4, <1>7, <1>9, Zenon DEF SentId
<1> QED
  BY <1>12, <1>13, <1>14

LEMMA HeadedTableType ==
  ASSUME NEW m \in Nat, NEW id \in Nat, NEW tag \in {TableContent, TableRow}, NEW rows \in Rows
  PROVE  HeadedTable(m, id, tag, rows) \in Seq(PlainRecords)
<1>1. Len(rows) \in Nat /\ RowSize \in Nat
  BY LenProperties, WireAssumption DEF Rows
<1>2. <<m>> \in Seq(Nat) /\ <<id>> \in Seq(Nat) /\ <<RowSize, Len(rows)>> \in Seq(Nat)
  BY <1>1
<1>3. PICK x : x = Rec(TableName, <<m>>)
  OBVIOUS
<1>4. PICK y : y = Rec(DmTableId, <<id>>)
  OBVIOUS
<1>5. PICK z : z = Rec(TableInfo, <<RowSize, Len(rows)>>)
  OBVIOUS
<1>6. x \in PlainRecords /\ y \in PlainRecords /\ z \in PlainRecords
  BY <1>2, <1>3, <1>4, <1>5, TagsArePlain, RecIsPlain
<1>7. <<x, y, z>> \in Seq(PlainRecords)
  BY <1>6
<1>8. RowRecords(tag, rows) \in Seq(PlainRecords)
  BY TagsArePlain, RowRecordsType
<1>9. <<x, y, z>> \o RowRecords(tag, rows) \in Seq(PlainRecords)
  BY <1>7, <1>8, ConcatProperties
<1> QED
  BY <1>3, <1>4, <1>5, <1>9 DEF HeadedTable

LEMMA TableRequestIs ==
  ASSUME NEW d \in Descs, NEW p \in ParamSets, NEW i \in 1..Len(d),
         d[i].direction # "export", d[i].name \in DOMAIN p, d[i].table
  PROVE  /\ p[d[i].name] \in Rows
         /\ p[d[i].name] = <<>> => TableRequest(d, p, d[i]) = <<>>
         /\ p[d[i].name] # <<>> =>
              \E id \in Nat :
                TableRequest(d, p, d[i]) = HeadedTable(d[i].name, id, TableContent, p[d[i].name])
<1>1. p[d[i].name] \in Rows
  BY ValueIs
<1>2. ASSUME p[d[i].name] = <<>>
      PROVE  TableRequest(d, p, d[i]) = <<>>
  BY <1>2 DEF TableRequest
<1>3. ASSUME p[d[i].name] # <<>>
      PROVE  \E id \in Nat :
                TableRequest(d, p, d[i]) = HeadedTable(d[i].name, id, TableContent, p[d[i].name])
  <2>1. SentWithRows(d[i], p)
    BY <1>3 DEF SentWithRows
  <2>2. SentId(d, p, d[i]) \in Nat
    BY <2>1, SentIdType
  <2>3. TableRequest(d, p, d[i]) =
          HeadedTable(d[i].name, SentId(d, p, d[i]), TableContent, p[d[i].name])
    BY <1>3, Zenon DEF TableRequest, HeadedTable, SentId
  <2> QED
    BY <2>2, <2>3
<1> QED
  BY <1>1, <1>2, <1>3

LEMMA RequestBlockType ==
  ASSUME NEW d \in Descs, NEW p \in ParamSets, NEW i \in 1..Len(d)
  PROVE  RequestBlock(d, p, i) \in Seq(PlainRecords)
<1>1. d[i] \in Fields /\ d[i].name \in Nat
  BY DescFields DEF Fields
<1>2. <<>> \in Seq(PlainRecords)
  BY EmptySeq
<1>3. CASE d[i].direction = "export" \/ d[i].name \notin DOMAIN p
  BY <1>2, <1>3 DEF RequestBlock
<1>4. CASE d[i].direction # "export" /\ d[i].name \in DOMAIN p /\ d[i].table
  <2>1. RequestBlock(d, p, i) = TableRequest(d, p, d[i])
    BY <1>4 DEF RequestBlock
  <2>2. TableRequest(d, p, d[i]) \in Seq(PlainRecords)
    BY <1>1, <1>2, <1>4, TableRequestIs, HeadedTableType
  <2> QED
    BY <2>1, <2>2
<1>5. CASE d[i].direction # "export" /\ d[i].name \in DOMAIN p /\ ~d[i].table
  <2>1. RequestBlock(d, p, i) = Scalar(d[i], p[d[i].name])
    BY <1>5 DEF RequestBlock
  <2>2. p[d[i].name] \in Seq(Nat)
    BY <1>5, ValueIs
  <2> QED
    BY <1>1, <2>1, <2>2, ScalarType
<1> QED
  BY <1>3, <1>4, <1>5

LEMMA RequestType ==
  ASSUME NEW d \in Descs, NEW p \in ParamSets
  PROVE  /\ BuildInvokeRequest(d, p) = Terminated(RequestRecords(d, p))
         /\ RequestRecords(d, p) \in Seq(PlainRecords)
<1> DEFINE b == [i \in DOMAIN d |-> RequestBlock(d, p, i)]
           front == RequestRecords(d, p)
<1>1. d \in Seq(Fields)
  BY DescIs
<1>2. b \in Seq(Seq(PlainRecords))
  <2>1. \A i \in 1..Len(d) : b[i] \in Seq(PlainRecords)
    BY <1>1, RequestBlockType, FieldOf
  <2>2. DOMAIN b = DOMAIN d /\ b = [i \in DOMAIN d |-> b[i]]
    OBVIOUS
  <2> HIDE DEF b
  <2> QED
    BY <1>1, <2>1, <2>2, BlocksType, Zenon
<1>3. front = RequestHead(d) \o FlattenSeq(b)
  BY DEF RequestRecords
<1>4. BuildInvokeRequest(d, p) = front \o <<Rec(Terminator, <<>>)>>
  BY <1>3, Zenon DEF BuildInvokeRequest, RequestHead, RequestBlock, b
<1> HIDE DEF b
<1>5. FlattenSeq(b) \in Seq(PlainRecords)
  BY <1>2, FlattenType
<1>6. RequestHead(d) \in Seq(PlainRecords)
  <2>1. PICK h \in Seq(IgnoredRecords) : h = RequestHead(d)
    BY RequestHeadType
  <2>2. Len(h) \in Nat /\ h \in [1..Len(h) -> IgnoredRecords]
    OBVIOUS
  <2>3. IgnoredRecords \subseteq PlainRecords
    BY DEF IgnoredRecords
  <2>4. h \in [1..Len(h) -> PlainRecords]
    BY <2>2, <2>3
  <2>5. h \in Seq(PlainRecords)
    BY <2>2, <2>4, FunctionIsSeq
  <2> QED
    BY <2>1, <2>5
<1>7. front \in Seq(PlainRecords)
  BY <1>3, <1>5, <1>6, ConcatProperties, Zenon
<1>8. BuildInvokeRequest(d, p) = Terminated(front)
  <2>1. front \in Seq(TlvRecords)
    BY <1>7, PlainSequence
  <2>2. Append(front, Rec(Terminator, <<>>)) = front \o <<Rec(Terminator, <<>>)>>
    BY <2>1, TerminatorCells, AppendIsConcat
  <2> QED
    BY <1>4, <2>2 DEF Terminated
<1> QED
  BY <1>7, <1>8

(* A parameter of a request carries the caller's value, without a count.    *)
LEMMA RequestBlockCarries ==
  ASSUME NEW d \in Descs, NEW p \in ParamSets, NEW i \in 1..Len(d),
         d[i].direction # "export", d[i].name \in DOMAIN p,
         d[i].table => p[d[i].name] # <<>>
  PROVE  Carried(RequestBlock(d, p, i), <<>>, d[i], p[d[i].name], FALSE)
<1>1. d[i] \in Fields /\ d[i].name \in Nat \ {0}
  BY DescFields DEF Fields
<1>2. CASE d[i].table
  <2>1. PICK rows \in Rows : rows = p[d[i].name]
    BY <1>2, TableRequestIs
  <2>2. PICK id \in Nat :
          TableRequest(d, p, d[i]) = HeadedTable(d[i].name, id, TableContent, rows)
    BY <1>2, <2>1, TableRequestIs
  <2>3. RequestBlock(d, p, i) = TableRequest(d, p, d[i])
    BY <1>2 DEF RequestBlock
  <2>4. Yields(HeadedTable(d[i].name, id, TableContent, rows), <<>>, d[i].name,
               FlattenSeq(rows), Len(rows))
    BY <1>1, HeadedScanned DEF Yields
  <2>5. Len(rows) \in Nat /\ DecodeTable(FlattenSeq(rows), 0) = rows
    BY LenProperties, RowsAsWide DEF Rows
  <2>6. Carries(RequestBlock(d, p, i), <<>>, d[i], p[d[i].name], FALSE,
                FlattenSeq(rows), Len(rows))
    BY <1>2, <2>1, <2>2, <2>3, <2>4, <2>5 DEF Carries
  <2> QED
    BY <2>6 DEF Carried
<1>3. CASE ~d[i].table
  <2>1. p[d[i].name] \in Seq(Nat)
    BY <1>3, ValueIs
  <2>2. RequestBlock(d, p, i) = Scalar(d[i], p[d[i].name])
    BY <1>3, Zenon DEF RequestBlock
  <2>3. Yields(Scalar(d[i], p[d[i].name]), <<>>, d[i].name, p[d[i].name], 0)
    BY <1>1, <2>1, ScalarYields
  <2>4. Carries(RequestBlock(d, p, i), <<>>, d[i], p[d[i].name], FALSE, p[d[i].name], 0)
    BY <1>3, <2>2, <2>3 DEF Carries
  <2> QED
    BY <2>4 DEF Carried
<1> QED
  BY <1>2, <1>3

(* What the handler is called with.                                         *)
Passed(d, p) ==
  Only(p, {f.name : f \in {g \in ToSet(d) :
                      g.direction # "export"
                        /\ (g.table /\ g.name \in DOMAIN p => p[g.name] # <<>>)}})

LEMMA RequestDecoded ==
  ASSUME NEW d \in Descs, NEW p \in ParamSets
  PROVE  Decoded(ToSet(d), Flushed(Scan(RequestRecords(d, p), <<>>)), FALSE) = Passed(d, p)
<1> DEFINE B == [i \in DOMAIN d |-> RequestBlock(d, p, i)]
           I == 1..Len(d)
           K == {i \in I : /\ d[i].direction # "export" /\ d[i].name \in DOMAIN p
                           /\ d[i].table => p[d[i].name] # <<>>}
<1>1. d \in Seq(Fields) /\ Len(d) \in Nat /\ DOMAIN d = 1..Len(d)
  BY DescIs, DescFields
<1>2. \A i \in 1..Len(d) : B[i] = RequestBlock(d, p, i)
  BY <1>1
<1>3. B \in Seq(Seq(TlvRecords)) /\ Len(B) = Len(d)
  <2>1. \A i \in 1..Len(d) : RequestBlock(d, p, i) \in Seq(PlainRecords)
    BY RequestBlockType
  <2>2. \A i \in 1..Len(d) : B[i] \in Seq(TlvRecords)
    BY <1>2, <2>1, PlainSequence
  <2>3. DOMAIN B = DOMAIN d /\ B = [i \in DOMAIN d |-> B[i]]
    OBVIOUS
  <2> HIDE DEF B
  <2> QED
    BY <1>1, <2>2, <2>3, BlocksType
<1>4. \A i \in K : Carried(B[i], <<>>, d[i], p[d[i].name], FALSE)
  <2> SUFFICES ASSUME NEW i \in K
               PROVE  Carried(B[i], <<>>, d[i], p[d[i].name], FALSE)
    OBVIOUS
  <2>1. /\ i \in 1..Len(d) /\ d[i].direction # "export" /\ d[i].name \in DOMAIN p
        /\ d[i].table => p[d[i].name] # <<>>
    OBVIOUS
  <2>2. Carried(RequestBlock(d, p, i), <<>>, d[i], p[d[i].name], FALSE)
    BY <2>1, RequestBlockCarries
  <2> HIDE DEF B
  <2> QED
    BY <1>2, <2>1, <2>2
<1>5. \A i \in (1..Len(d)) \ K : B[i] = <<>>
  <2> SUFFICES ASSUME NEW i \in (1..Len(d)) \ K
               PROVE  RequestBlock(d, p, i) = <<>>
    BY <1>2
  <2>1. CASE d[i].direction = "export" \/ d[i].name \notin DOMAIN p
    BY <2>1 DEF RequestBlock
  <2>2. CASE d[i].direction # "export" /\ d[i].name \in DOMAIN p
    <3>1. d[i].table /\ p[d[i].name] = <<>>
      BY <2>2
    <3>2. TableRequest(d, p, d[i]) = <<>>
      BY <2>2, <3>1, TableRequestIs
    <3> QED
      BY <2>2, <3>1, <3>2 DEF RequestBlock
  <2> QED
    BY <2>1, <2>2
<1>6. RequestRecords(d, p) = RequestHead(d) \o FlattenSeq(B)
  BY DEF RequestRecords
<1>7. ToSet(d) = FieldsAt(d, I)
  BY DescFields DEF FieldsAt
<1>8. I \in SUBSET (1..Len(d)) /\ K \in SUBSET I
  OBVIOUS
<1>9. NamesAt(d, K) =
        DOMAIN p \intersect
          {f.name : f \in {g \in FieldsAt(d, I) :
                             g.direction # "export"
                               /\ (g.table /\ g.name \in DOMAIN p => p[g.name] # <<>>)}}
  BY DEF NamesAt, FieldsAt
<1>10. RequestHead(d) \in Seq(TlvRecords) /\ Scan(RequestHead(d), <<>>) = Nothing
  BY RequestHeadType, IgnoredScanned
<1> HIDE DEF B, I, K
<1>11. Decoded(FieldsAt(d, I), Flushed(Scan(RequestHead(d) \o FlattenSeq(B), <<>>)), FALSE) =
         TakenAt(d, K, p)
  <2>1. AllCarried(B, d, I, K, p, FALSE, <<>>)
    BY <1>3, <1>4, <1>5, <1>8 DEF AllCarried
  <2>2. PICK counted : counted = FALSE
    OBVIOUS
  <2>3. PICK ids : ids = <<>>
    OBVIOUS
  <2>4. AllCarried(B, d, I, K, p, counted, ids)
    BY <2>1, <2>2, <2>3, Zenon
  <2>5. PICK head \in Seq(TlvRecords) : head = RequestHead(d)
    BY <1>10
  <2>6. Scan(head, ids) = Nothing
    BY <1>10, <2>3, <2>5
  <2>7. Decoded(FieldsAt(d, I), Flushed(Scan(head \o FlattenSeq(B), ids)), counted) =
          TakenAt(d, K, p)
    BY <2>4, <2>6, BlocksDecoded
  <2> QED
    BY <2>2, <2>3, <2>5, <2>7, Zenon
<1> QED
  BY <1>6, <1>7, <1>9, <1>11 DEF Only, TakenAt, Passed

-----------------------------------------------------------------------------
(* A call there and back                                                   *)

Returned(d, r) == Only(r, {f.name : f \in {g \in ToSet(d) : g.direction # "import"}})

Calling ==
  /\ phase = "called" => wire = Stream(BuildInvokeRequest(desc, params))
  /\ phase \notin {"calling", "called"} => got = Passed(desc, params)
  /\ phase = "done" => back = Returned(desc, result)

CallInv == ReadInv /\ Calling

LEMMA CallingIsRoundTrip ==
  ASSUME Calling
  PROVE  RoundTrip
BY Zenon DEF Calling, RoundTrip, Passed, Returned

(* The handler's side: one frame holds the request.                         *)
LEMMA RequestRead ==
  ASSUME NEW d \in Descs, NEW p \in ParamSets
  PROVE  Decoded(ToSet(d), Extract(Stream(BuildInvokeRequest(d, p)), <<>>), FALSE) = Passed(d, p)
<1>1. PICK front : front = RequestRecords(d, p)
  OBVIOUS
<1>2. front \in Seq(TlvRecords) /\ NoTerminator(front)
  BY <1>1, RequestType, PlainSequence
<1>3. Records(Stream(Terminated(front))) = front
  BY <1>2, RecordsReadBack
<1>4. Extract(Stream(BuildInvokeRequest(d, p)), <<>>) = Flushed(Scan(front, <<>>))
  BY <1>1, <1>3, RequestType, Zenon DEF Extract
<1> QED
  BY <1>1, <1>4, RequestDecoded, Zenon

(* The caller's side: whatever it has read of the reply decodes to it.      *)
LEMMA ReplyReadBack ==
  ASSUME Chosen, NEW t \in Seq(Nat), Begins(t, Reply), Len(Reply) - 1 <= Len(t)
  PROVE  Decoded({f \in ToSet(desc) : f.direction # "import"},
                 Extract(t, DmTableIds(desc, params)), TRUE) = Returned(desc, result)
<1>1. PICK ids : ids = DmTableIds(desc, params)
  OBVIOUS
<1>2. ids \in Seq(Nat) /\ desc \in Descs /\ result \in ResultSets
  BY <1>1, DescIs, IdsType DEF Chosen
<1>3. Records(t) = ReplyRecords(desc, result, ids, form)
  BY <1>1, ReplyRead DEF ReplyFront
<1>4. Extract(t, ids) = Flushed(Scan(ReplyRecords(desc, result, ids, form), ids))
  BY <1>3, Zenon DEF Extract
<1>5. Decoded({f \in ToSet(desc) : f.direction # "import"},
              Flushed(Scan(ReplyRecords(desc, result, ids, form), ids)), TRUE) =
        Only(result, {f.name : f \in {g \in ToSet(desc) : g.direction # "import"}})
  BY <1>2, ReplyDecoded, Zenon
<1> QED
  BY <1>1, <1>4, <1>5, Zenon DEF Returned

LEMMA CallInvNext ==
  ASSUME CallInv, [Next]_vars
  PROVE  CallInv'
<1>1. ReadInv'
  BY ReadInvNext DEF CallInv
<1>2. Chosen /\ Reading /\ Calling
  BY DEF CallInv, ReadInv
<1>3. Calling'
  <2>1. CASE Invoke
    <3>1. /\ phase' = "called" /\ desc' = desc /\ params' = params
          /\ wire' = Stream(BuildInvokeRequest(desc, params))
      BY <2>1 DEF Invoke
    <3> QED
      BY <3>1 DEF Calling
  <2>2. CASE Dispatch
    <3>1. /\ phase = "called" /\ phase' = "reading" /\ desc' = desc /\ params' = params
          /\ got' = Decoded(ToSet(desc), Extract(wire, <<>>), FALSE)
      BY <2>2 DEF Dispatch
    <3>2. wire = Stream(BuildInvokeRequest(desc, params))
      BY <1>2, <3>1 DEF Calling
    <3>3. got' = Passed(desc, params)
      BY <1>2, <3>1, <3>2, RequestRead DEF Chosen
    <3> QED
      BY <3>1, <3>3 DEF Calling
  <2>3. CASE ReadFrame
    <3>1. /\ phase = "reading" /\ phase' \in {"reading", "joined", "raised"}
          /\ desc' = desc /\ params' = params /\ got' = got
      BY <2>3 DEF ReadFrame
    <3> QED
      BY <1>2, <3>1 DEF Calling
  <2>4. CASE Parse
    <3>1. /\ phase = "joined" /\ desc' = desc /\ params' = params /\ result' = result
          /\ got' = got /\ phase' \in {"done", "raised"}
      BY <2>4 DEF Parse
    <3>2. got = Passed(desc, params)
      BY <1>2, <3>1 DEF Calling
    <3>3. phase' = "done" => back' = Decoded({f \in ToSet(desc) : f.direction # "import"},
                                             Extract(joined, DmTableIds(desc, params)), TRUE)
      BY <2>4 DEF Parse
    <3>4. /\ joined \in Seq(Nat) /\ wire \in Seq(Nat)
          /\ joined \o wire = Reply /\ Len(Reply) - 1 <= Len(joined)
      BY <1>2, <3>1 DEF Reading
    <3>5. Begins(joined, Reply)
      BY <3>4, ConcatBegins
    <3>6. Decoded({f \in ToSet(desc) : f.direction # "import"},
                  Extract(joined, DmTableIds(desc, params)), TRUE) = Returned(desc, result)
      BY <1>2, <3>4, <3>5, ReplyReadBack
    <3>7. phase' = "done" => back' = Returned(desc, result)
      BY <3>3, <3>6
    <3> QED
      BY <3>1, <3>2, <3>7 DEF Calling
  <2>5. CASE UNCHANGED vars
    BY <1>2, <2>5 DEF Calling, vars
  <2> QED
    BY <2>1, <2>2, <2>3, <2>4, <2>5 DEF Next
<1> QED
  BY <1>1, <1>3 DEF CallInv

(* A call is as good as a local one, for interfaces of any number of        *)
(* parameters and values of any length: the handler gets what the caller    *)
(* passed but for tables without rows, and the caller what the handler      *)
(* returned but for what it may not return.                                 *)
THEOREM SpecRoundTrip == Spec => []RoundTrip
<1>1. Init => CallInv
  <2> SUFFICES ASSUME Init PROVE CallInv
    OBVIOUS
  <2>1. ReadInv
    BY ReadInvInit
  <2>2. phase = "calling"
    BY DEF Init
  <2> QED
    BY <2>1, <2>2 DEF CallInv, Calling
<1>2. CallInv /\ [Next]_vars => CallInv'
  BY CallInvNext
<1>3. CallInv => RoundTrip
  BY CallingIsRoundTrip DEF CallInv
<1> QED
  BY <1>1, <1>2, <1>3, PTL DEF Spec
=============================================================================
