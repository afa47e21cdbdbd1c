-------------------------- MODULE EditorBufferProofs --------------------------
(* Proofs about EditorBuffer, for any file, any file systems and any number of *)
(* edits and saves: what the operations of the piece table read, and that the  *)
(* editor used calmly (CalmSpec) never shows, saves or loses another text than *)
(* the one that was typed.                                                     *)
EXTENDS EditorBuffer, SequenceTheorems, WellFoundedInduction, TLAPS

-----------------------------------------------------------------------------
(***************************************************************************)
(* Induction, and the sizes of pieces                                      *)
(***************************************************************************)
\* A set of naturals has a least member.
LEMMA Least ==
  ASSUME NEW T \in SUBSET Nat, T # {}
  PROVE  \E x \in T : \A y \in T : x <= y
<1> DEFINE R == OpToRel(<, Nat)
<1>1. IsWellFoundedOn(R, Nat)
  BY NatLessThanWellFounded
<1>2. \A x, y \in Nat : x < y => <<x, y>> \in R
  BY DEF OpToRel
<1> HIDE DEF R
<1>3. PICK x \in T : \A y \in T : ~ (<<y, x>> \in R)
  BY <1>1, WFMin
<1>4. ASSUME NEW y \in T PROVE x <= y
  <2>1. x \in Nat /\ y \in Nat
    OBVIOUS
  <2>2. ~ (y < x)
    BY <1>2, <1>3, <2>1
  <2> QED BY <2>1, <2>2
<1> QED BY <1>4

\* Induction up to a bound.
LEMMA Climb ==
  ASSUME NEW n \in Nat, NEW S, 0 \in S, \A i \in 0..(n - 1) : i \in S => i + 1 \in S
  PROVE  0..n \subseteq S
<1> DEFINE T == {i \in 0..n : i \notin S}
<1>1. SUFFICES ASSUME T # {} PROVE FALSE
  OBVIOUS
<1>2. PICK x \in T : \A y \in T : x <= y
  <2>1. T \in SUBSET Nat
    OBVIOUS
  <2> HIDE DEF T
  <2> QED BY <1>1, <2>1, Least
<1>3. x \in 0..n /\ x # 0
  BY <1>2
<1>4. x - 1 \in 0..(n - 1) /\ x - 1 \in S
  BY <1>2, <1>3
<1>5. x - 1 + 1 = x
  BY <1>3
<1> QED BY <1>2, <1>4, <1>5

APiece == [buf: {"orig", "add"}, start: Nat, len: Nat \ {0}]

\* Size is a recursive function: it exists, and it is the only one.
LEMMA Sums ==
  ASSUME NEW ps \in Seq(APiece)
  PROVE  \E S \in [0..Len(ps) -> Nat] :
           /\ S[0] = 0 /\ \A i \in 1..Len(ps) : S[i] = S[i - 1] + ps[i].len
<1> DEFINE L == Len(ps)
           Good == {n \in Nat : n <= L => \E g \in [0..n -> Nat] :
                      /\ g[0] = 0 /\ \A i \in 1..n : g[i] = g[i - 1] + ps[i].len}
<1>1. 0 \in Good
  <2> DEFINE g == [i \in 0..0 |-> 0]
  <2>1. g \in [0..0 -> Nat] /\ g[0] = 0 /\ \A i \in 1..0 : g[i] = g[i - 1] + ps[i].len
    OBVIOUS
  <2> HIDE DEF g
  <2>2. \E k \in [0..0 -> Nat] : k[0] = 0 /\ \A i \in 1..0 : k[i] = k[i - 1] + ps[i].len
    BY <2>1
  <2> QED BY <2>2
<1>2. ASSUME NEW n \in 0..(L - 1), n \in Good PROVE n + 1 \in Good
  <2>0. n \in Nat /\ n <= L /\ n + 1 \in 1..L /\ ps[n + 1] \in APiece
    BY ElementOfSeq
  <2>1. PICK g \in [0..n -> Nat] : /\ g[0] = 0 /\ \A i \in 1..n : g[i] = g[i - 1] + ps[i].len
    BY <1>2, <2>0, Zenon
  <2>7. ps[n + 1].len \in Nat
    BY <2>0 DEF APiece
  <2> DEFINE h == [i \in 0..(n + 1) |-> IF i = n + 1 THEN g[n] + ps[n + 1].len ELSE g[i]]
  <2>2. h \in [0..(n + 1) -> Nat]
    BY <2>0, <2>7
  <2>3. h[0] = 0
    BY <2>0, <2>1
  <2>4. ASSUME NEW i \in 1..(n + 1) PROVE h[i] = h[i - 1] + ps[i].len
    <3>1. CASE i = n + 1
      <4>1. h[i] = g[n] + ps[n + 1].len /\ h[i - 1] = g[n]
        BY <3>1, <2>0
      <4> QED BY <3>1, <4>1
    <3>2. CASE i # n + 1
      <4>1. i \in 1..n /\ i - 1 \in 0..n /\ i # n + 1 /\ i - 1 # n + 1
        BY <3>2, <2>0
      <4>2. h[i] = g[i] /\ h[i - 1] = g[i - 1]
        BY <4>1
      <4> QED BY <4>1, <4>2, <2>1
    <3> QED BY <3>1, <3>2
  <2> HIDE DEF h
  <2>5. \E k \in [0..(n + 1) -> Nat] : k[0] = 0 /\ \A i \in 1..(n + 1) : k[i] = k[i - 1] + ps[i].len
    BY <2>2, <2>3, <2>4
  <2>6. n + 1 \in Nat
    BY <2>0
  <2> QED BY <2>5, <2>6, Zenon
<1>3. L \in Nat
  OBVIOUS
<1> HIDE DEF Good
<1>4. 0..L \subseteq Good
  BY <1>1, <1>2, <1>3, Climb
<1>5. L \in Good
  BY <1>3, <1>4
<1> QED BY <1>5 DEF Good

LEMMA SizeIs ==
  ASSUME NEW ps \in Seq(APiece), NEW j \in 0..Len(ps),
         NEW S \in [0..Len(ps) -> Nat],
         S[0] = 0, \A i \in 1..Len(ps) : S[i] = S[i - 1] + ps[i].len
  PROVE  Size(ps, j) = S[j]
<1> DEFINE sum == CHOOSE g : g = [i \in 0..j |-> IF i = 0 THEN 0 ELSE g[i - 1] + ps[i].len]
           T == [i \in 0..j |-> S[i]]
<1>1. Size(ps, j) = sum[j]
  BY DEF Size
<1>2. T = [i \in 0..j |-> IF i = 0 THEN 0 ELSE T[i - 1] + ps[i].len]
  <2>1. ASSUME NEW i \in 0..j PROVE T[i] = IF i = 0 THEN 0 ELSE T[i - 1] + ps[i].len
    OBVIOUS
  <2> QED BY <2>1
<1> HIDE DEF T
<1>3. sum = [i \in 0..j |-> IF i = 0 THEN 0 ELSE sum[i - 1] + ps[i].len]
  BY <1>2
<1> HIDE DEF sum
<1>4. 0..j \subseteq {i \in 0..j : sum[i] = S[i]}
  <2> DEFINE G == {i \in 0..j : sum[i] = S[i]}
  <2>1. 0 \in G
    BY <1>3
  <2>2. ASSUME NEW i \in 0..(j - 1), i \in G PROVE i + 1 \in G
    BY <1>3, <2>2
  <2>0. j \in Nat
    OBVIOUS
  <2> HIDE DEF G
  <2>3. 0..j \subseteq G
    BY <2>0, <2>1, <2>2, Climb
  <2> QED BY <2>3 DEF G
<1> QED BY <1>1, <1>4

\* Induction over sequences that grow at their end.
LEMMA Growth ==
  ASSUME NEW S, NEW G, << >> \in G, \A s \in Seq(S), e \in S : s \in G => Append(s, e) \in G
  PROVE  Seq(S) \subseteq G
<1> SUFFICES ASSUME NEW s \in Seq(S) PROVE s \in G
  OBVIOUS
<1> DEFINE T == {n \in 0..Len(s) : SubSeq(s, 1, n) \in G}
<1>0. Len(s) \in Nat
  OBVIOUS
<1>1. 0 \in T
  <2>1. SubSeq(s, 1, 0) = << >>
    <3>1. SubSeq(s, 1, 0) \in Seq(S) /\ Len(SubSeq(s, 1, 0)) = 0
      BY <1>0
    <3> QED BY <3>1, EmptySeq
  <2>2. 0 \in 0..Len(s)
    BY <1>0
  <2>3. SubSeq(s, 1, 0) \in G
    BY <2>1, Zenon
  <2> QED BY <2>2, <2>3, Zenon
<1>2. ASSUME NEW n \in 0..(Len(s) - 1), n \in T PROVE n + 1 \in T
  <2>1. n + 1 \in 1..Len(s) /\ s[n + 1] \in S /\ n \in 0..Len(s)
    BY <1>0, ElementOfSeq
  <2>2. SubSeq(s, 1, n) \in Seq(S)
    BY <2>1, <1>0
  <2>3. SubSeq(s, 1, n + 1) = Append(SubSeq(s, 1, n), s[n + 1])
    BY <2>1, <2>2, <1>0, SubSeqRecursiveSecond, AppendIsConcat
  <2>4. SubSeq(s, 1, n) \in G
    BY <1>2
  <2>5. SubSeq(s, 1, n + 1) \in G
    BY <2>1, <2>2, <2>3, <2>4
  <2> QED BY <2>1, <2>5
<1> HIDE DEF T
<1>3. 0..Len(s) \subseteq T
  BY <1>0, <1>1, <1>2, Climb
<1>4. Len(s) \in T
  BY <1>0, <1>3
<1>5. SubSeq(s, 1, Len(s)) = s
  BY SubSeqFull
<1> QED BY <1>4, <1>5 DEF T

\* What a list of pieces holds in all.
Total(ps) == Size(ps, Len(ps))

LEMMA NoSize == Total(<< >>) = 0
<1> DEFINE e == << >>
<1>1. e \in Seq(APiece) /\ Len(e) = 0
  OBVIOUS
<1> HIDE DEF e
<1>2. PICK S \in [0..Len(e) -> Nat] : S[0] = 0 /\ \A i \in 1..Len(e) : S[i] = S[i - 1] + e[i].len
  BY <1>1, Sums
<1>3. Size(e, 0) = S[0]
  BY <1>1, <1>2, SizeIs
<1>4. Total(e) = 0
  BY <1>1, <1>2, <1>3 DEF Total
<1> QED BY <1>4 DEF e

LEMMA SizeNat ==
  ASSUME NEW ps \in Seq(APiece), NEW j \in 0..Len(ps)
  PROVE  /\ Size(ps, j) \in Nat /\ Size(ps, 0) = 0
         /\ j # 0 => Size(ps, j) = Size(ps, j - 1) + ps[j].len /\ Size(ps, j - 1) \in Nat
<1>1. PICK S \in [0..Len(ps) -> Nat] : S[0] = 0 /\ \A i \in 1..Len(ps) : S[i] = S[i - 1] + ps[i].len
  BY Sums
<1>0. Len(ps) \in Nat
  OBVIOUS
<1>2. \A i \in 0..Len(ps) : Size(ps, i) = S[i]
  BY <1>1, SizeIs
<1>3. 0 \in 0..Len(ps) /\ (j # 0 => j - 1 \in 0..Len(ps) /\ j \in 1..Len(ps))
  BY <1>0
<1> QED BY <1>1, <1>2, <1>3

\* The pieces' sizes add up.
LEMMA SizeStep ==
  ASSUME NEW ps \in Seq(APiece), NEW j \in 1..Len(ps)
  PROVE  /\ Size(ps, j) = Size(ps, j - 1) + ps[j].len
         /\ Size(ps, j - 1) \in Nat /\ ps[j] \in APiece /\ ps[j].len \in Nat \ {0}
<1>1. j \in 0..Len(ps) /\ j # 0
  OBVIOUS
<1>2. ps[j] \in APiece
  BY ElementOfSeq
<1>3. ps[j].len \in Nat \ {0}
  BY <1>2 DEF APiece
<1> QED BY <1>1, <1>2, <1>3, SizeNat

\* The size of what stands before a place of the list is that of its prefix.
LEMMA SizeOfPrefix ==
  ASSUME NEW ps \in Seq(APiece), NEW qs \in Seq(APiece), NEW j \in 0..Len(ps), j <= Len(qs),
         \A i \in 1..j : ps[i] = qs[i]
  PROVE  Size(ps, j) = Size(qs, j)
<1> DEFINE T == {i \in 0..j : Size(ps, i) = Size(qs, i)}
<1>0. j \in Nat /\ Len(ps) \in Nat /\ Len(qs) \in Nat
  OBVIOUS
<1>1. 0 \in T
  BY <1>0, SizeNat
<1>2. ASSUME NEW i \in 0..(j - 1), i \in T PROVE i + 1 \in T
  <2>1. i + 1 \in 1..Len(ps) /\ i + 1 \in 1..Len(qs) /\ i + 1 - 1 = i /\ i + 1 \in 1..j
    BY <1>0
  <2>2. Size(ps, i + 1) = Size(ps, i) + ps[i + 1].len /\ Size(qs, i + 1) = Size(qs, i) + qs[i + 1].len
    <3>1. Size(ps, i + 1) = Size(ps, i + 1 - 1) + ps[i + 1].len
      BY <2>1, SizeStep, SMTT(40)
    <3>2. Size(qs, i + 1) = Size(qs, i + 1 - 1) + qs[i + 1].len
      BY <2>1, SizeStep
    <3> QED BY <2>1, <3>1, <3>2
  <2>3. Size(ps, i) = Size(qs, i)
    BY <1>2
  <2> QED BY <2>1, <2>2, <2>3
<1> HIDE DEF T
<1>3. 0..j \subseteq T
  BY <1>0, <1>1, <1>2, Climb
<1>4. j \in T
  BY <1>0, <1>3
<1> QED BY <1>4 DEF T

LEMMA SizeGrows ==
  ASSUME NEW ps \in Seq(APiece), NEW p \in APiece
  PROVE  Total(Append(ps, p)) = Total(ps) + p.len /\ Total(ps) \in Nat
<1> DEFINE qs == Append(ps, p)
<1>1. qs \in Seq(APiece) /\ Len(qs) = Len(ps) + 1 /\ Len(ps) \in Nat /\ qs[Len(ps) + 1] = p
      /\ \A i \in 1..Len(ps) : ps[i] = qs[i]
  OBVIOUS
<1> HIDE DEF qs
<1>2. Size(qs, Len(ps)) = Size(ps, Len(ps))
  BY <1>1, SizeOfPrefix
<1>3. Size(qs, Len(ps) + 1) = Size(qs, Len(ps) + 1 - 1) + qs[Len(ps) + 1].len
  BY <1>1, SizeStep
<1>4. Len(ps) + 1 - 1 = Len(ps)
  BY <1>1
<1>5. Size(ps, Len(ps)) \in Nat
  BY <1>1, SizeNat
<1> QED BY <1>1, <1>2, <1>3, <1>4, <1>5 DEF Total, qs

-----------------------------------------------------------------------------
(***************************************************************************)
(* What a list of pieces reads                                             *)
(***************************************************************************)
\* A piece lies in its buffer; a list of pieces does, or its added ones do.
Within(p, b) == p.start + p.len <= Len(b)
InRange(ps, o, a) ==
  \A i \in DOMAIN ps : Within(ps[i], IF ps[i].buf = "add" THEN a ELSE o)
Bounded(ps, a) == \A i \in DOMAIN ps : ps[i].buf = "add" => Within(ps[i], a)

LEMMA Slice ==
  ASSUME NEW s \in Seq(Nat), NEW m \in Nat, NEW n \in Nat, m + n <= Len(s)
  PROVE  /\ SubSeq(s, m + 1, m + n) \in Seq(Nat) /\ Len(SubSeq(s, m + 1, m + n)) = n
         /\ \A k \in 1..n : SubSeq(s, m + 1, m + n)[k] = s[m + k] /\ m + k \in 1..Len(s)
OBVIOUS

\* A piece within its buffer reads the buffer's bytes.
LEMMA PieceReads ==
  ASSUME NEW p \in APiece, NEW o \in Seq(Nat), NEW a \in Seq(Nat),
         Within(p, IF p.buf = "add" THEN a ELSE o)
  PROVE  /\ ReadPiece(p, o, a) \in Seq(Nat) /\ Len(ReadPiece(p, o, a)) = p.len
         /\ \A k \in 1..p.len :
              /\ ReadPiece(p, o, a)[k] = (IF p.buf = "add" THEN a ELSE o)[p.start + k]
              /\ p.start + k \in 1..Len(IF p.buf = "add" THEN a ELSE o)
<1>1. p.start \in Nat /\ p.len \in Nat
  BY DEF APiece
<1> DEFINE b == IF p.buf = "add" THEN a ELSE o
<1>2. b \in Seq(Nat) /\ p.start + p.len <= Len(b)
  BY DEF Within
<1>3. ReadPiece(p, o, a) = SubSeq(b, p.start + 1, p.start + p.len)
  BY <1>2 DEF ReadPiece
<1> HIDE DEF b
<1>4. /\ ReadPiece(p, o, a) \in Seq(Nat) /\ Len(ReadPiece(p, o, a)) = p.len
      /\ \A k \in 1..p.len : ReadPiece(p, o, a)[k] = b[p.start + k] /\ p.start + k \in 1..Len(b)
  <2> DEFINE r == SubSeq(b, p.start + 1, p.start + p.len)
  <2>1. /\ r \in Seq(Nat) /\ Len(r) = p.len
        /\ \A k \in 1..p.len : r[k] = b[p.start + k] /\ p.start + k \in 1..Len(b)
    BY <1>1, <1>2, Slice
  <2>2. ReadPiece(p, o, a) = r
    BY <1>3
  <2> HIDE DEF r
  <2> QED BY <2>1, <2>2
<1> QED BY <1>4 DEF b

\* Beyond the end of the original there is nothing.
LEMMA PieceIsBytes ==
  ASSUME NEW p \in APiece, NEW o \in Seq(Nat), NEW a \in Seq(Nat),
         p.buf = "add" => Within(p, a)
  PROVE  ReadPiece(p, o, a) \in Seq(Nat)
<1>1. p.start \in Nat /\ p.len \in Nat
  BY DEF APiece
<1>2. CASE p.buf = "add"
  BY <1>2, PieceReads
<1>3. CASE p.buf # "add"
  <2> DEFINE e == IF p.start + p.len <= Len(o) THEN p.start + p.len ELSE Len(o)
  <2>1. e \in Nat /\ e <= Len(o)
    BY <1>1
  <2>2. ReadPiece(p, o, a) = SubSeq(o, p.start + 1, e)
    BY <1>3 DEF ReadPiece
  <2> HIDE DEF e
  <2> QED BY <1>1, <2>1, <2>2, SMTT(40)
<1> QED BY <1>2, <1>3

\* The texts of the beginnings of a list.
LEMMA Texts ==
  ASSUME NEW ps \in Seq(APiece), NEW o \in Seq(Nat), NEW a \in Seq(Nat), Bounded(ps, a)
  PROVE  \E X \in [0..Len(ps) -> Seq(Nat)] :
           /\ X[0] = << >> /\ \A i \in 1..Len(ps) : X[i] = X[i - 1] \o ReadPiece(ps[i], o, a)
<1> DEFINE L == Len(ps)
           B == Seq(Nat)
           R(i) == ReadPiece(ps[i], o, a)
           Good == {n \in Nat : n <= L => \E g \in [0..n -> B] :
                      /\ g[0] = << >> /\ \A i \in 1..n : g[i] = g[i - 1] \o R(i)}
<1>0. \A s, t \in B : s \o t \in B
  OBVIOUS
<1>e. << >> \in B
  OBVIOUS
<1>r. \A i \in 1..L : R(i) \in B
  <2> SUFFICES ASSUME NEW i \in 1..L PROVE R(i) \in B
    OBVIOUS
  <2>1. ps[i] \in APiece
    BY ElementOfSeq
  <2>2. ps[i].buf = "add" => Within(ps[i], a)
    BY DEF Bounded
  <2> QED BY <2>1, <2>2, PieceIsBytes
<1> HIDE DEF B, R
<1>1. 0 \in Good
  <2> DEFINE g == [i \in 0..0 |-> << >>]
  <2>1. g \in [0..0 -> B] /\ g[0] = << >> /\ \A i \in 1..0 : g[i] = g[i - 1] \o R(i)
    BY <1>e
  <2> HIDE DEF g
  <2>2. \E k \in [0..0 -> B] : k[0] = << >> /\ \A i \in 1..0 : k[i] = k[i - 1] \o R(i)
    BY <2>1
  <2> QED BY <2>2
<1>2. ASSUME NEW n \in 0..(L - 1), n \in Good PROVE n + 1 \in Good
  <2>0. n \in Nat /\ n <= L /\ n + 1 \in 1..L
    OBVIOUS
  <2>1. PICK g \in [0..n -> B] : /\ g[0] = << >> /\ \A i \in 1..n : g[i] = g[i - 1] \o R(i)
    BY <1>2, <2>0, Zenon
  <2>7. R(n + 1) \in B
    BY <2>0, <1>r
  <2>8. g[n] \o R(n + 1) \in B
    BY <2>0, <2>1, <2>7, <1>0
  <2> DEFINE h == [i \in 0..(n + 1) |-> IF i = n + 1 THEN g[n] \o R(n + 1) ELSE g[i]]
  <2>2. h \in [0..(n + 1) -> B]
    BY <2>0, <2>8
  <2>3. h[0] = << >>
    BY <2>0, <2>1
  <2>4. ASSUME NEW i \in 1..(n + 1) PROVE h[i] = h[i - 1] \o R(i)
    <3>1. CASE i = n + 1
      <4>1. h[i] = g[n] \o R(n + 1) /\ h[i - 1] = g[n]
        BY <3>1, <2>0
      <4> QED BY <3>1, <4>1
    <3>2. CASE i # n + 1
      <4>1. i \in 1..n /\ i - 1 \in 0..n /\ i # n + 1 /\ i - 1 # n + 1
        BY <3>2, <2>0
      <4>2. h[i] = g[i] /\ h[i - 1] = g[i - 1]
        BY <4>1
      <4> QED BY <4>1, <4>2, <2>1
    <3> QED BY <3>1, <3>2
  <2> HIDE DEF h
  <2>5. \E k \in [0..(n + 1) -> B] : k[0] = << >> /\ \A i \in 1..(n + 1) : k[i] = k[i - 1] \o R(i)
    BY <2>2, <2>3, <2>4
  <2>6. n + 1 \in Nat
    BY <2>0
  <2> QED BY <2>5, <2>6, Zenon
<1>3. L \in Nat
  OBVIOUS
<1> HIDE DEF Good
<1>4. 0..L \subseteq Good
  BY <1>1, <1>2, <1>3, Climb
<1>5. L \in Good
  BY <1>3, <1>4
<1>6. L <= L
  BY <1>3
<1>7. \E g \in [0..L -> B] : g[0] = << >> /\ \A i \in 1..L : g[i] = g[i - 1] \o R(i)
  BY <1>5, <1>6, Zenon DEF Good
<1> QED BY <1>7, Zenon DEF B, R

\* TextOf is the only such function.
LEMMA TextIs ==
  ASSUME NEW ps \in Seq(APiece), NEW o, NEW a,
         NEW X \in [0..Len(ps) -> Seq(Nat)],
         X[0] = << >>, \A i \in 1..Len(ps) : X[i] = X[i - 1] \o ReadPiece(ps[i], o, a)
  PROVE  TextOf(ps, o, a) = X[Len(ps)]
<1> DEFINE L == Len(ps)
           R(i) == ReadPiece(ps[i], o, a)
           text == CHOOSE g : g = [i \in 0..L |-> IF i = 0 THEN << >> ELSE g[i - 1] \o R(i)]
<1>0. L \in Nat
  OBVIOUS
<1>1. TextOf(ps, o, a) = text[L]
  BY DEF TextOf
<1>x. X \in [0..L -> Seq(Nat)] /\ X[0] = << >> /\ \A i \in 1..L : X[i] = X[i - 1] \o R(i)
  OBVIOUS
<1> HIDE DEF R
<1>2. X = [i \in 0..L |-> IF i = 0 THEN << >> ELSE X[i - 1] \o R(i)]
  <2>1. ASSUME NEW i \in 0..L PROVE X[i] = IF i = 0 THEN << >> ELSE X[i - 1] \o R(i)
    BY <1>0, <1>x, SMTT(40)
  <2> QED BY <2>1, <1>x
<1>3. text = [i \in 0..L |-> IF i = 0 THEN << >> ELSE text[i - 1] \o R(i)]
  BY <1>2
<1> HIDE DEF text
<1>4. 0..L \subseteq {i \in 0..L : text[i] = X[i]}
  <2> DEFINE G == {i \in 0..L : text[i] = X[i]}
  <2>1. 0 \in G
    BY <1>0, <1>3, <1>x
  <2>2. ASSUME NEW i \in 0..(L - 1), i \in G PROVE i + 1 \in G
    <3>1. i + 1 \in 1..L /\ i + 1 \in 0..L /\ i + 1 # 0 /\ i + 1 - 1 = i
      BY <1>0
    <3>2. \A k \in 0..L : k # 0 => text[k] = text[k - 1] \o R(k)
      BY <1>3
    <3>6. \A k \in 1..L : X[k] = X[k - 1] \o R(k)
      BY <1>x
    <3>7. i + 1 \in 1..L /\ i + 1 \in 0..L /\ i + 1 # 0
      BY <3>1
    <3> DEFINE m == i + 1
    <3> HIDE DEF m, L
    <3>8. m \in 1..L /\ m \in 0..L /\ m # 0
      BY <3>7 DEF m
    <3>9. text[m] = text[m - 1] \o R(m) /\ X[m] = X[m - 1] \o R(m)
      BY <3>8, <3>2, <3>6, Zenon
    <3>3. m - 1 = i
      BY <3>1 DEF m
    <3>4. text[i] = X[i]
      BY <2>2
    <3>5. text[m] = X[m]
      BY <3>3, <3>4, <3>9, Zenon
    <3> QED BY <3>5, <3>8 DEF m
  <2> HIDE DEF G, L
  <2>3. 0..L \subseteq G
    BY <1>0, <2>1, <2>2, Climb
  <2> QED BY <2>3 DEF G
<1> QED BY <1>0, <1>1, <1>4

\* Concatenation is associative; the empty list reads as no text.
LEMMA Regroup ==
  ASSUME NEW u \in Seq(Nat), NEW v \in Seq(Nat), NEW w \in Seq(Nat)
  PROVE  (u \o v) \o w = u \o (v \o w)
BY ConcatAssociative, SMTT(40)

LEMMA EmptyText ==
  ASSUME NEW o \in Seq(Nat), NEW a \in Seq(Nat)
  PROVE  TextOf(<< >>, o, a) = << >>
<1> DEFINE e == << >>
<1>1. e \in Seq(APiece) /\ Len(e) = 0 /\ Bounded(e, a)
  BY DEF Bounded
<1> HIDE DEF e
<1>2. PICK X \in [0..Len(e) -> Seq(Nat)] :
        X[0] = << >> /\ \A i \in 1..Len(e) : X[i] = X[i - 1] \o ReadPiece(e[i], o, a)
  BY <1>1, Texts
<1>3. TextOf(e, o, a) = X[Len(e)]
  BY <1>1, <1>2, TextIs
<1>4. TextOf(e, o, a) = << >>
  BY <1>1, <1>2, <1>3
<1> QED BY <1>4 DEF e

\* The text grows with the list, by what the last piece reads.
LEMMA TextGrows ==
  ASSUME NEW ps \in Seq(APiece), NEW p \in APiece, NEW o \in Seq(Nat), NEW a \in Seq(Nat),
         Bounded(ps, a), p.buf = "add" => Within(p, a)
  PROVE  /\ TextOf(Append(ps, p), o, a) = TextOf(ps, o, a) \o ReadPiece(p, o, a)
         /\ TextOf(ps, o, a) \in Seq(Nat) /\ ReadPiece(p, o, a) \in Seq(Nat)
<1> DEFINE qs == Append(ps, p)
           L == Len(ps)
           R(i) == ReadPiece(qs[i], o, a)
<1>1. /\ qs \in Seq(APiece) /\ Len(qs) = L + 1 /\ L \in Nat /\ qs[L + 1] = p
      /\ \A i \in 1..L : ps[i] = qs[i]
  OBVIOUS
<1>2. Bounded(qs, a)
  <2> SUFFICES ASSUME NEW i \in 1..(L + 1), qs[i].buf = "add" PROVE Within(qs[i], a)
    BY <1>1 DEF Bounded
  <2>1. CASE i = L + 1
    BY <2>1, <1>1
  <2>2. CASE i # L + 1
    <3>1. i \in 1..L
      BY <2>2, <1>1
    <3> QED BY <3>1, <1>1 DEF Bounded
  <2> QED BY <2>1, <2>2
<1> HIDE DEF qs
<1>3. PICK X \in [0..Len(qs) -> Seq(Nat)] : X[0] = << >> /\ \A i \in 1..Len(qs) : X[i] = X[i - 1] \o ReadPiece(qs[i], o, a)
  BY <1>1, <1>2, Texts
<1>4. TextOf(qs, o, a) = X[Len(qs)]
  BY <1>1, <1>3, TextIs
<1> DEFINE Y == [i \in 0..L |-> X[i]]
<1>5. Y \in [0..L -> Seq(Nat)] /\ Y[0] = << >> /\ Y[L] = X[L]
  BY <1>1, <1>3
<1>6. ASSUME NEW i \in 1..L PROVE Y[i] = Y[i - 1] \o ReadPiece(ps[i], o, a)
  <2>1. i \in 1..Len(qs) /\ i \in 0..L /\ i - 1 \in 0..L
    BY <1>1
  <2>2. Y[i] = X[i] /\ Y[i - 1] = X[i - 1]
    BY <2>1
  <2>3. X[i] = X[i - 1] \o ReadPiece(qs[i], o, a)
    BY <2>1, <1>3
  <2> QED BY <2>2, <2>3, <1>1
<1> HIDE DEF Y
<1>7. TextOf(ps, o, a) = Y[L]
  BY <1>5, <1>6, TextIs
<1>8. X[L + 1] = X[L] \o ReadPiece(p, o, a)
  <2>1. L + 1 \in 1..Len(qs) /\ L + 1 - 1 = L
    BY <1>1
  <2> DEFINE m == L + 1
  <2> HIDE DEF m
  <2>2. m \in 1..Len(qs) /\ m - 1 = L /\ qs[m] = p
    BY <2>1, <1>1 DEF m
  <2>3. X[m] = X[m - 1] \o ReadPiece(qs[m], o, a)
    BY <2>2, <1>3, Zenon
  <2> QED BY <2>2, <2>3 DEF m
<1>9. X[L] \in Seq(Nat)
  BY <1>1, <1>3
<1> QED BY <1>1, <1>4, <1>5, <1>7, <1>8, <1>9, PieceIsBytes DEF qs

LEMMA TextIsBytes ==
  ASSUME NEW ps \in Seq(APiece), NEW o \in Seq(Nat), NEW a \in Seq(Nat), Bounded(ps, a)
  PROVE  TextOf(ps, o, a) \in Seq(Nat)
<1>1. PICK X \in [0..Len(ps) -> Seq(Nat)] :
        X[0] = << >> /\ \A i \in 1..Len(ps) : X[i] = X[i - 1] \o ReadPiece(ps[i], o, a)
  BY Texts
<1>2. TextOf(ps, o, a) = X[Len(ps)]
  BY <1>1, TextIs
<1> QED BY <1>1, <1>2

\* Two lists in a row are in range when each is.
LEMMA BoundedParts ==
  ASSUME NEW ps \in Seq(APiece), NEW qs \in Seq(APiece), NEW o, NEW a
  PROVE  /\ Bounded(ps \o qs, a) <=> Bounded(ps, a) /\ Bounded(qs, a)
         /\ InRange(ps \o qs, o, a) <=> InRange(ps, o, a) /\ InRange(qs, o, a)
<1> DEFINE rs == ps \o qs
<1>1. /\ Len(rs) = Len(ps) + Len(qs) /\ Len(ps) \in Nat /\ Len(qs) \in Nat
      /\ DOMAIN rs = 1..Len(rs) /\ DOMAIN ps = 1..Len(ps) /\ DOMAIN qs = 1..Len(qs)
      /\ \A i \in 1..Len(ps) : rs[i] = ps[i]
      /\ \A i \in 1..Len(qs) : rs[Len(ps) + i] = qs[i]
  OBVIOUS
<1> HIDE DEF rs
<1>2. ASSUME NEW i \in DOMAIN rs
      PROVE  \/ i \in DOMAIN ps /\ rs[i] = ps[i]
             \/ \E j \in DOMAIN qs : rs[i] = qs[j]
  <2>1. CASE i <= Len(ps)
    BY <2>1, <1>1
  <2>2. CASE i > Len(ps)
    <3>1. i - Len(ps) \in 1..Len(qs) /\ Len(ps) + (i - Len(ps)) = i
      BY <2>2, <1>1
    <3> QED BY <3>1, <1>1
  <2> QED BY <2>1, <2>2, <1>1
<1>3. ASSUME NEW i \in DOMAIN ps PROVE i \in DOMAIN rs /\ rs[i] = ps[i]
  BY <1>1
<1>4. ASSUME NEW i \in DOMAIN qs PROVE Len(ps) + i \in DOMAIN rs /\ rs[Len(ps) + i] = qs[i]
  BY <1>1
<1>5. Bounded(rs, a) <=> Bounded(ps, a) /\ Bounded(qs, a)
  BY <1>2, <1>3, <1>4 DEF Bounded
<1>6. InRange(rs, o, a) <=> InRange(ps, o, a) /\ InRange(qs, o, a)
  BY <1>2, <1>3, <1>4 DEF InRange
<1> QED BY <1>5, <1>6 DEF rs

\* The text of two lists in a row.
LEMMA TextJoins ==
  ASSUME NEW ps \in Seq(APiece), NEW qs \in Seq(APiece), NEW o \in Seq(Nat), NEW a \in Seq(Nat),
         Bounded(ps, a), Bounded(qs, a)
  PROVE  TextOf(ps \o qs, o, a) = TextOf(ps, o, a) \o TextOf(qs, o, a)
<1> DEFINE T(s) == TextOf(s, o, a)
           G == {s \in Seq(APiece) : Bounded(s, a) => T(ps \o s) = T(ps) \o T(s)}
<1>0. T(ps) \in Seq(Nat)
  BY TextIsBytes
<1>1. << >> \in G
  <2>1. T(<< >>) = << >>
    BY EmptyText
  <2> HIDE DEF T
  <2>2. ps \o << >> = ps /\ T(ps) \o << >> = T(ps) /\ << >> \in Seq(APiece)
    BY <1>0, ConcatEmptySeq
  <2> QED BY <2>1, <2>2
<1>2. ASSUME NEW s \in Seq(APiece), NEW e \in APiece, s \in G PROVE Append(s, e) \in G
  <2>1. Append(s, e) \in Seq(APiece) /\ Append(s, e) = s \o <<e>> /\ <<e>> \in Seq(APiece)
    OBVIOUS
  <2> SUFFICES ASSUME Bounded(Append(s, e), a) PROVE T(ps \o Append(s, e)) = T(ps) \o T(Append(s, e))
    BY <2>1
  <2>2. Bounded(s, a) /\ Bounded(<<e>>, a)
    <3>1. Bounded(s \o <<e>>, a)
      BY <2>1
    <3> QED BY <2>1, <3>1, BoundedParts
  <2>3. e.buf = "add" => Within(e, a)
    <3>1. 1 \in DOMAIN <<e>> /\ <<e>>[1] = e
      OBVIOUS
    <3> QED BY <2>2, <3>1 DEF Bounded
  <2>4. ps \o s \in Seq(APiece) /\ ps \o Append(s, e) = Append(ps \o s, e)
    <3>1. ps \o s \in Seq(APiece)
      OBVIOUS
    <3>2. ps \o (s \o <<e>>) = (ps \o s) \o <<e>>
      BY <2>1, ConcatAssociative
    <3> QED BY <3>1, <3>2, <2>1, AppendIsConcat
  <2>5. Bounded(ps \o s, a)
    BY <2>2, BoundedParts
  <2>6. T(Append(ps \o s, e)) = T(ps \o s) \o ReadPiece(e, o, a) /\ ReadPiece(e, o, a) \in Seq(Nat)
    BY <2>3, <2>4, <2>5, TextGrows
  <2>7. T(Append(s, e)) = T(s) \o ReadPiece(e, o, a) /\ T(s) \in Seq(Nat)
    BY <2>2, <2>3, TextGrows
  <2>8. T(ps \o s) = T(ps) \o T(s)
    BY <1>2, <2>2
  <2>9. (T(ps) \o T(s)) \o ReadPiece(e, o, a) = T(ps) \o (T(s) \o ReadPiece(e, o, a))
    <3>1. T(ps) \in Seq(Nat) /\ T(s) \in Seq(Nat) /\ ReadPiece(e, o, a) \in Seq(Nat)
      BY <1>0, <2>6, <2>7
    <3> HIDE DEF T
    <3> QED BY <3>1, Regroup, ZenonT(40)
  <2> QED BY <2>4, <2>6, <2>7, <2>8, <2>9
<1> HIDE DEF G
<1>3. Seq(APiece) \subseteq G
  BY <1>1, <1>2, Growth
<1> QED BY <1>3 DEF G

\* The size of two lists in a row.
LEMMA SizeJoins ==
  ASSUME NEW ps \in Seq(APiece), NEW qs \in Seq(APiece)
  PROVE  Total(ps \o qs) = Total(ps) + Total(qs)
<1> DEFINE G == {s \in Seq(APiece) : Total(ps \o s) = Total(ps) + Total(s)}
<1>0. \A s \in Seq(APiece) : Total(s) \in Nat
  <2> SUFFICES ASSUME NEW s \in Seq(APiece) PROVE Total(s) \in Nat
    OBVIOUS
  <2>1. Len(s) \in 0..Len(s)
    OBVIOUS
  <2> QED BY <2>1, SizeNat DEF Total
<1>1. << >> \in G
  <2>1. ps \o << >> = ps /\ << >> \in Seq(APiece)
    BY ConcatEmptySeq
  <2> QED BY <2>1, <1>0, NoSize
<1>2. ASSUME NEW s \in Seq(APiece), NEW e \in APiece, s \in G PROVE Append(s, e) \in G
  <2>1. Append(s, e) \in Seq(APiece) /\ Append(s, e) = s \o <<e>> /\ <<e>> \in Seq(APiece)
        /\ ps \o s \in Seq(APiece) /\ e.len \in Nat
    BY DEF APiece
  <2>2. ps \o (s \o <<e>>) = (ps \o s) \o <<e>>
    BY <2>1, ConcatAssociative
  <2>3. ps \o Append(s, e) = Append(ps \o s, e)
    BY <2>1, <2>2, AppendIsConcat
  <2>4. Total(Append(ps \o s, e)) = Total(ps \o s) + e.len
    BY <2>1, SizeGrows
  <2>5. Total(Append(s, e)) = Total(s) + e.len
    BY SizeGrows
  <2>6. Total(ps \o s) = Total(ps) + Total(s)
    BY <1>2
  <2>7. Total(ps \o Append(s, e)) = Total(ps) + Total(Append(s, e))
    <3>1. Total(ps \o Append(s, e)) = Total(ps) + Total(s) + e.len
      BY <2>3, <2>4, <2>6
    <3>2. Total(ps) \in Nat /\ Total(s) \in Nat
      BY <1>0
    <3> QED BY <2>1, <2>5, <3>1, <3>2
  <2> QED BY <2>1, <2>7
<1> HIDE DEF G
<1>3. Seq(APiece) \subseteq G
  BY <1>1, <1>2, Growth
<1> QED BY <1>3 DEF G

LEMMA InRangeBounded ==
  ASSUME NEW ps, NEW o, NEW a, InRange(ps, o, a)
  PROVE  Bounded(ps, a)
BY DEF InRange, Bounded

\* A list of one piece.
LEMMA OnePiece ==
  ASSUME NEW p \in APiece
  PROVE  /\ <<p>> \in Seq(APiece) /\ Total(<<p>>) = p.len
         /\ \A o, a : InRange(<<p>>, o, a) <=> Within(p, IF p.buf = "add" THEN a ELSE o)
         /\ \A a : Bounded(<<p>>, a) <=> (p.buf = "add" => Within(p, a))
         /\ \A o \in Seq(Nat), a \in Seq(Nat) : Bounded(<<p>>, a) => TextOf(<<p>>, o, a) = ReadPiece(p, o, a)
<1>1. Append(<< >>, p) = <<p>> /\ << >> \in Seq(APiece) /\ <<p>> \in Seq(APiece)
      /\ DOMAIN <<p>> = {1} /\ <<p>>[1] = p /\ DOMAIN << >> = {}
  OBVIOUS
<1>2. Total(<<p>>) = p.len
  <2>1. Total(Append(<< >>, p)) = Total(<< >>) + p.len
    BY <1>1, SizeGrows
  <2>2. p.len \in Nat
    BY DEF APiece
  <2> QED BY <1>1, <2>1, <2>2, NoSize
<1>3. ASSUME NEW o, NEW a PROVE InRange(<<p>>, o, a) <=> Within(p, IF p.buf = "add" THEN a ELSE o)
  BY <1>1 DEF InRange
<1>4. ASSUME NEW a PROVE Bounded(<<p>>, a) <=> (p.buf = "add" => Within(p, a))
  BY <1>1 DEF Bounded
<1>5. ASSUME NEW o \in Seq(Nat), NEW a \in Seq(Nat), Bounded(<<p>>, a)
      PROVE  TextOf(<<p>>, o, a) = ReadPiece(p, o, a)
  <2>1. Bounded(<< >>, a)
    BY <1>1 DEF Bounded
  <2>2. TextOf(Append(<< >>, p), o, a) = TextOf(<< >>, o, a) \o ReadPiece(p, o, a)
        /\ ReadPiece(p, o, a) \in Seq(Nat)
    <3>1. p.buf = "add" => Within(p, a)
      BY <1>4, <1>5
    <3> DEFINE e == << >>
    <3>2. e \in Seq(APiece) /\ Bounded(e, a)
      BY <1>1, <2>1
    <3> HIDE DEF e
    <3>3. TextOf(Append(e, p), o, a) = TextOf(e, o, a) \o ReadPiece(p, o, a)
          /\ ReadPiece(p, o, a) \in Seq(Nat)
      BY <3>1, <3>2, TextGrows
    <3> QED BY <3>3 DEF e
  <2>3. << >> \o ReadPiece(p, o, a) = ReadPiece(p, o, a)
    BY <2>2, ConcatEmptySeq
  <2> QED BY <1>1, <2>2, <2>3, EmptyText
<1> QED BY <1>1, <1>2, <1>3, <1>4, <1>5

\* In range, the text is as long as the pieces are.
LEMMA LenOfText ==
  ASSUME NEW ps \in Seq(APiece), NEW o \in Seq(Nat), NEW a \in Seq(Nat), InRange(ps, o, a)
  PROVE  /\ TextOf(ps, o, a) \in Seq(Nat) /\ Len(TextOf(ps, o, a)) = Total(ps)
<1> DEFINE T(s) == TextOf(s, o, a)
           G == {s \in Seq(APiece) : InRange(s, o, a) => T(s) \in Seq(Nat) /\ Len(T(s)) = Total(s)}
<1>1. << >> \in G
  <2>1. << >> \in Seq(APiece) /\ << >> \in Seq(Nat) /\ Len(<< >>) = 0
    OBVIOUS
  <2>2. T(<< >>) = << >>
    BY EmptyText
  <2> QED BY <2>1, <2>2, NoSize
<1>2. ASSUME NEW s \in Seq(APiece), NEW e \in APiece, s \in G PROVE Append(s, e) \in G
  <2>1. Append(s, e) \in Seq(APiece) /\ Append(s, e) = s \o <<e>> /\ <<e>> \in Seq(APiece)
    OBVIOUS
  <2> SUFFICES ASSUME InRange(Append(s, e), o, a)
               PROVE  T(Append(s, e)) \in Seq(Nat) /\ Len(T(Append(s, e))) = Total(Append(s, e))
    BY <2>1
  <2>2. InRange(s, o, a) /\ InRange(<<e>>, o, a)
    <3>1. InRange(s \o <<e>>, o, a)
      BY <2>1
    <3> QED BY <2>1, <3>1, BoundedParts
  <2>3. Within(e, IF e.buf = "add" THEN a ELSE o)
    BY <2>2, OnePiece
  <2>4. ReadPiece(e, o, a) \in Seq(Nat) /\ Len(ReadPiece(e, o, a)) = e.len
    BY <2>3, PieceReads
  <2>5. T(s) \in Seq(Nat) /\ Len(T(s)) = Total(s)
    BY <1>2, <2>2
  <2>6. Bounded(s, a) /\ (e.buf = "add" => Within(e, a))
    BY <2>2, <2>3, InRangeBounded
  <2>7. T(Append(s, e)) = T(s) \o ReadPiece(e, o, a)
    BY <2>6, TextGrows
  <2>8. Total(Append(s, e)) = Total(s) + e.len
    BY SizeGrows
  <2>9. T(s) \o ReadPiece(e, o, a) \in Seq(Nat)
        /\ Len(T(s) \o ReadPiece(e, o, a)) = Len(T(s)) + Len(ReadPiece(e, o, a))
    BY <2>4, <2>5, ConcatProperties
  <2> QED BY <2>4, <2>5, <2>7, <2>8, <2>9
<1> HIDE DEF G
<1>3. Seq(APiece) \subseteq G
  BY <1>1, <1>2, Growth
<1> QED BY <1>3 DEF G

\* The same pieces read the same from buffers that agree on them.
LEMMA TextSame ==
  ASSUME NEW ps \in Seq(APiece), NEW o \in Seq(Nat), NEW a \in Seq(Nat),
         NEW o2 \in Seq(Nat), NEW a2 \in Seq(Nat), Bounded(ps, a), Bounded(ps, a2),
         \A i \in DOMAIN ps : ReadPiece(ps[i], o, a) = ReadPiece(ps[i], o2, a2)
  PROVE  TextOf(ps, o, a) = TextOf(ps, o2, a2)
<1>1. PICK X \in [0..Len(ps) -> Seq(Nat)] :
        X[0] = << >> /\ \A i \in 1..Len(ps) : X[i] = X[i - 1] \o ReadPiece(ps[i], o, a)
  BY Texts
<1>2. ASSUME NEW i \in 1..Len(ps) PROVE X[i] = X[i - 1] \o ReadPiece(ps[i], o2, a2)
  <2>1. ReadPiece(ps[i], o, a) = ReadPiece(ps[i], o2, a2)
    OBVIOUS
  <2>2. X[i] = X[i - 1] \o ReadPiece(ps[i], o, a)
    BY <1>1
  <2> QED BY <2>1, <2>2, Zenon
<1>3. TextOf(ps, o, a) = X[Len(ps)] /\ TextOf(ps, o2, a2) = X[Len(ps)]
  BY <1>1, <1>2, TextIs
<1> QED BY <1>3

\* A list around its j-th piece.
LEMMA Around ==
  ASSUME NEW ps \in Seq(APiece), NEW j \in 1..Len(ps)
  PROVE  LET b == SubSeq(ps, 1, j - 1)  c == SubSeq(ps, j + 1, Len(ps)) IN
         /\ ps = b \o (<<ps[j]>> \o c) /\ b \in Seq(APiece) /\ c \in Seq(APiece) /\ ps[j] \in APiece
         /\ Total(b) = Size(ps, j - 1) /\ b \o <<ps[j]>> = SubSeq(ps, 1, j)
<1> DEFINE b == SubSeq(ps, 1, j - 1)
           c == SubSeq(ps, j + 1, Len(ps))
<1>0. ps[j] \in APiece
  BY ElementOfSeq
<1>1. b \in Seq(APiece) /\ Len(b) = j - 1 /\ \A i \in 1..(j - 1) : b[i] = ps[i]
  OBVIOUS
<1>2. c \in Seq(APiece) /\ Len(c) = Len(ps) - j /\ \A i \in 1..Len(c) : c[i] = ps[j + i]
  OBVIOUS
<1>3. Total(b) = Size(ps, j - 1)
  <2>1. j - 1 \in 0..Len(b) /\ j - 1 <= Len(ps)
    BY <1>1
  <2>2. Size(b, j - 1) = Size(ps, j - 1)
    BY <1>1, <2>1, SizeOfPrefix
  <2> QED BY <1>1, <2>2 DEF Total
<1> HIDE DEF b, c
<1>4. ps = b \o (<<ps[j]>> \o c)
  <2> DEFINE d == <<ps[j]>> \o c
             e == b \o d
  <2>1. d \in Seq(APiece) /\ Len(d) = Len(ps) - j + 1 /\ d[1] = ps[j]
        /\ \A i \in 1..(Len(ps) - j) : d[i + 1] = ps[j + i]
    <3>1. <<ps[j]>> \in Seq(APiece) /\ Len(<<ps[j]>>) = 1 /\ <<ps[j]>>[1] = ps[j]
      BY <1>0
    <3>2. /\ d \in Seq(APiece) /\ Len(d) = 1 + Len(c)
          /\ \A i \in 1..1 + Len(c) : d[i] = IF i <= 1 THEN <<ps[j]>>[i] ELSE c[i - 1]
      BY <1>2, <3>1, ConcatProperties
    <3>3. d[1] = ps[j]
      BY <1>2, <3>1, <3>2
    <3>4. ASSUME NEW i \in 1..(Len(ps) - j) PROVE d[i + 1] = ps[j + i]
      <4>1. i + 1 \in 1..1 + Len(c) /\ ~ (i + 1 <= 1) /\ i + 1 - 1 = i /\ i \in 1..Len(c)
        BY <1>2
      <4> HIDE DEF d
      <4>2. d[i + 1] = c[i + 1 - 1]
        BY <4>1, <3>2
      <4> QED BY <1>2, <4>1, <4>2
    <3> QED BY <1>2, <3>2, <3>3, <3>4
  <2> HIDE DEF d
  <2>2. e \in Seq(APiece) /\ Len(e) = Len(ps) /\ \A i \in 1..(j - 1) : e[i] = ps[i]
    BY <1>1, <2>1
  <2>3. \A i \in 1..(Len(ps) - j + 1) : e[j - 1 + i] = d[i]
    BY <1>1, <2>1
  <2> HIDE DEF e
  <2>4. ASSUME NEW i \in 1..Len(ps) PROVE e[i] = ps[i]
    <3>1. CASE i < j
      BY <3>1, <2>2
    <3>2. CASE i = j
      <4>1. 1 \in 1..(Len(ps) - j + 1) /\ j - 1 + 1 = j
        OBVIOUS
      <4> QED BY <3>2, <4>1, <2>1, <2>3
    <3>3. CASE i > j
      <4>1. i - j \in 1..(Len(ps) - j) /\ i - j + 1 \in 1..(Len(ps) - j + 1)
            /\ j - 1 + (i - j + 1) = i /\ j + (i - j) = i
        BY <3>3
      <4>2. d[i - j + 1] = ps[j + (i - j)]
        BY <4>1, <2>1
      <4>3. e[j - 1 + (i - j + 1)] = d[i - j + 1]
        BY <4>1, <2>3
      <4> QED BY <4>1, <4>2, <4>3
    <3> QED BY <3>1, <3>2, <3>3
  <2>5. e = ps
    BY <2>2, <2>4, SeqEqual
  <2> QED BY <2>5 DEF d, e
<1>5. b \o <<ps[j]>> = SubSeq(ps, 1, j)
  <2>1. 1 \in 1..Len(ps) /\ j \in 1..Len(ps)
    OBVIOUS
  <2> QED BY <2>1, SubSeqRecursiveSecond DEF b
<1> QED BY <1>0, <1>1, <1>2, <1>3, <1>4, <1>5 DEF b, c

\* The provers lose their way in nested concatenations: these keep them apart.
Join(u, v) == u \o v
Three(u, v, w) == Join(u, Join(v, w))

LEMMA Joint ==
  ASSUME NEW u \in Seq(Nat), NEW v \in Seq(Nat)
  PROVE  /\ Join(u, v) \in Seq(Nat) /\ Len(Join(u, v)) = Len(u) + Len(v)
         /\ \A w \in Seq(Nat) : Join(Join(u, v), w) = Join(u, Join(v, w))
<1>1. ASSUME NEW w \in Seq(Nat) PROVE Join(Join(u, v), w) = Join(u, Join(v, w))
  <2>1. (u \o v) \o w = u \o (v \o w)
    BY Regroup
  <2> QED BY <2>1 DEF Join
<1>2. Join(u, v) \in Seq(Nat) /\ Len(Join(u, v)) = Len(u) + Len(v)
  BY DEF Join
<1> QED BY <1>1, <1>2

\* What two lists of pieces give one after the other.
LEMMA Joined ==
  ASSUME NEW l \in Seq(APiece), NEW r \in Seq(APiece), NEW o \in Seq(Nat), NEW a \in Seq(Nat)
  PROVE  /\ Join(l, r) \in Seq(APiece) /\ Total(Join(l, r)) = Total(l) + Total(r)
         /\ InRange(Join(l, r), o, a) <=> InRange(l, o, a) /\ InRange(r, o, a)
         /\ Bounded(Join(l, r), a) <=> Bounded(l, a) /\ Bounded(r, a)
         /\ Bounded(l, a) /\ Bounded(r, a) =>
              TextOf(Join(l, r), o, a) = Join(TextOf(l, o, a), TextOf(r, o, a))
<1>1. l \o r \in Seq(APiece) /\ Total(l \o r) = Total(l) + Total(r)
  BY SizeJoins
<1>2. /\ InRange(l \o r, o, a) <=> InRange(l, o, a) /\ InRange(r, o, a)
      /\ Bounded(l \o r, a) <=> Bounded(l, a) /\ Bounded(r, a)
  BY BoundedParts
<1>3. Bounded(l, a) /\ Bounded(r, a) =>
        TextOf(l \o r, o, a) = TextOf(l, o, a) \o TextOf(r, o, a)
  BY TextJoins
<1> QED BY <1>1, <1>2, <1>3 DEF Join

LEMMA JoinReads ==
  ASSUME NEW l \in Seq(APiece), NEW r \in Seq(APiece), NEW o \in Seq(Nat), NEW a \in Seq(Nat),
         InRange(l, o, a), InRange(r, o, a)
  PROVE  /\ Join(l, r) \in Seq(APiece) /\ InRange(Join(l, r), o, a)
         /\ TextOf(Join(l, r), o, a) = Join(TextOf(l, o, a), TextOf(r, o, a))
<1>1. Bounded(l, a) /\ Bounded(r, a)
  BY InRangeBounded
<1> QED BY <1>1, Joined

\* A list of one piece.
Only(q, p) == q = <<p>>

LEMMA OnlyPiece ==
  ASSUME NEW q \in Seq(APiece), NEW p \in APiece, Only(q, p), NEW o \in Seq(Nat), NEW a \in Seq(Nat)
  PROVE  /\ Total(q) = p.len
         /\ InRange(q, o, a) <=> Within(p, IF p.buf = "add" THEN a ELSE o)
         /\ Bounded(q, a) <=> (p.buf = "add" => Within(p, a))
         /\ Bounded(q, a) => TextOf(q, o, a) = ReadPiece(p, o, a)
         /\ InRange(q, o, a) => TextOf(q, o, a) = ReadPiece(p, o, a)
BY OnePiece, InRangeBounded DEF Only

LEMMA Onlys ==
  ASSUME NEW p \in APiece
  PROVE  \E q \in Seq(APiece) : Only(q, p)
<1>1. <<p>> \in Seq(APiece)
  BY OnePiece
<1> QED BY <1>1, Zenon DEF Only

\* The text of a list around one of its pieces.
LEMMA TextAround ==
  ASSUME NEW b \in Seq(APiece), NEW q \in Seq(APiece), NEW c \in Seq(APiece), NEW p \in APiece,
         NEW o \in Seq(Nat), NEW a \in Seq(Nat), Bounded(Three(b, q, c), a), Only(q, p)
  PROVE  /\ TextOf(Three(b, q, c), o, a) = Three(TextOf(b, o, a), ReadPiece(p, o, a), TextOf(c, o, a))
         /\ Bounded(b, a) /\ Bounded(q, a) /\ Bounded(c, a)
         /\ InRange(Three(b, q, c), o, a) <=> InRange(b, o, a) /\ InRange(q, o, a) /\ InRange(c, o, a)
         /\ Total(Three(b, q, c)) = Total(b) + (p.len + Total(c))
<1> DEFINE d == Join(q, c)
<1>1. Bounded(q, a) => TextOf(q, o, a) = ReadPiece(p, o, a)
  BY OnlyPiece
<1>2. Total(q) = p.len
  BY OnlyPiece
<1>3. /\ d \in Seq(APiece) /\ Total(d) = Total(q) + Total(c)
      /\ InRange(d, o, a) <=> InRange(q, o, a) /\ InRange(c, o, a)
      /\ Bounded(d, a) <=> Bounded(q, a) /\ Bounded(c, a)
      /\ Bounded(q, a) /\ Bounded(c, a) => TextOf(d, o, a) = Join(TextOf(q, o, a), TextOf(c, o, a))
  BY Joined
<1>4. Bounded(Join(b, d), a)
  BY DEF Three
<1> HIDE DEF d
<1>5. /\ Total(Join(b, d)) = Total(b) + Total(d)
      /\ InRange(Join(b, d), o, a) <=> InRange(b, o, a) /\ InRange(d, o, a)
      /\ Bounded(Join(b, d), a) <=> Bounded(b, a) /\ Bounded(d, a)
      /\ Bounded(b, a) /\ Bounded(d, a) => TextOf(Join(b, d), o, a) = Join(TextOf(b, o, a), TextOf(d, o, a))
  BY <1>3, Joined
<1>6. Three(b, q, c) = Join(b, d)
  BY DEF Three, d
<1>7. TextOf(Join(b, d), o, a) = Three(TextOf(b, o, a), ReadPiece(p, o, a), TextOf(c, o, a))
  BY <1>1, <1>3, <1>4, <1>5 DEF Three
<1> QED BY <1>2, <1>3, <1>4, <1>5, <1>6, <1>7

\* A place of a list, what is before it and what is after it.
LEMMA Surround ==
  ASSUME NEW ps \in Seq(APiece), NEW j \in 1..Len(ps)
  PROVE  \E b \in Seq(APiece), q \in Seq(APiece), c \in Seq(APiece), p \in APiece :
           /\ b = SubSeq(ps, 1, j - 1) /\ c = SubSeq(ps, j + 1, Len(ps))
           /\ p = ps[j] /\ Only(q, p) /\ ps = Three(b, q, c) /\ Total(b) = Size(ps, j - 1)
<1> DEFINE b == SubSeq(ps, 1, j - 1)
           c == SubSeq(ps, j + 1, Len(ps))
<1>0. PICK p \in APiece : p = ps[j]
  BY Around
<1>o. <<p>> \in Seq(APiece)
  BY OnePiece
<1>q. PICK q \in Seq(APiece) : q = <<p>>
  BY <1>o, Zenon
<1>1. /\ ps = b \o (q \o c) /\ b \in Seq(APiece) /\ c \in Seq(APiece) /\ Total(b) = Size(ps, j - 1)
  BY <1>0, <1>q, Around
<1>e. b = SubSeq(ps, 1, j - 1) /\ c = SubSeq(ps, j + 1, Len(ps))
  OBVIOUS
<1> HIDE DEF b, c
<1>2. ps = Three(b, q, c)
  BY <1>1 DEF Three, Join
<1>3. Only(q, p)
  BY <1>q DEF Only
<1> QED BY <1>0, <1>1, <1>2, <1>3, <1>e

LEMMA Middle ==
  ASSUME NEW u \in Seq(Nat), NEW v \in Seq(Nat), NEW w \in Seq(Nat), NEW k \in 1..Len(v)
  PROVE  Three(u, v, w)[Len(u) + k] = v[k] /\ Len(u) + k \in 1..Len(Three(u, v, w))
<1> DEFINE x == v \o w
<1>1. x \in Seq(Nat) /\ Len(x) = Len(v) + Len(w) /\ x[k] = v[k] /\ k \in 1..Len(x)
  OBVIOUS
<1> HIDE DEF x
<1>2. (u \o x)[Len(u) + k] = x[k] /\ Len(u) + k \in 1..Len(u \o x)
  BY <1>1, SMTT(40)
<1> QED BY <1>1, <1>2 DEF x, Three, Join

\* What lies at a place of the text.
LEMMA PieceAt ==
  ASSUME NEW ps \in Seq(APiece), NEW o \in Seq(Nat), NEW a \in Seq(Nat), InRange(ps, o, a),
         NEW j \in 1..Len(ps), NEW k \in 1..ps[j].len
  PROVE  /\ TextOf(ps, o, a)[Size(ps, j - 1) + k] = ReadPiece(ps[j], o, a)[k]
         /\ Size(ps, j - 1) + k \in 1..Total(ps)
<1> DEFINE T(s) == TextOf(s, o, a)
<1>0. PICK b \in Seq(APiece), q \in Seq(APiece), c \in Seq(APiece), p \in APiece :
           /\ b = SubSeq(ps, 1, j - 1) /\ c = SubSeq(ps, j + 1, Len(ps))
           /\ p = ps[j] /\ Only(q, p) /\ ps = Three(b, q, c) /\ Total(b) = Size(ps, j - 1)
  BY Surround
<1>1. p = ps[j] /\ Only(q, p) /\ ps = Three(b, q, c) /\ Total(b) = Size(ps, j - 1)
  BY <1>0
<1>2. Bounded(ps, a)
  BY InRangeBounded
<1>3. /\ T(ps) = Three(T(b), ReadPiece(p, o, a), T(c))
      /\ InRange(b, o, a) /\ InRange(q, o, a) /\ InRange(c, o, a)
  BY <1>1, <1>2, TextAround
<1>8. T(b) \in Seq(Nat) /\ Len(T(b)) = Size(ps, j - 1) /\ T(c) \in Seq(Nat)
  BY <1>1, <1>3, LenOfText
<1>9. ReadPiece(p, o, a) \in Seq(Nat) /\ Len(ReadPiece(p, o, a)) = p.len /\ p.len \in Nat
  <2>1. Within(p, IF p.buf = "add" THEN a ELSE o)
    BY <1>1, <1>3, OnlyPiece
  <2> QED BY <2>1, PieceReads, ZenonT(40) DEF APiece
<1>11. T(ps) \in Seq(Nat) /\ Len(T(ps)) = Total(ps)
  BY LenOfText
<1>12. PICK u \in Seq(Nat), v \in Seq(Nat), w \in Seq(Nat) :
         u = T(b) /\ v = ReadPiece(p, o, a) /\ w = T(c)
  BY <1>8, <1>9
<1>13. T(ps) = Three(u, v, w) /\ Len(u) = Size(ps, j - 1) /\ Len(v) = p.len /\ k \in 1..Len(v)
  BY <1>1, <1>3, <1>8, <1>9, <1>12
<1>14. Three(u, v, w)[Len(u) + k] = v[k] /\ Len(u) + k \in 1..Len(Three(u, v, w))
  BY <1>13, Middle
<1> QED BY <1>1, <1>11, <1>12, <1>13, <1>14

\* A piece cut in two.
LEMMA PieceSplits ==
  ASSUME NEW p \in APiece, NEW n \in 1..(p.len - 1)
  PROVE  \E x \in APiece, y \in APiece :
         /\ x = [p EXCEPT !.len = n] /\ y = [p EXCEPT !.start = @ + n, !.len = @ - n]
         /\ x.buf = p.buf /\ y.buf = p.buf
         /\ x.len = n /\ x.start = p.start /\ y.len = p.len - n /\ y.start = p.start + n
         /\ \A b : Within(p, b) /\ Len(b) \in Nat => Within(x, b) /\ Within(y, b)
         /\ \A o \in Seq(Nat), a \in Seq(Nat) :
              Within(p, IF p.buf = "add" THEN a ELSE o) =>
                ReadPiece(p, o, a) = Join(ReadPiece(x, o, a), ReadPiece(y, o, a))
<1> DEFINE x == [p EXCEPT !.len = n]
           y == [p EXCEPT !.start = @ + n, !.len = @ - n]
<1>0. p.start \in Nat /\ p.len \in Nat \ {0} /\ p.buf \in {"orig", "add"} /\ n \in Nat /\ p.len - n \in Nat \ {0}
  BY DEF APiece
<1>1. /\ x \in APiece /\ y \in APiece /\ x.buf = p.buf /\ y.buf = p.buf
      /\ x.len = n /\ x.start = p.start /\ y.len = p.len - n /\ y.start = p.start + n
  <2>1. x = [buf |-> p.buf, start |-> p.start, len |-> n]
    BY DEF APiece
  <2>2. y = [buf |-> p.buf, start |-> p.start + n, len |-> p.len - n]
    <3> DEFINE z == [p EXCEPT !.start = p.start + n]
    <3>1. z = [buf |-> p.buf, start |-> p.start + n, len |-> p.len]
      BY DEF APiece
    <3>3. y = [z EXCEPT !.len = p.len - n]
      BY <1>0, <3>1
    <3> HIDE DEF z
    <3>2. [z EXCEPT !.len = p.len - n] = [buf |-> z.buf, start |-> z.start, len |-> p.len - n]
      BY <3>1
    <3>4. z.buf = p.buf /\ z.start = p.start + n
      BY <3>1
    <3> QED BY <3>2, <3>3, <3>4
  <2>3. n \in Nat \ {0} /\ p.start + n \in Nat
    BY <1>0
  <2> HIDE DEF x, y
  <2> QED BY <1>0, <2>1, <2>2, <2>3 DEF APiece
<1>e. x = [p EXCEPT !.len = n] /\ y = [p EXCEPT !.start = @ + n, !.len = @ - n]
  OBVIOUS
<1> HIDE DEF x, y
<1>2. ASSUME NEW b, Within(p, b), Len(b) \in Nat PROVE Within(x, b) /\ Within(y, b)
  BY <1>0, <1>1, <1>2 DEF Within
<1>3. ASSUME NEW o \in Seq(Nat), NEW a \in Seq(Nat), Within(p, IF p.buf = "add" THEN a ELSE o)
      PROVE  ReadPiece(p, o, a) = Join(ReadPiece(x, o, a), ReadPiece(y, o, a))
  <2> DEFINE b == IF p.buf = "add" THEN a ELSE o
  <2>1. b \in Seq(Nat) /\ Len(b) \in Nat /\ Within(p, b)
    BY <1>3
  <2>2. Within(x, b) /\ Within(y, b)
    BY <2>1, <1>2
  <2>3. /\ ReadPiece(p, o, a) = SubSeq(b, p.start + 1, p.start + p.len)
        /\ ReadPiece(x, o, a) = SubSeq(b, p.start + 1, p.start + n)
        /\ ReadPiece(y, o, a) = SubSeq(b, p.start + n + 1, p.start + n + (p.len - n))
    BY <1>0, <1>1, <2>1, <2>2 DEF ReadPiece, Within
  <2> HIDE DEF b
  <2>6. PICK m \in Nat, l \in Nat : m = p.start /\ l = p.len
    BY <1>0
  <2>9. m + l <= Len(b) /\ n < l /\ Len(b) \in Nat
    BY <1>0, <2>1, <2>6 DEF Within
  <2>4. m + n + (l - n) = m + l /\ m + 1 \in 1..Len(b) + 1
        /\ m + n \in (m + 1) - 1..Len(b) /\ m + l \in (m + n)..Len(b)
    BY <1>0, <2>9
  <2>7. SubSeq(b, m + 1, m + n) \o SubSeq(b, m + n + 1, m + l) = SubSeq(b, m + 1, m + l)
    BY <2>1, <2>4, ConcatAdjacentSubSeq
  <2>8. /\ ReadPiece(p, o, a) = SubSeq(b, m + 1, m + l)
        /\ ReadPiece(x, o, a) = SubSeq(b, m + 1, m + n)
        /\ ReadPiece(y, o, a) = SubSeq(b, m + n + 1, m + l)
    BY <2>3, <2>4, <2>6
  <2> QED BY <2>7, <2>8 DEF Join
<1> QED BY <1>e, <1>1, <1>2, <1>3

-----------------------------------------------------------------------------
(***************************************************************************)
(* Cutting, inserting, deleting                                            *)
(***************************************************************************)
LEMMA Place ==
  ASSUME NEW ps \in Seq(APiece), NEW off \in 0..Total(ps)
  PROVE  LET j == PiecesBefore(ps, off) IN
         /\ j \in 0..Len(ps) /\ Size(ps, j) <= off
         /\ j < Len(ps) => Size(ps, j + 1) > off
<1> DEFINE L == Len(ps)
           T == {j \in 0..L : j = L \/ Size(ps, j + 1) > off}
<1>1. L \in Nat /\ L \in T /\ T \in SUBSET Nat
  OBVIOUS
<1>2. PICK x \in T : \A y \in T : x <= y
  BY <1>1, Least
<1>3. Size(ps, x) <= off
  <2>1. CASE x = 0
    BY <2>1, SizeNat
  <2>2. CASE x # 0
    <3>0. x \in 0..L /\ x - 1 \in 0..L /\ (x - 1) + 1 = x /\ ~ (x <= x - 1)
      BY <1>1, <2>2
    <3>1. x - 1 \notin T
      <4> HIDE DEF T
      <4> QED BY <1>2, <3>0
    <3>2. ~ (Size(ps, x) > off) /\ Size(ps, x) \in Nat
      BY <3>0, <3>1, SizeNat
    <3>3. off \in Int
      BY SizeNat DEF Total
    <3> QED BY <3>2, <3>3
  <2> QED BY <2>1, <2>2
<1>4. x \in 0..Len(ps) /\ (x < Len(ps) => Size(ps, x + 1) > off)
  OBVIOUS
<1> QED BY <1>3, <1>4 DEF PiecesBefore

LEMMA Halves ==
  ASSUME NEW u \in Seq(Nat), NEW v \in Seq(Nat)
  PROVE  /\ SubSeq(Join(u, v), 1, Len(u)) = u
         /\ SubSeq(Join(u, v), Len(u) + 1, Len(Join(u, v))) = v
<1>1. u \o v \in Seq(Nat) /\ Len(u \o v) = Len(u) + Len(v) /\ Len(u) \in Nat /\ Len(v) \in Nat
  OBVIOUS
<1>2. /\ \A k \in 1..Len(u) : (u \o v)[k] = u[k]
      /\ \A k \in 1..Len(v) : (u \o v)[Len(u) + k] = v[k]
  OBVIOUS
<1> DEFINE w == u \o v
<1> HIDE DEF w
<1>3. w \in Seq(Nat) /\ Len(w) = Len(u) + Len(v)
  BY <1>1 DEF w
<1>4. SubSeq(w, 1, Len(u)) = u
  <2>1. Len(SubSeq(w, 1, Len(u))) = Len(u) /\ SubSeq(w, 1, Len(u)) \in Seq(Nat)
    BY <1>3
  <2>2. \A k \in 1..Len(u) : SubSeq(w, 1, Len(u))[k] = u[k]
    BY <1>2, <1>3 DEF w
  <2>3. PICK z \in Seq(Nat) : z = SubSeq(w, 1, Len(u))
    BY <2>1
  <2>4. Len(z) = Len(u) /\ \A k \in 1..Len(z) : z[k] = u[k]
    BY <2>1, <2>2, <2>3
  <2>5. z = u
    BY <2>4, SeqEqual
  <2> QED BY <2>3, <2>5
<1>5. SubSeq(w, Len(u) + 1, Len(w)) = v
  <2>1. Len(SubSeq(w, Len(u) + 1, Len(w))) = Len(v) /\ SubSeq(w, Len(u) + 1, Len(w)) \in Seq(Nat)
    BY <1>1, <1>3, Slice
  <2>2. \A k \in 1..Len(v) : SubSeq(w, Len(u) + 1, Len(w))[k] = w[Len(u) + k]
    BY <1>1, <1>3, Slice
  <2>3. \A k \in 1..Len(v) : SubSeq(w, Len(u) + 1, Len(w))[k] = v[k]
    BY <1>2, <2>2 DEF w
  <2>4. PICK z \in Seq(Nat) : z = SubSeq(w, Len(u) + 1, Len(w))
    BY <2>1
  <2>5. Len(z) = Len(v) /\ \A k \in 1..Len(v) : z[k] = v[k]
    BY <2>1, <2>3, <2>4
  <2>6. z = v
    <3>1. Len(z) = Len(v) /\ \A k \in 1..Len(z) : z[k] = v[k]
      BY <2>5
    <3> QED BY <3>1, SeqEqual
  <2> QED BY <2>4, <2>6
<1> QED BY <1>4, <1>5 DEF w, Join

LEMMA Regroup4 ==
  ASSUME NEW u \in Seq(Nat), NEW v \in Seq(Nat), NEW w \in Seq(Nat), NEW x \in Seq(Nat)
  PROVE  Three(u, Join(v, w), x) = Join(Join(u, v), Join(w, x))
BY Joint DEF Three

\* The list before a place and the list from it on.
LEMMA Parted ==
  ASSUME NEW ps \in Seq(APiece), NEW j \in 0..Len(ps)
  PROVE  \E b \in Seq(APiece), c \in Seq(APiece) :
           /\ b = SubSeq(ps, 1, j) /\ c = SubSeq(ps, j + 1, Len(ps))
           /\ ps = Join(b, c) /\ Total(b) = Size(ps, j)
<1> DEFINE b == SubSeq(ps, 1, j)
           c == SubSeq(ps, j + 1, Len(ps))
<1>1. b \in Seq(APiece) /\ Len(b) = j /\ c \in Seq(APiece) /\ \A i \in 1..j : b[i] = ps[i]
  OBVIOUS
<1>2. b \o c = ps
  <2>1. 1 \in 1..Len(ps) + 1 /\ j \in (1 - 1)..Len(ps) /\ Len(ps) \in j..Len(ps)
    OBVIOUS
  <2>2. b \o c = SubSeq(ps, 1, Len(ps))
    BY <2>1, ConcatAdjacentSubSeq
  <2> QED BY <2>2, SubSeqFull
<1>e. b = SubSeq(ps, 1, j) /\ c = SubSeq(ps, j + 1, Len(ps))
  OBVIOUS
<1> HIDE DEF b, c
<1>3. Size(ps, j) = Size(b, j)
  <2>1. j \in 0..Len(ps) /\ j <= Len(b) /\ \A i \in 1..j : ps[i] = b[i]
    BY <1>1
  <2> QED BY <1>1, <2>1, SizeOfPrefix
<1>4. ps = Join(b, c)
  BY <1>2 DEF Join
<1> QED BY <1>1, <1>3, <1>4, <1>e DEF Total

\* Cut at an offset, a list of pieces reads as its text cut there.
LEMMA Cut ==
  ASSUME NEW ps \in Seq(APiece), NEW off \in 0..Total(ps),
         NEW o \in Seq(Nat), NEW a \in Seq(Nat), InRange(ps, o, a)
  PROVE  LET t == TextOf(ps, o, a) IN
         /\ Upto(ps, off) \in Seq(APiece) /\ From(ps, off) \in Seq(APiece)
         /\ InRange(Upto(ps, off), o, a) /\ InRange(From(ps, off), o, a)
         /\ TextOf(Upto(ps, off), o, a) = SubSeq(t, 1, off)
         /\ TextOf(From(ps, off), o, a) = SubSeq(t, off + 1, Len(t))
<1> DEFINE T(s) == TextOf(s, o, a)
<1>0. PICK j : j = PiecesBefore(ps, off)
  OBVIOUS
<1>1. j \in 0..Len(ps) /\ Size(ps, j) <= off /\ (j < Len(ps) => Size(ps, j + 1) > off)
  BY <1>0, Place
<1>2. Size(ps, j) \in Nat /\ Total(ps) \in Nat
  BY <1>1, SizeNat DEF Total
<1>a. PICK rest : rest = off - Size(ps, j)
  OBVIOUS
<1>b. PICK l, r : l = Upto(ps, off) /\ r = From(ps, off)
  OBVIOUS
<1>3. off \in Nat /\ rest \in Nat
  BY <1>1, <1>2, <1>a
<1>4. /\ l \in Seq(APiece) /\ r \in Seq(APiece) /\ InRange(l, o, a) /\ InRange(r, o, a)
      /\ T(ps) = Join(T(l), T(r)) /\ Total(l) = off
  <2>1. CASE rest = 0
    <3>1. PICK b \in Seq(APiece), c \in Seq(APiece) :
            /\ b = SubSeq(ps, 1, j) /\ c = SubSeq(ps, j + 1, Len(ps))
            /\ ps = Join(b, c) /\ Total(b) = Size(ps, j)
      BY <1>1, Parted
    <3>2. l = b
      <4>1. b \o << >> = b
        OBVIOUS
      <4>2. l = SubSeq(ps, 1, j) \o << >>
        BY <1>0, <1>a, <1>b, <2>1 DEF Upto
      <4> QED BY <3>1, <4>1, <4>2
    <3>3. r = c
      BY <1>0, <1>a, <1>b, <2>1, <3>1 DEF From
    <3>4. ps = Join(b, c) /\ Total(b) = off
      BY <1>1, <1>2, <1>3, <1>a, <2>1, <3>1
    <3>5. InRange(b, o, a) /\ InRange(c, o, a)
      BY <3>4, Joined
    <3>6. T(ps) = Join(T(b), T(c))
      BY <3>4, <3>5, InRangeBounded, Joined
    <3> QED BY <3>2, <3>3, <3>4, <3>5, <3>6
  <2>2. CASE rest # 0
    <3>1. j < Len(ps)
      <4>1. j = Len(ps) => Size(ps, j) = Total(ps)
        BY DEF Total
      <4> QED BY <1>1, <1>2, <1>3, <1>a, <2>2, <4>1
    <3>2. j + 1 \in 1..Len(ps) /\ (j + 1) - 1 = j /\ (j + 1) + 1 = j + 2
      BY <1>1, <3>1
    <3>3. Size(ps, j + 1) = Size(ps, j) + ps[j + 1].len
      BY <3>2, SizeStep
    <3>4. PICK b \in Seq(APiece), q \in Seq(APiece), c \in Seq(APiece), p \in APiece :
            /\ b = SubSeq(ps, 1, (j + 1) - 1) /\ c = SubSeq(ps, (j + 1) + 1, Len(ps))
            /\ p = ps[j + 1] /\ Only(q, p) /\ ps = Three(b, q, c) /\ Total(b) = Size(ps, (j + 1) - 1)
      BY <3>2, Surround
    <3>a. ps = Three(b, q, c) /\ Total(b) = Size(ps, j) /\ Only(q, p)
      BY <3>2, <3>4, Zenon
    <3>b. b = SubSeq(ps, 1, j) /\ c = SubSeq(ps, j + 2, Len(ps)) /\ p = ps[j + 1]
      BY <3>2, <3>4, Zenon
    <3>5. rest \in 1..(p.len - 1)
      <4>1. p.len \in Nat
        BY DEF APiece
      <4> QED BY <1>1, <1>2, <1>3, <1>a, <2>2, <3>1, <3>3, <3>b, <4>1, SMTT(40)
    <3>6. PICK x \in APiece, y \in APiece :
            /\ x = [p EXCEPT !.len = rest] /\ y = [p EXCEPT !.start = @ + rest, !.len = @ - rest]
            /\ x.buf = p.buf /\ y.buf = p.buf
            /\ x.len = rest /\ x.start = p.start /\ y.len = p.len - rest /\ y.start = p.start + rest
            /\ \A s : Within(p, s) /\ Len(s) \in Nat => Within(x, s) /\ Within(y, s)
            /\ \A oo \in Seq(Nat), aa \in Seq(Nat) :
              Within(p, IF p.buf = "add" THEN aa ELSE oo) =>
                ReadPiece(p, oo, aa) = Join(ReadPiece(x, oo, aa), ReadPiece(y, oo, aa))
      BY <3>5, PieceSplits
    <3>7. PICK qx \in Seq(APiece), qy \in Seq(APiece) : Only(qx, x) /\ Only(qy, y)
      BY Onlys
    <3>9. l = Join(b, qx)
      BY <1>0, <1>a, <1>b, <2>2, <3>b, <3>6, <3>7 DEF Upto, Only, Join
    <3>10. r = Join(qy, c)
      BY <1>0, <1>a, <1>b, <2>2, <3>b, <3>6, <3>7 DEF From, Only, Join
    <3>11. Bounded(ps, a)
      BY InRangeBounded
    <3>12. /\ T(ps) = Three(T(b), ReadPiece(p, o, a), T(c))
           /\ InRange(b, o, a) /\ InRange(q, o, a) /\ InRange(c, o, a)
      BY <3>a, <3>11, TextAround
    <3>13. Within(p, IF p.buf = "add" THEN a ELSE o)
      BY <3>a, <3>12, OnlyPiece
    <3>14. Within(x, IF x.buf = "add" THEN a ELSE o) /\ Within(y, IF y.buf = "add" THEN a ELSE o)
      <4>1. Len(IF p.buf = "add" THEN a ELSE o) \in Nat
        OBVIOUS
      <4> QED BY <3>6, <3>13, <4>1
    <3>15. InRange(qx, o, a) /\ InRange(qy, o, a)
      BY <3>7, <3>14, OnlyPiece
    <3>16. InRange(l, o, a) /\ InRange(r, o, a) /\ l \in Seq(APiece) /\ r \in Seq(APiece)
      BY <3>9, <3>10, <3>12, <3>15, Joined
    <3>17. T(qx) = ReadPiece(x, o, a) /\ T(qy) = ReadPiece(y, o, a)
      BY <3>7, <3>15, InRangeBounded, OnlyPiece
    <3>18. T(l) = Join(T(b), T(qx)) /\ T(r) = Join(T(qy), T(c))
      BY <3>9, <3>10, <3>12, <3>15, InRangeBounded, Joined
    <3>19. /\ T(b) \in Seq(Nat) /\ T(qx) \in Seq(Nat) /\ T(qy) \in Seq(Nat) /\ T(c) \in Seq(Nat)
      BY <3>12, <3>15, LenOfText
    <3>20. T(ps) = Three(T(b), Join(T(qx), T(qy)), T(c))
      BY <3>6, <3>12, <3>13, <3>17
    <3>21. T(ps) = Join(T(l), T(r))
      BY <3>18, <3>19, <3>20, Regroup4
    <3>22. Total(l) = off
      <4>1. Total(l) = Total(b) + Total(qx)
        BY <3>9, Joined
      <4>2. Total(qx) = rest
        BY <3>6, <3>7, OnlyPiece
      <4> QED BY <1>1, <1>2, <1>3, <1>a, <3>a, <4>1, <4>2
    <3> QED BY <3>16, <3>21, <3>22
  <2> QED BY <2>1, <2>2
<1>5. T(l) \in Seq(Nat) /\ T(r) \in Seq(Nat) /\ Len(T(l)) = off
  BY <1>4, LenOfText
<1>6. SubSeq(T(ps), 1, off) = T(l) /\ SubSeq(T(ps), off + 1, Len(T(ps))) = T(r)
  <2>1. PICK u \in Seq(Nat), v \in Seq(Nat) : u = T(l) /\ v = T(r)
    BY <1>5
  <2>2. T(ps) = Join(u, v) /\ Len(u) = off
    BY <1>4, <1>5, <2>1
  <2>3. SubSeq(Join(u, v), 1, Len(u)) = u /\ SubSeq(Join(u, v), Len(u) + 1, Len(Join(u, v))) = v
    BY Halves
  <2> QED BY <2>1, <2>2, <2>3
<1> QED BY <1>4, <1>6, <1>b

LEMMA InBuffer ==
  ASSUME NEW u \in Nat, NEW n \in Nat, NEW e \in Nat, u + n <= e
  PROVE  \A k \in 1..n : u + k \in 1..e
OBVIOUS

LEMMA Resized ==
  ASSUME NEW p \in APiece, NEW n \in Nat \ {0}
  PROVE  \E x \in APiece : x = [p EXCEPT !.len = n] /\ x.buf = p.buf /\ x.start = p.start /\ x.len = n
<1> DEFINE x == [p EXCEPT !.len = n]
<1>1. x = [buf |-> p.buf, start |-> p.start, len |-> n]
  BY DEF APiece
<1>2. [buf |-> p.buf, start |-> p.start, len |-> n] \in APiece
  BY DEF APiece
<1>3. x = [p EXCEPT !.len = n]
  OBVIOUS
<1> HIDE DEF x
<1> QED BY <1>1, <1>2, <1>3

LEMMA NothingJoins ==
  ASSUME NEW S, NEW u \in Seq(S)
  PROVE  Join(u, << >>) = u
BY DEF Join

LEMMA TotalNat ==
  ASSUME NEW ps \in Seq(APiece)
  PROVE  Total(ps) \in Nat
<1>1. Len(ps) \in 0..Len(ps)
  OBVIOUS
<1> QED BY <1>1, SizeNat DEF Total

LEMMA MadeOf ==
  ASSUME NEW b \in {"orig", "add"}, NEW s \in Nat, NEW n \in Nat \ {0}
  PROVE  \E p \in APiece : p = Piece(b, s, n) /\ p.buf = b /\ p.start = s /\ p.len = n
<1>1. Piece(b, s, n) \in APiece
  BY DEF Piece, APiece
<1> QED BY <1>1 DEF Piece

LEMMA NoPieces ==
  ASSUME NEW o \in Seq(Nat), NEW a \in Seq(Nat)
  PROVE  << >> \in Seq(APiece) /\ InRange(<< >>, o, a) /\ TextOf(<< >>, o, a) = << >>
<1>1. InRange(<< >>, o, a)
  BY DEF InRange
<1> QED BY <1>1, EmptyText

\* A piece reads the same from two buffers that agree where it lies.
LEMMA SameBytes ==
  ASSUME NEW p \in APiece, NEW o \in Seq(Nat), NEW a \in Seq(Nat), NEW o2 \in Seq(Nat), NEW a2 \in Seq(Nat),
         Within(p, IF p.buf = "add" THEN a ELSE o), Within(p, IF p.buf = "add" THEN a2 ELSE o2),
         \A k \in 1..p.len : (IF p.buf = "add" THEN a ELSE o)[p.start + k]
                             = (IF p.buf = "add" THEN a2 ELSE o2)[p.start + k]
  PROVE  ReadPiece(p, o, a) = ReadPiece(p, o2, a2)
<1>a. /\ ReadPiece(p, o, a) \in Seq(Nat) /\ Len(ReadPiece(p, o, a)) = p.len
      /\ \A k \in 1..p.len : ReadPiece(p, o, a)[k] = (IF p.buf = "add" THEN a ELSE o)[p.start + k]
  BY PieceReads
<1>b. /\ ReadPiece(p, o2, a2) \in Seq(Nat) /\ Len(ReadPiece(p, o2, a2)) = p.len
      /\ \A k \in 1..p.len : ReadPiece(p, o2, a2)[k] = (IF p.buf = "add" THEN a2 ELSE o2)[p.start + k]
  BY PieceReads
<1>1. PICK r \in Seq(Nat), r2 \in Seq(Nat) : r = ReadPiece(p, o, a) /\ r2 = ReadPiece(p, o2, a2)
  BY <1>a, <1>b
<1>2. Len(r) = p.len /\ \A k \in 1..p.len : r[k] = (IF p.buf = "add" THEN a ELSE o)[p.start + k]
  BY <1>a, <1>1
<1>3. Len(r2) = p.len /\ \A k \in 1..p.len : r2[k] = (IF p.buf = "add" THEN a2 ELSE o2)[p.start + k]
  BY <1>b, <1>1
<1>4. Len(r) = Len(r2) /\ \A k \in 1..Len(r) : r[k] = r2[k]
  BY <1>2, <1>3
<1>5. r = r2
  BY <1>4, SeqEqual
<1> QED BY <1>1, <1>5

\* Another original agrees with the first where the pieces lie.
Agrees(ps, o, o2) ==
  \A i \in 1..Len(ps) : ps[i].buf = "orig" =>
    /\ Within(ps[i], o2)
    /\ \A k \in 1..ps[i].len : o2[ps[i].start + k] = o[ps[i].start + k]

\* Then the text is the same.
LEMMA SameOriginal ==
  ASSUME NEW ps \in Seq(APiece), NEW o \in Seq(Nat), NEW a \in Seq(Nat), NEW o2 \in Seq(Nat),
         InRange(ps, o, a), Agrees(ps, o, o2)
  PROVE  InRange(ps, o2, a) /\ TextOf(ps, o2, a) = TextOf(ps, o, a)
<1>0. DOMAIN ps = 1..Len(ps)
  OBVIOUS
<1>1. ASSUME NEW i \in 1..Len(ps)
      PROVE  /\ Within(ps[i], IF ps[i].buf = "add" THEN a ELSE o2)
             /\ ReadPiece(ps[i], o, a) = ReadPiece(ps[i], o2, a)
  <2>0. PICK p \in APiece : p = ps[i]
    BY ElementOfSeq
  <2>1. Within(p, IF p.buf = "add" THEN a ELSE o)
    BY <1>0, <2>0 DEF InRange
  <2>2. p.buf \in {"orig", "add"}
    BY DEF APiece
  <2>3. p.buf # "add" => Within(p, o2) /\ \A k \in 1..p.len : o2[p.start + k] = o[p.start + k]
    BY <2>0, <2>2 DEF Agrees
  <2>4. Within(p, IF p.buf = "add" THEN a ELSE o2)
    BY <2>1, <2>3
  <2>5. \A k \in 1..p.len : (IF p.buf = "add" THEN a ELSE o)[p.start + k]
                             = (IF p.buf = "add" THEN a ELSE o2)[p.start + k]
    BY <2>3
  <2>6. ReadPiece(p, o, a) = ReadPiece(p, o2, a)
    BY <2>1, <2>4, <2>5, SameBytes
  <2> QED BY <2>0, <2>4, <2>6
<1>2. InRange(ps, o2, a)
  BY <1>0, <1>1 DEF InRange
<1> QED BY <1>0, <1>1, <1>2, InRangeBounded, TextSame

\* What was added before reads the same when more is added.
LEMMA More ==
  ASSUME NEW ps \in Seq(APiece), NEW o \in Seq(Nat), NEW a \in Seq(Nat), NEW m \in Seq(Nat)
  PROVE  /\ Bounded(ps, a) => Bounded(ps, Join(a, m))
         /\ InRange(ps, o, a) => /\ InRange(ps, o, Join(a, m))
                                 /\ TextOf(ps, o, Join(a, m)) = TextOf(ps, o, a)
<1>0. PICK a2 \in Seq(Nat) : a2 = Join(a, m)
  BY Joint
<1>1. Len(a) <= Len(a2) /\ \A i \in 1..Len(a) : a2[i] = a[i]
  BY <1>0 DEF Join
<1>2. DOMAIN ps = 1..Len(ps)
  OBVIOUS
<1>3. ASSUME NEW p \in APiece, Within(p, a) PROVE Within(p, a2)
  <2>1. p.start + p.len \in Nat
    BY DEF APiece
  <2> QED BY <1>1, <1>3, <2>1 DEF Within
<1>4. Bounded(ps, a) => Bounded(ps, a2)
  BY <1>2, <1>3, ElementOfSeq DEF Bounded
<1>5. ASSUME InRange(ps, o, a) PROVE InRange(ps, o, a2) /\ TextOf(ps, o, a2) = TextOf(ps, o, a)
  <2>1. ASSUME NEW i \in 1..Len(ps)
        PROVE  /\ Within(ps[i], IF ps[i].buf = "add" THEN a2 ELSE o)
               /\ ReadPiece(ps[i], o, a) = ReadPiece(ps[i], o, a2)
    <3>0. PICK p \in APiece : p = ps[i]
      BY ElementOfSeq
    <3>1. Within(p, IF p.buf = "add" THEN a ELSE o)
      BY <1>2, <1>5, <3>0 DEF InRange
    <3>2. Within(p, IF p.buf = "add" THEN a2 ELSE o)
      BY <3>1, <1>3
    <3>3. p.buf = "add" => \A k \in 1..p.len : p.start + k \in 1..Len(a)
      <4>1. p.start \in Nat /\ p.len \in Nat /\ Len(a) \in Nat
        BY DEF APiece
      <4>2. p.buf = "add" => p.start + p.len <= Len(a)
        BY <3>1 DEF Within
      <4> QED BY <4>1, <4>2, InBuffer
    <3>4. \A k \in 1..p.len : (IF p.buf = "add" THEN a ELSE o)[p.start + k]
                               = (IF p.buf = "add" THEN a2 ELSE o)[p.start + k]
      BY <1>1, <3>3
    <3>5. ReadPiece(p, o, a) = ReadPiece(p, o, a2)
      BY <3>1, <3>2, <3>4, SameBytes
    <3> QED BY <3>0, <3>2, <3>5
  <2>2. InRange(ps, o, a2)
    BY <1>2, <2>1 DEF InRange
  <2> QED BY <1>2, <1>5, <2>1, <2>2, InRangeBounded, TextSame
<1> QED BY <1>0, <1>4, <1>5

\* Insert puts the added bytes at the offset.
LEMMA InsertReads ==
  ASSUME NEW ps \in Seq(APiece), NEW off \in 0..Total(ps), NEW o \in Seq(Nat), NEW a \in Seq(Nat),
         NEW m \in Seq(Nat), m # << >>, InRange(ps, o, a)
  PROVE  LET t == TextOf(ps, o, a)
             new == Insert(ps, off, Piece("add", Len(a), Len(m))) IN
         /\ new \in Seq(APiece) /\ InRange(new, o, Join(a, m))
         /\ TextOf(new, o, Join(a, m)) = Join(Join(SubSeq(t, 1, off), m), SubSeq(t, off + 1, Len(t)))
<1>0. Len(a) \in Nat /\ Len(m) \in Nat \ {0}
  BY EmptySeq
<1>1. PICK p \in APiece : /\ p = Piece("add", Len(a), Len(m))
                          /\ p.buf = "add" /\ p.start = Len(a) /\ p.len = Len(m)
  BY <1>0, MadeOf
<1>2. PICK t \in Seq(Nat) : t = TextOf(ps, o, a) /\ Len(t) = Total(ps)
  BY LenOfText
<1>3. PICK a2 \in Seq(Nat) : a2 = Join(a, m) /\ Len(a2) = Len(a) + Len(m)
  BY Joint
<1>l. Len(a2) = Len(a) + Len(m)
  BY <1>3
<1>4. p.buf = "add" /\ p.start = Len(a) /\ p.len = Len(m) /\ Len(a) \in Nat /\ Len(m) \in Nat
  BY <1>0, <1>1
<1>m. ASSUME NEW qs \in Seq(APiece), InRange(qs, o, a)
      PROVE  InRange(qs, o, a2) /\ TextOf(qs, o, a2) = TextOf(qs, o, a)
  <2>1. InRange(qs, o, Join(a, m)) /\ TextOf(qs, o, Join(a, m)) = TextOf(qs, o, a)
    BY <1>m, More
  <2> QED BY <1>3, <2>1
<1>5. Within(p, a2) /\ ReadPiece(p, o, a2) = m
  <2>1. SubSeq(a2, Len(a) + 1, Len(a2)) = m
    BY <1>3, Halves, ZenonT(40)
  <2> QED BY <1>3, <1>4, <2>1 DEF ReadPiece, Within
<1> DEFINE merge == /\ off = Size(ps, Len(ps)) /\ ps # <<>>
                    /\ Last(ps).buf = "add" /\ Last(ps).start + Last(ps).len = p.start
           new == Insert(ps, off, p)
<1>6. ASSUME ~ merge
      PROVE  /\ new \in Seq(APiece) /\ InRange(new, o, a2)
             /\ TextOf(new, o, a2) = Join(Join(SubSeq(t, 1, off), m), SubSeq(t, off + 1, Len(t)))
  <2>1. PICK l \in Seq(APiece), r \in Seq(APiece) :
          /\ l = Upto(ps, off) /\ r = From(ps, off) /\ InRange(l, o, a) /\ InRange(r, o, a)
          /\ TextOf(l, o, a) = SubSeq(TextOf(ps, o, a), 1, off)
          /\ TextOf(r, o, a) = SubSeq(TextOf(ps, o, a), off + 1, Len(TextOf(ps, o, a)))
    BY Cut
  <2>2. /\ InRange(l, o, a2) /\ TextOf(l, o, a2) = SubSeq(t, 1, off)
        /\ InRange(r, o, a2) /\ TextOf(r, o, a2) = SubSeq(t, off + 1, Len(t))
    BY <1>2, <1>m, <2>1
  <2>3. PICK q \in Seq(APiece) : Only(q, p)
    BY Onlys
  <2>4. new = Join(Join(l, q), r)
    BY <1>6, <2>1, <2>3 DEF Insert, Only, Join
  <2>5. InRange(q, o, a2) /\ TextOf(q, o, a2) = m
    BY <1>4, <1>5, <2>3, OnlyPiece, SMTT(40)
  <2>a. /\ Join(l, q) \in Seq(APiece) /\ InRange(Join(l, q), o, a2)
        /\ TextOf(Join(l, q), o, a2) = Join(TextOf(l, o, a2), TextOf(q, o, a2))
    <3>1. InRange(l, o, a2) /\ InRange(q, o, a2)
      BY <2>2, <2>5
    <3> QED BY <3>1, JoinReads
  <2>6. PICK d \in Seq(APiece) : d = Join(l, q) /\ InRange(d, o, a2)
                                 /\ TextOf(d, o, a2) = Join(TextOf(l, o, a2), TextOf(q, o, a2))
    BY <2>a
  <2>7. /\ Join(d, r) \in Seq(APiece) /\ InRange(Join(d, r), o, a2)
        /\ TextOf(Join(d, r), o, a2) = Join(TextOf(d, o, a2), TextOf(r, o, a2))
    <3>1. InRange(d, o, a2) /\ InRange(r, o, a2)
      BY <2>2, <2>6
    <3> QED BY <3>1, JoinReads
  <2> QED BY <2>2, <2>4, <2>5, <2>6, <2>7
<1>7. ASSUME merge
      PROVE  /\ new \in Seq(APiece) /\ InRange(new, o, a2)
             /\ TextOf(new, o, a2) = Join(Join(SubSeq(t, 1, off), m), SubSeq(t, off + 1, Len(t)))
  <2>0. PICK n : n = Len(ps)
    OBVIOUS
  <2>1. n \in 1..Len(ps) /\ n \in Nat
    BY <1>7, <2>0
  <2>2. PICK b \in Seq(APiece), q \in Seq(APiece), c \in Seq(APiece), z \in APiece :
           /\ b = SubSeq(ps, 1, n - 1) /\ c = SubSeq(ps, n + 1, Len(ps))
           /\ z = ps[n] /\ Only(q, z) /\ ps = Three(b, q, c) /\ Total(b) = Size(ps, n - 1)
    BY <2>1, Surround
  <2>3. c = << >>
    BY <2>0, <2>1, <2>2
  <2>4. b = Front(ps) /\ z = Last(ps)
    BY <2>0, <2>2 DEF Front, Last
  <2>5. ps = Join(b, q)
    <3>1. Join(q, << >>) = q
      BY NothingJoins
    <3> QED BY <2>2, <2>3, <3>1 DEF Three
  <2>6. z.buf = "add" /\ z.start + z.len = Len(a) /\ off = Len(t) /\ z.start \in Nat /\ z.len \in Nat
    BY <1>2, <1>4, <1>7, <2>4 DEF Total, APiece
  <2>7. /\ InRange(b, o, a) /\ InRange(q, o, a) /\ t = Join(TextOf(b, o, a), TextOf(q, o, a))
    <3>1. InRange(Join(b, q), o, a)
      BY <2>5, Zenon
    <3>2. InRange(b, o, a) /\ InRange(q, o, a)
      BY <3>1, Joined
    <3>3. TextOf(Join(b, q), o, a) = Join(TextOf(b, o, a), TextOf(q, o, a))
      BY <3>2, JoinReads
    <3> QED BY <1>2, <2>5, <3>2, <3>3
  <2>a. Only(q, z)
    BY <2>2
  <2>n. PICK s \in Nat, n1 \in Nat \ {0}, la \in Nat, lm \in Nat :
          s = z.start /\ n1 = z.len /\ la = Len(a) /\ lm = Len(m)
    BY <1>4 DEF APiece
  <2>e. s + n1 = la /\ Len(a2) = la + lm /\ n1 + lm \in Nat \ {0}
    <3>1. z.start + z.len = Len(a)
      BY <2>6
    <3>2. n1 + lm \in Nat \ {0}
      OBVIOUS
    <3>3. s = z.start /\ n1 = z.len /\ la = Len(a) /\ lm = Len(m)
      BY <2>n
    <3>4. s + n1 = la
      BY <3>1, <3>3
    <3>5. Len(a2) = la + lm
      BY <1>l, <3>3
    <3> QED BY <3>2, <3>4, <3>5
  <2>f. s + (n1 + lm) = la + lm /\ s + 1 \in 1..(la + lm) + 1 /\ la \in (s + 1) - 1..(la + lm) /\ la + lm \in la..(la + lm)
    BY <2>e
  <2>8. PICK x \in APiece : /\ x = [z EXCEPT !.len = @ + p.len]
                            /\ x.buf = "add" /\ x.start = s /\ x.len = n1 + lm
    <3>0. PICK n2 \in Nat \ {0} : n2 = n1 + lm
      BY <2>e
    <3>1. \E w \in APiece : w = [z EXCEPT !.len = n2] /\ w.buf = z.buf /\ w.start = z.start /\ w.len = n2
      BY Resized
    <3>3. [z EXCEPT !.len = @ + p.len] = [z EXCEPT !.len = n2]
      BY <1>4, <2>n, <3>0
    <3> QED BY <2>6, <2>n, <3>0, <3>1, <3>3
  <2>9. PICK qx \in Seq(APiece) : Only(qx, x)
    BY Onlys
  <2>10. new = Join(b, qx)
    BY <1>7, <2>4, <2>8, <2>9 DEF Insert, Only, Join
  <2>11. InRange(b, o, a2) /\ TextOf(b, o, a2) = TextOf(b, o, a)
    BY <1>m, <2>7
  <2>12. InRange(q, o, a2) /\ TextOf(q, o, a2) = TextOf(q, o, a)
    BY <1>m, <2>7
  <2>13. TextOf(q, o, a2) = SubSeq(a2, z.start + 1, Len(a))
    <3>1. TextOf(q, o, a2) = ReadPiece(z, o, a2)
      BY <2>a, <2>12, OnlyPiece
    <3> QED BY <2>6, <3>1 DEF ReadPiece
  <2>14. InRange(qx, o, a2)
    <3>1. Within(x, a2)
      <4>1. s + (n1 + lm) <= Len(a2)
        BY <2>e, <2>f
      <4> QED BY <2>8, <4>1 DEF Within
    <3> QED BY <2>8, <2>9, <3>1, OnlyPiece
  <2>15. TextOf(qx, o, a2) = Join(TextOf(q, o, a), m)
    <3>1. TextOf(qx, o, a2) = SubSeq(a2, z.start + 1, Len(a2))
      <4>1. TextOf(qx, o, a2) = ReadPiece(x, o, a2)
        BY <2>9, <2>14, OnlyPiece
      <4>2. x.start + x.len = Len(a2)
        BY <2>e, <2>f, <2>8
      <4> QED BY <2>8, <2>n, <4>1, <4>2 DEF ReadPiece
    <3>2. /\ z.start + 1 \in 1..Len(a2) + 1 /\ Len(a) \in (z.start + 1) - 1..Len(a2)
          /\ Len(a2) \in Len(a)..Len(a2)
      BY <2>e, <2>f, <2>n
    <3>3. SubSeq(a2, z.start + 1, Len(a)) \o SubSeq(a2, Len(a) + 1, Len(a2)) = SubSeq(a2, z.start + 1, Len(a2))
      BY <3>2, ConcatAdjacentSubSeq
    <3>4. SubSeq(a2, Len(a) + 1, Len(a2)) = m
      BY <1>3, Halves, ZenonT(40)
    <3> QED BY <2>12, <2>13, <3>1, <3>3, <3>4 DEF Join
  <2>16. /\ Join(b, qx) \in Seq(APiece) /\ InRange(Join(b, qx), o, a2)
         /\ TextOf(Join(b, qx), o, a2) = Join(TextOf(b, o, a2), TextOf(qx, o, a2))
    BY <2>11, <2>14, JoinReads
  <2>17. SubSeq(t, 1, off) = t /\ SubSeq(t, off + 1, Len(t)) = << >>
    BY <2>6, SubSeqFull
  <2>18. TextOf(b, o, a) \in Seq(Nat) /\ TextOf(q, o, a) \in Seq(Nat)
    BY <2>7, LenOfText
  <2>19. Join(TextOf(b, o, a), Join(TextOf(q, o, a), m)) = Join(t, m)
    BY <2>7, <2>18, Joint
  <2>20. Join(Join(t, m), << >>) = Join(t, m)
    BY Joint, NothingJoins
  <2> QED BY <2>10, <2>11, <2>15, <2>16, <2>17, <2>19, <2>20
<1> HIDE DEF merge, new
<1>8. /\ new \in Seq(APiece) /\ InRange(new, o, a2)
      /\ TextOf(new, o, a2) = Join(Join(SubSeq(t, 1, off), m), SubSeq(t, off + 1, Len(t)))
  BY <1>6, <1>7
<1> QED BY <1>1, <1>2, <1>3, <1>8 DEF new

\* Delete leaves out what it deletes.
LEMMA DeleteReads ==
  ASSUME NEW ps \in Seq(APiece), NEW off \in 0..Total(ps), NEW n \in Nat, off + n <= Total(ps),
         NEW o \in Seq(Nat), NEW a \in Seq(Nat), InRange(ps, o, a)
  PROVE  LET t == TextOf(ps, o, a)  new == Delete(ps, off, n) IN
         /\ new \in Seq(APiece) /\ InRange(new, o, a)
         /\ TextOf(new, o, a) = Join(SubSeq(t, 1, off), SubSeq(t, off + n + 1, Len(t)))
<1>0. Total(ps) \in Nat
  BY TotalNat
<1>1. PICK d \in 0..Total(ps) : d = off + n
  BY <1>0
<1>2. PICK l \in Seq(APiece) :
        /\ l = Upto(ps, off) /\ InRange(l, o, a)
        /\ TextOf(l, o, a) = SubSeq(TextOf(ps, o, a), 1, off)
  BY Cut
<1>3. PICK r \in Seq(APiece) :
        /\ r = From(ps, d) /\ InRange(r, o, a)
        /\ TextOf(r, o, a) = SubSeq(TextOf(ps, o, a), d + 1, Len(TextOf(ps, o, a)))
  BY Cut
<1>4. Delete(ps, off, n) = Join(l, r)
  BY <1>1, <1>2, <1>3 DEF Delete, Join
<1>5. /\ Join(l, r) \in Seq(APiece) /\ InRange(Join(l, r), o, a)
      /\ TextOf(Join(l, r), o, a) = Join(TextOf(l, o, a), TextOf(r, o, a))
  <2>1. InRange(l, o, a) /\ InRange(r, o, a)
    BY <1>2, <1>3
  <2> QED BY <2>1, JoinReads
<1> QED BY <1>1, <1>2, <1>3, <1>4, <1>5

\* One piece over a buffer reads the buffer.
LEMMA WholeReads ==
  ASSUME NEW w \in Seq(Nat), NEW a \in Seq(Nat)
  PROVE  /\ WholeFile(w) \in Seq(APiece) /\ InRange(WholeFile(w), w, a)
         /\ TextOf(WholeFile(w), w, a) = w
<1>1. CASE w = << >>
  <2>1. WholeFile(w) = << >>
    BY <1>1 DEF WholeFile
  <2> QED BY <1>1, <2>1, NoPieces
<1>2. CASE w # << >>
  <2>0. Len(w) \in Nat \ {0} /\ 0 \in Nat
    BY <1>2, EmptySeq
  <2>1. PICK p \in APiece : p = Piece("orig", 0, Len(w)) /\ p.buf = "orig" /\ p.start = 0 /\ p.len = Len(w)
    BY <2>0, MadeOf
  <2>2. PICK q \in Seq(APiece) : Only(q, p)
    BY Onlys
  <2>3. WholeFile(w) = q
    BY <1>2, <2>1, <2>2 DEF WholeFile, Only
  <2>5. InRange(q, w, a)
    BY <2>0, <2>1, <2>2, OnlyPiece DEF Within
  <2>6. ReadPiece(p, w, a) = w
    <3>1. ReadPiece(p, w, a) = SubSeq(w, 0 + 1, Len(w))
      BY <2>0, <2>1 DEF ReadPiece
    <3> QED BY <3>1, SubSeqFull
  <2> QED BY <2>2, <2>3, <2>5, <2>6, OnlyPiece
<1> QED BY <1>1, <1>2

\* One piece over what is added reads what was added.
LEMMA AddedReads ==
  ASSUME NEW m \in Seq(Nat), NEW o \in Seq(Nat), NEW a \in Seq(Nat)
  PROVE  LET new == IF m = <<>> THEN <<>> ELSE <<Piece("add", Len(a), Len(m))>> IN
         /\ new \in Seq(APiece) /\ InRange(new, o, Join(a, m))
         /\ TextOf(new, o, Join(a, m)) = m
<1>0. PICK a2 \in Seq(Nat) : a2 = Join(a, m) /\ Len(a2) = Len(a) + Len(m)
  BY Joint
<1> DEFINE new == IF m = <<>> THEN <<>> ELSE <<Piece("add", Len(a), Len(m))>>
<1>1. ASSUME m = << >>
      PROVE  new \in Seq(APiece) /\ InRange(new, o, a2) /\ TextOf(new, o, a2) = m
  <2>1. new = << >>
    BY <1>1
  <2> QED BY <1>1, <2>1, NoPieces
<1>2. ASSUME m # << >>
      PROVE  new \in Seq(APiece) /\ InRange(new, o, a2) /\ TextOf(new, o, a2) = m
  <2>0. Len(m) \in Nat \ {0} /\ Len(a) \in Nat
    BY <1>2, EmptySeq
  <2>1. PICK p \in APiece : p = Piece("add", Len(a), Len(m)) /\ p.buf = "add" /\ p.start = Len(a) /\ p.len = Len(m)
    BY <2>0, MadeOf
  <2>2. PICK q \in Seq(APiece) : Only(q, p)
    BY Onlys
  <2>4. InRange(q, o, a2)
    <3>1. Len(a2) = Len(a) + Len(m)
      BY <1>0
    <3>2. p.start + p.len <= Len(a2)
      BY <2>0, <2>1, <3>1
    <3> QED BY <2>1, <2>2, <3>2, OnlyPiece DEF Within
  <2>5. ReadPiece(p, o, a2) = m
    <3>1. SubSeq(a2, Len(a) + 1, Len(a2)) = m
      BY <1>0, Halves
    <3> QED BY <1>0, <2>0, <2>1, <3>1 DEF ReadPiece
  <2>6. new = q
    BY <1>2, <2>1, <2>2 DEF Only
  <2>7. TextOf(q, o, a2) = m
    BY <2>2, <2>4, <2>5, OnlyPiece
  <2> HIDE DEF new
  <2> QED BY <2>4, <2>6, <2>7
<1>3. new \in Seq(APiece) /\ InRange(new, o, a2) /\ TextOf(new, o, a2) = m
  BY <1>1, <1>2
<1> QED BY <1>0, <1>3

-----------------------------------------------------------------------------
(***************************************************************************)
(* Typed bytes written over the file in place                              *)
(***************************************************************************)
LEMMA SizeMono ==
  ASSUME NEW ps \in Seq(APiece), NEW j \in 0..Len(ps), NEW i \in 0..j
  PROVE  Size(ps, i) <= Size(ps, j) /\ Size(ps, i) \in Nat /\ Size(ps, j) \in Nat
<1> DEFINE S == {n \in 0..j : n >= i => Size(ps, i) <= Size(ps, n)}
<1>0. Len(ps) \in Nat /\ i \in 0..Len(ps)
  OBVIOUS
<1>1. Size(ps, i) \in Nat /\ Size(ps, j) \in Nat
  BY <1>0, SizeNat
<1>2. 0 \in S
  <2>1. 0 >= i => i = 0
    OBVIOUS
  <2> QED BY <1>1, <2>1
<1>3. ASSUME NEW n \in 0..(j - 1), n \in S PROVE n + 1 \in S
  <2>1. n + 1 \in 1..Len(ps) /\ (n + 1) - 1 = n /\ n + 1 \in 0..j
    OBVIOUS
  <2>2. Size(ps, n + 1) = Size(ps, n) + ps[n + 1].len /\ Size(ps, n) \in Nat /\ ps[n + 1].len \in Nat
    BY <2>1, SizeStep
  <2>3. CASE n >= i
    BY <1>1, <1>3, <2>1, <2>2, <2>3
  <2>4. CASE ~ (n >= i)
    <3>1. n + 1 >= i => n + 1 = i
      BY <2>4
    <3> QED BY <1>1, <2>1, <3>1
  <2> QED BY <2>3, <2>4
<1> HIDE DEF S
<1>4. 0..j \subseteq S
  BY <1>2, <1>3, Climb
<1>5. j \in S
  BY <1>4
<1> QED BY <1>1, <1>5 DEF S

\* Every byte of the text is some piece's.
LEMMA InPiece ==
  ASSUME NEW ps \in Seq(APiece), NEW i \in 1..Total(ps)
  PROVE  \E j \in 1..Len(ps) : Size(ps, j - 1) < i /\ i <= Size(ps, j)
<1>0. Total(ps) \in Nat
  BY TotalNat
<1>1. PICK off \in 0..Total(ps) : off = i - 1
  BY <1>0
<1>2. PICK j : j = PiecesBefore(ps, off)
  OBVIOUS
<1>3. j \in 0..Len(ps) /\ Size(ps, j) <= off /\ (j < Len(ps) => Size(ps, j + 1) > off)
  BY <1>2, Place
<1>4. j # Len(ps)
  <2>1. j = Len(ps) => Size(ps, j) = Total(ps)
    BY DEF Total
  <2> QED BY <1>0, <1>1, <1>3, <2>1
<1>5. j + 1 \in 1..Len(ps) /\ (j + 1) - 1 = j
  BY <1>3, <1>4
<1>6. Size(ps, j) \in Nat /\ Size(ps, j + 1) \in Nat /\ Size(ps, j + 1) > off
  BY <1>3, <1>4, <1>5, SizeNat
<1>7. Size(ps, j) < i /\ i <= Size(ps, j + 1)
  BY <1>0, <1>1, <1>3, <1>6
<1> QED BY <1>5, <1>7

\* A byte is in one piece only.
LEMMA OnePlace ==
  ASSUME NEW ps \in Seq(APiece), NEW i \in Nat, NEW j \in 1..Len(ps), NEW l \in 1..Len(ps),
         Size(ps, j - 1) < i, i <= Size(ps, j), Size(ps, l - 1) < i, i <= Size(ps, l)
  PROVE  j = l
<1>1. j - 1 \in 0..Len(ps) /\ l - 1 \in 0..Len(ps) /\ j \in 0..Len(ps) /\ l \in 0..Len(ps)
  OBVIOUS
<1>2. Size(ps, j - 1) \in Nat /\ Size(ps, l - 1) \in Nat /\ Size(ps, j) \in Nat /\ Size(ps, l) \in Nat
  BY <1>1, SizeNat
<1>3. j <= l - 1 => Size(ps, j) <= Size(ps, l - 1)
  <2>1. j <= l - 1 => j \in 0..(l - 1)
    OBVIOUS
  <2> QED BY <1>1, <2>1, SizeMono
<1>4. l <= j - 1 => Size(ps, l) <= Size(ps, j - 1)
  <2>1. l <= j - 1 => l \in 0..(j - 1)
    OBVIOUS
  <2> QED BY <1>1, <2>1, SizeMono
<1>5. ~ (j <= l - 1) /\ ~ (l <= j - 1)
  BY <1>2, <1>3, <1>4
<1> QED BY <1>5

\* A file cut, or filled with zeros, to a length.
LEMMA TruncatedIs ==
  ASSUME NEW s \in Seq(Nat), NEW n \in Nat
  PROVE  /\ Truncated(s, n) \in Seq(Nat) /\ Len(Truncated(s, n)) = n
         /\ \A i \in 1..n : i <= Len(s) => Truncated(s, n)[i] = s[i]
<1> DEFINE f == [i \in 1..n |-> IF i <= Len(s) THEN s[i] ELSE 0]
<1>1. \A i \in 1..n : (IF i <= Len(s) THEN s[i] ELSE 0) \in Nat
  BY ElementOfSeq
<1>2. f \in [1..n -> Nat]
  BY <1>1
<1>3. f \in Seq(Nat) /\ DOMAIN f = 1..n
  BY <1>2, SeqDef
<1>4. Len(f) = n
  <2> HIDE DEF f
  <2> QED BY <1>3, LenProperties
<1>5. Truncated(s, n) = f
  BY DEF Truncated
<1>6. \A i \in 1..n : i <= Len(s) => f[i] = s[i]
  OBVIOUS
<1> QED BY <1>3, <1>4, <1>5, <1>6

\* What the first k pieces add to the file.
Added(k, i) == \E j \in 1..k : /\ pieces[j].buf = "add"
                               /\ Size(pieces, j - 1) < i /\ i <= Size(pieces, j)

\* The end PatchInPlace leaves the file at exists.
LEMMA OverlayEnds ==
  ASSUME pieces \in Seq(APiece), disk \in Seq(Nat), NEW k \in 0..Len(pieces)
  PROVE  \E n \in Len(disk)..Len(disk) + Size(pieces, k) :
           /\ n = Len(disk) \/ Added(k, n)
           /\ \A m \in n + 1..Size(pieces, k) : ~ Added(k, m)
<1>1. PICK d \in Nat, z \in Nat : d = Len(disk) /\ z = Size(pieces, k)
  BY SizeNat
<1> DEFINE T == {n \in d..d + z : \A m \in n + 1..z : ~ Added(k, m)}
<1>2. d + z \in T /\ T \in SUBSET Nat
  OBVIOUS
<1>3. PICK x \in T : \A y \in T : x <= y
  BY <1>2, Least
<1>4. x \in d..d + z /\ \A m \in x + 1..z : ~ Added(k, m)
  OBVIOUS
<1>5. x = d \/ Added(k, x)
  <2>1. SUFFICES ASSUME x # d, ~ Added(k, x) PROVE FALSE
    OBVIOUS
  <2>2. x - 1 \in d..d + z /\ ~ (x <= x - 1)
    BY <1>4, <2>1
  <2>3. \A m \in (x - 1) + 1..z : m = x \/ m \in x + 1..z
    BY <1>4
  <2>4. x - 1 \in T
    BY <1>4, <2>1, <2>2, <2>3
  <2> HIDE DEF T
  <2> QED BY <1>3, <2>2, <2>4
<1> QED BY <1>1, <1>4, <1>5

\* The file after k pieces: added bytes over the bytes there were.
LEMMA Overlays ==
  ASSUME pieces \in Seq(APiece), add \in Seq(Nat), orig \in Seq(Nat), disk \in Seq(Nat),
         NEW t \in Seq(Nat), NEW k \in 0..Len(pieces), InPlace,
         InRange(pieces, orig, add), Text = t,
         InRange(pieces, disk, add), TextOf(pieces, disk, add) = t
  PROVE  \E v \in Seq(Nat) :
           /\ v = Overlaid(k) /\ Len(disk) <= Len(v)
           /\ \A i \in 1..Len(v) : v[i] = IF Added(k, i) THEN t[i] ELSE IF i <= Len(disk) THEN disk[i] ELSE 0
           /\ \A i \in 1..Len(v) : Added(k, i) => i \in 1..Len(t)
           /\ \A i \in Nat : Added(k, i) => i <= Len(v)
           /\ Len(v) = Len(disk) \/ Len(v) <= Len(t)
<1>1. Len(t) = Total(pieces) /\ Total(pieces) \in Nat /\ Len(disk) \in Nat
  BY LenOfText, TotalNat DEF Text
<1>2. PICK z \in Nat : z = Size(pieces, k) /\ z <= Total(pieces)
  <2>1. Len(pieces) \in 0..Len(pieces)
    OBVIOUS
  <2>2. Size(pieces, k) <= Size(pieces, Len(pieces)) /\ Size(pieces, k) \in Nat
    BY <2>1, SizeMono
  <2> QED BY <2>2 DEF Total
<1>3. ASSUME NEW i \in Nat, Added(k, i) PROVE i \in 1..Len(t) /\ i <= z
  <2>1. PICK j \in 1..k : Size(pieces, j - 1) < i /\ i <= Size(pieces, j)
    BY <1>3 DEF Added
  <2>2. j \in 0..k /\ j - 1 \in 0..Len(pieces)
    OBVIOUS
  <2>3. Size(pieces, j) <= Size(pieces, k) /\ Size(pieces, j) \in Nat /\ Size(pieces, j - 1) \in Nat
    BY <2>2, SizeMono, SizeNat
  <2> QED BY <1>1, <1>2, <1>3, <2>1, <2>3, SMTT(40)
<1> DEFINE P(n) == /\ n = Len(disk) \/ Added(k, n)
                   /\ \A m \in n + 1..Size(pieces, k) : ~ Added(k, m)
           end == CHOOSE n \in Len(disk)..Len(disk) + Size(pieces, k) : P(n)
           v == [i \in 1..end |-> IF Added(k, i) THEN t[i] ELSE IF i <= Len(disk) THEN disk[i] ELSE 0]
<1>4. end \in Len(disk)..Len(disk) + Size(pieces, k) /\ P(end)
  <2>1. \E n \in Len(disk)..Len(disk) + Size(pieces, k) : P(n)
    BY OverlayEnds
  <2> HIDE DEF P
  <2> QED BY <2>1
<1>5. v = Overlaid(k)
  BY DEF Overlaid, Added, Text
<1> HIDE DEF end
<1>e. PICK e \in Nat : e = end /\ e \in Len(disk)..Len(disk) + z /\ P(e)
  <2>1. end \in Len(disk)..Len(disk) + z /\ end \in Nat
    BY <1>1, <1>2, <1>4
  <2> HIDE DEF P
  <2> QED BY <1>4, <2>1
<1>p. (e = Len(disk) \/ Added(k, e)) /\ \A m \in e + 1..z : ~ Added(k, m)
  <2>1. P(e)
    BY <1>e
  <2>2. (e = Len(disk) \/ Added(k, e)) /\ \A m \in e + 1..Size(pieces, k) : ~ Added(k, m)
    BY <2>1
  <2> QED BY <1>2, <2>2
<1> HIDE DEF P
<1>6. ASSUME NEW i \in 1..e
      PROVE  (IF Added(k, i) THEN t[i] ELSE IF i <= Len(disk) THEN disk[i] ELSE 0) \in Nat
  <2>0. i \in Nat
    OBVIOUS
  <2>1. Added(k, i) => i \in 1..Len(t)
    BY <2>0, <1>3
  <2>2. i <= Len(disk) => i \in 1..Len(disk)
    BY <1>1
  <2> QED BY <2>1, <2>2, ElementOfSeq
<1>7. v \in [1..e -> Nat]
  BY <1>6, <1>e
<1>9. \A i \in 1..e : v[i] = IF Added(k, i) THEN t[i] ELSE IF i <= Len(disk) THEN disk[i] ELSE 0
  BY <1>e
<1> HIDE DEF v
<1>8. v \in Seq(Nat) /\ DOMAIN v = 1..e
  BY <1>7, SeqDef
<1>10. Len(v) = e
  BY <1>8, LenProperties
<1>11. Len(disk) <= e /\ (e = Len(disk) \/ e <= Len(t))
  <2>1. Len(disk) <= e
    BY <1>1, <1>2, <1>e
  <2>2. e = Len(disk) \/ Added(k, e)
    BY <1>p
  <2>3. Added(k, e) => e <= Len(t)
    BY <1>1, <1>3
  <2> QED BY <2>1, <2>2, <2>3
<1>12. ASSUME NEW i \in Nat, Added(k, i) PROVE i <= e
  <2>1. i <= z
    BY <1>3, <1>12
  <2>2. \A m \in e + 1..z : ~ Added(k, m)
    BY <1>p
  <2> QED BY <1>12, <2>1, <2>2
<1>13. ASSUME NEW i \in 1..e, Added(k, i) PROVE i \in 1..Len(t)
  <2>1. i \in Nat
    OBVIOUS
  <2> QED BY <1>3, <1>13, <2>1
<1> QED BY <1>5, <1>8, <1>9, <1>10, <1>11, <1>12, <1>13

\* What a patch in place leaves on the disk: under the pieces the bytes are
\* those of before, a text that was saved stays as it was, and when all pieces
\* are written the file is the text.
LEMMA Patched ==
  ASSUME pieces \in Seq(APiece), add \in Seq(Nat), orig \in Seq(Nat), disk \in Seq(Nat),
         NEW t \in Seq(Nat), NEW k \in 0..Len(pieces), InPlace,
         InRange(pieces, orig, add), Text = t,
         InRange(pieces, disk, add), TextOf(pieces, disk, add) = t
  PROVE  \E v \in Seq(Nat) :
           /\ v = Overlaid(k)
           /\ InRange(pieces, v, add) /\ TextOf(pieces, v, add) = t
           /\ disk = t => v = disk
           /\ k = Len(pieces) => /\ Truncated(v, Total(pieces)) = t
                                 /\ InRange(pieces, t, add) /\ TextOf(pieces, t, add) = t
<1>1. PICK v \in Seq(Nat) :
           /\ v = Overlaid(k) /\ Len(disk) <= Len(v)
           /\ \A i \in 1..Len(v) : v[i] = IF Added(k, i) THEN t[i] ELSE IF i <= Len(disk) THEN disk[i] ELSE 0
           /\ \A i \in 1..Len(v) : Added(k, i) => i \in 1..Len(t)
           /\ \A i \in Nat : Added(k, i) => i <= Len(v)
           /\ Len(v) = Len(disk) \/ Len(v) <= Len(t)
  BY Overlays
<1>2. Len(t) = Total(pieces) /\ Total(pieces) \in Nat /\ Len(disk) \in Nat /\ Len(v) \in Nat
  BY LenOfText, TotalNat DEF Text
<1>3. DOMAIN pieces = 1..Len(pieces)
  OBVIOUS
<1>4. ASSUME NEW j \in 1..Len(pieces), pieces[j].buf = "orig", NEW x \in 1..pieces[j].len
      PROVE  /\ pieces[j].start + x = Size(pieces, j - 1) + x
             /\ Size(pieces, j - 1) + x \in 1..Len(disk)
             /\ Size(pieces, j - 1) < Size(pieces, j - 1) + x
             /\ Size(pieces, j - 1) + x <= Size(pieces, j)
  <2>0. PICK p \in APiece : p = pieces[j]
    BY ElementOfSeq
  <2>1. pieces[j].start = Size(pieces, j - 1)
    BY <1>4 DEF InPlace
  <2>2. p.start + p.len <= Len(disk)
    BY <1>3, <1>4, <2>0 DEF InRange, Within
  <2>3. Size(pieces, j) = Size(pieces, j - 1) + pieces[j].len /\ Size(pieces, j - 1) \in Nat
    BY SizeStep
  <2>4. PICK s \in Nat, n \in Nat : s = Size(pieces, j - 1) /\ n = pieces[j].len
    BY <2>0, <2>3 DEF APiece
  <2>5. s + n <= Len(disk) /\ x \in 1..n /\ Size(pieces, j) = s + n
    BY <2>0, <2>1, <2>2, <2>3, <2>4
  <2>6. s + x \in 1..Len(disk) /\ s < s + x /\ s + x <= s + n
    BY <1>2, <2>5, InBuffer
  <2> QED BY <2>1, <2>4, <2>5, <2>6
<1>5. ASSUME NEW j \in 1..Len(pieces), pieces[j].buf = "orig", NEW x \in 1..pieces[j].len
      PROVE  v[pieces[j].start + x] = disk[pieces[j].start + x] /\ ~ Added(k, Size(pieces, j - 1) + x)
  <2>1. PICK i \in 1..Len(disk) :
          /\ i = Size(pieces, j - 1) + x /\ i = pieces[j].start + x
          /\ Size(pieces, j - 1) < i /\ i <= Size(pieces, j)
    BY <1>4, <1>5
  <2>2. ~ Added(k, i)
    <3>1. SUFFICES ASSUME NEW l \in 1..k, pieces[l].buf = "add",
                          Size(pieces, l - 1) < i, i <= Size(pieces, l)
                   PROVE  FALSE
      BY DEF Added
    <3>2. l \in 1..Len(pieces)
      OBVIOUS
    <3>3. l = j
      BY <2>1, <3>1, <3>2, OnePlace
    <3> QED BY <1>5, <3>1, <3>3
  <2>3. i \in 1..Len(v) /\ i <= Len(disk)
    BY <1>1, <1>2
  <2>4. v[i] = disk[i]
    BY <1>1, <2>2, <2>3
  <2> QED BY <2>1, <2>2, <2>4
<1>6. InRange(pieces, v, add) /\ TextOf(pieces, v, add) = t
  <2>1. ASSUME NEW j \in 1..Len(pieces), pieces[j].buf = "orig"
        PROVE  /\ Within(pieces[j], v)
               /\ \A x \in 1..pieces[j].len : v[pieces[j].start + x] = disk[pieces[j].start + x]
    <3>0. PICK p \in APiece : p = pieces[j]
      BY ElementOfSeq
    <3>1. p.start + p.len <= Len(disk)
      BY <1>3, <2>1, <3>0 DEF InRange, Within
    <3>2. p.start \in Nat /\ p.len \in Nat
      BY DEF APiece
    <3>3. Len(disk) <= Len(v)
      BY <1>1
    <3>4. p.start + p.len <= Len(v)
      BY <1>2, <3>1, <3>2, <3>3
    <3> QED BY <1>5, <2>1, <3>0, <3>4 DEF Within
  <2>2. InRange(pieces, v, add) /\ TextOf(pieces, v, add) = TextOf(pieces, disk, add)
    <3>1. Agrees(pieces, disk, v)
      BY <2>1 DEF Agrees
    <3> QED BY <3>1, SameOriginal
  <2> QED BY <2>2
<1>7. ASSUME disk = t PROVE v = disk
  <2>1. Len(v) = Len(disk)
    BY <1>1, <1>2, <1>7
  <2>2. ASSUME NEW i \in 1..Len(v) PROVE v[i] = disk[i]
    <3>1. i <= Len(disk)
      BY <1>2, <2>1
    <3> QED BY <1>1, <1>7, <3>1
  <2> QED BY <2>1, <2>2, SeqEqual
<1>8. ASSUME k = Len(pieces) PROVE Truncated(v, Total(pieces)) = t
  <2>0. PICK u \in Seq(Nat) : /\ u = Truncated(v, Total(pieces)) /\ Len(u) = Total(pieces)
                              /\ \A i \in 1..Total(pieces) : i <= Len(v) => u[i] = v[i]
    BY <1>2, TruncatedIs
  <2>1. ASSUME NEW i \in 1..Len(u) PROVE u[i] = t[i]
    <3>0. i \in 1..Total(pieces) /\ i \in Nat
      BY <1>2, <2>0
    <3>1. PICK j \in 1..Len(pieces) : Size(pieces, j - 1) < i /\ i <= Size(pieces, j)
      BY <3>0, InPiece
    <3>2. ASSUME Added(k, i) PROVE i \in 1..Len(v) /\ v[i] = t[i]
      <4>1. i <= Len(v)
        BY <1>1, <3>0, <3>2
      <4>2. i \in 1..Len(v)
        BY <1>2, <3>0, <4>1
      <4> QED BY <1>1, <3>2, <4>2
    <3>3. ASSUME ~ Added(k, i) PROVE i \in 1..Len(v) /\ v[i] = t[i]
      <4>0. PICK p \in APiece : p = pieces[j]
        BY ElementOfSeq
      <4>1. pieces[j].buf = "orig"
        <5>1. p.buf # "add"
          BY <1>8, <3>1, <3>3, <4>0 DEF Added
        <5> QED BY <4>0, <5>1 DEF APiece
      <4>2. Size(pieces, j) = Size(pieces, j - 1) + pieces[j].len /\ Size(pieces, j - 1) \in Nat /\ pieces[j].len \in Nat
        BY SizeStep
      <4>3. PICK x \in 1..pieces[j].len : i = Size(pieces, j - 1) + x
        <5>1. PICK s \in Nat, n \in Nat : s = Size(pieces, j - 1) /\ n = pieces[j].len
          BY <4>2
        <5>2. s < i /\ i <= s + n
          BY <3>1, <4>2, <5>1
        <5>3. i - s \in 1..n /\ i = s + (i - s)
          BY <3>0, <5>2
        <5> QED BY <5>1, <5>3
      <4>4. pieces[j].start + x = i /\ i \in 1..Len(disk) /\ v[i] = disk[i]
        BY <1>4, <1>5, <4>1, <4>3
      <4>5. t[i] = ReadPiece(pieces[j], disk, add)[x]
        BY <4>3, PieceAt, SMTT(40)
      <4>6. ReadPiece(pieces[j], disk, add)[x] = disk[pieces[j].start + x]
        <5>1. p.buf # "add" /\ Within(p, IF p.buf = "add" THEN add ELSE disk)
          BY <1>3, <4>0, <4>1 DEF InRange
        <5>3. Within(p, IF p.buf = "add" THEN add ELSE disk)
          BY <5>1
        <5>2. \A y \in 1..p.len : ReadPiece(p, disk, add)[y] = (IF p.buf = "add" THEN add ELSE disk)[p.start + y]
          BY <5>3, PieceReads
        <5> QED BY <4>0, <5>1, <5>2
      <4>7. i \in 1..Len(v)
        BY <1>1, <1>2, <4>4
      <4> QED BY <4>4, <4>5, <4>6, <4>7
    <3>4. i \in 1..Len(v) /\ v[i] = t[i]
      BY <3>2, <3>3
    <3> QED BY <1>2, <2>0, <3>0, <3>4, SMTT(40)
  <2>2. u = t
    BY <1>2, <2>0, <2>1, SeqEqual
  <2> QED BY <2>0, <2>2
<1>9. ASSUME k = Len(pieces) PROVE InRange(pieces, t, add) /\ TextOf(pieces, t, add) = t
  <2>a. PICK u \in Seq(Nat) : /\ u = Truncated(v, Total(pieces)) /\ Len(u) = Total(pieces)
                              /\ \A i \in 1..Total(pieces) : i <= Len(v) => u[i] = v[i]
    BY <1>2, TruncatedIs
  <2>b. u = t
    BY <1>8, <1>9, <2>a
  <2>1. /\ t \in Seq(Nat) /\ Len(t) = Total(pieces)
        /\ \A i \in 1..Total(pieces) : i <= Len(v) => t[i] = v[i]
    BY <2>a, <2>b
  <2>2. ASSUME NEW j \in 1..Len(pieces), pieces[j].buf = "orig"
        PROVE  /\ Within(pieces[j], t)
               /\ \A x \in 1..pieces[j].len : t[pieces[j].start + x] = v[pieces[j].start + x]
    <3>p. PICK p \in APiece : p = pieces[j]
      BY ElementOfSeq
    <3>n. PICK s \in Nat, n \in Nat : s = p.start /\ n = p.len
      BY DEF APiece
    <3>0. p = pieces[j] /\ s = p.start /\ n = p.len
      BY <3>p, <3>n
    <3>1. s + n <= Len(v)
      BY <1>3, <1>6, <2>2, <3>0 DEF InRange, Within
    <3>2. s + n <= Len(t)
      <4>1. Size(pieces, j) = Size(pieces, j - 1) + pieces[j].len /\ Size(pieces, j - 1) \in Nat
        BY SizeStep
      <4>2. pieces[j].start = Size(pieces, j - 1)
        BY <2>2 DEF InPlace
      <4>3. j \in 0..Len(pieces) /\ Len(pieces) \in 0..Len(pieces)
        OBVIOUS
      <4>4. Size(pieces, j) <= Total(pieces)
        BY <4>3, SizeMono DEF Total
      <4> QED BY <1>2, <3>0, <4>1, <4>2, <4>4
    <3>3. ASSUME NEW x \in 1..n PROVE t[s + x] = v[s + x]
      <4>1. s + x \in 1..Total(pieces) /\ s + x <= Len(v)
        BY <1>2, <3>1, <3>2, SMTT(40)
      <4> QED BY <2>1, <4>1
    <3> QED BY <3>0, <3>2, <3>3 DEF Within
  <2>3. Agrees(pieces, v, t)
    BY <2>2 DEF Agrees
  <2>4. InRange(pieces, t, add) /\ TextOf(pieces, t, add) = TextOf(pieces, v, add)
    BY <1>6, <2>3, SameOriginal
  <2> QED BY <1>6, <2>4
<1> QED BY <1>1, <1>6, <1>7, <1>8, <1>9

-----------------------------------------------------------------------------
(***************************************************************************)
(* The invariant                                                           *)
(***************************************************************************)
\* A list of pieces reads as a text over an original and what was added.
Reads(ps, t, o, a) == InRange(ps, o, a) /\ TextOf(ps, o, a) = t

States == [pieces: Seq(APiece), text: Seq(Nat), gen: Nat]
Jobs == {"no", "patch", "stage", "release", "copyover", "rename", "reopen"}

\* A state of the history is of a table before this one, or reads as its text,
\* over what the table reads as well as over the file it was made for.
StateReads(st, g, o, d, a, b) ==
  /\ st.gen <= g
  /\ st.gen = g /\ b = d => Reads(st.pieces, st.text, o, a) /\ Reads(st.pieces, st.text, d, a)
StackReads(s, g, o, d, a, b) == \A i \in 1..Len(s) : StateReads(s[i], g, o, d, a, b)

Types ==
  /\ env \in Environs /\ env \in Environ
  /\ pieces \in Seq(APiece) /\ add \in Seq(Nat) /\ orig \in Seq(Nat)
  /\ backing \in {"mapping", "chunks", "copy", "loading"}
  /\ lastOp \in {"typing", "other", "none"} /\ modified \in BOOLEAN /\ textLost \in BOOLEAN
  /\ job \in Jobs /\ conv \in BOOLEAN
  /\ disk \in Seq(Nat) /\ shown \in Seq(Nat) /\ base \in {disk, NoStage}
  /\ gen \in Nat /\ edits \in Nat

Stacks ==
  /\ undo \in Seq(States) /\ redo \in Seq(States) /\ Len(undo) + Len(redo) <= MaxUndo
  /\ StackReads(undo, gen, orig, disk, add, base)
  /\ StackReads(redo, gen, orig, disk, add, base)

\* The table reads as the text, and so it would over the file it was made for;
\* unless a remote file was replaced, by the text.
TableReads ==
  /\ Bounded(pieces, add)
  /\ ~ ReplacedUnderneath => Reads(pieces, shown, orig, add)
  /\ base = disk => Reads(pieces, shown, disk, add)
  /\ ReplacedUnderneath => disk = shown /\ job \in {"no", "reopen"}

\* What a save has reached.
Staged ==
  /\ stage = IF job \in {"release", "copyover", "rename"} THEN shown ELSE NoStage
  /\ job = "patch" /\ ~ conv => base = disk
  /\ job = "copyover" => env.links /\ backing = "copy"
  /\ job = "rename" => ~ env.links
  /\ job = "reopen" => disk = shown

\* Only Windows lets go of the text, while the file is still the one it is of.
Backed ==
  /\ backing = "loading" =>
       env.frees /\ (textLost \/ (job = "rename" /\ base = disk) \/ job = "reopen")
  /\ textLost => env.frees /\ job = "no"
  /\ env.frees /\ backing = "chunks" => base = disk /\ job # "rename"

Saved == ~ modified => disk = shown \/ shown \in left

EditorInv == Types /\ Stacks /\ TableReads /\ Staged /\ Backed /\ Saved
-----------------------------------------------------------------------------
\* NoStage is no content of a file.
LEMMA NoStageIsNone ==
  ASSUME NEW s \in Seq(Nat)
  PROVE  s # NoStage
<1>1. SUFFICES ASSUME s = << -1 >> PROVE FALSE
  BY DEF NoStage
<1>2. Len(s) = 1 /\ s[1] = -1
  BY <1>1
<1>3. s[1] \in Nat
  BY <1>2, ElementOfSeq
<1> QED BY <1>2, <1>3

\* A list that reads as a text over two originals does so over what a table
\* may answer once the second took the place of the first.
LEMMA OrigMoves ==
  ASSUME NEW ps \in Seq(APiece), NEW t, NEW o \in Seq(Nat), NEW d \in Seq(Nat), NEW a \in Seq(Nat),
         Reads(ps, t, o, a), Reads(ps, t, d, a), NEW o2, o2 \in {o, d, Truncated(d, Len(o))}
  PROVE  Reads(ps, t, o2, a) /\ o2 \in Seq(Nat)
<1>1. CASE o2 = o
  BY <1>1
<1>2. CASE o2 = d
  BY <1>2
<1>3. CASE o2 = Truncated(d, Len(o))
  <2>0. Len(o) \in Nat /\ DOMAIN ps = 1..Len(ps)
    OBVIOUS
  <2>1. /\ o2 \in Seq(Nat) /\ Len(o2) = Len(o)
        /\ \A i \in 1..Len(o) : i <= Len(d) => o2[i] = d[i]
    BY <1>3, <2>0, TruncatedIs
  <2>2. ASSUME NEW j \in 1..Len(ps), ps[j].buf = "orig"
        PROVE  /\ Within(ps[j], o2)
               /\ \A x \in 1..ps[j].len : o2[ps[j].start + x] = d[ps[j].start + x]
    <3>p. PICK p \in APiece : p = ps[j]
      BY ElementOfSeq
    <3>n. PICK s \in Nat, n \in Nat : s = p.start /\ n = p.len
      BY DEF APiece
    <3>0. p = ps[j] /\ s = p.start /\ n = p.len
      BY <3>p, <3>n
    <3>1. s + n <= Len(o) /\ s + n <= Len(d)
      BY <2>0, <2>2, <3>0 DEF Reads, InRange, Within
    <3>2. ASSUME NEW x \in 1..n PROVE o2[s + x] = d[s + x]
      <4>1. s + x \in 1..Len(o) /\ s + x <= Len(d)
        BY <2>0, <3>1
      <4> QED BY <2>1, <4>1
    <3>3. s + n <= Len(o2)
      BY <2>1, <3>1
    <3> QED BY <3>0, <3>2, <3>3 DEF Within
  <2>3. Agrees(ps, d, o2)
    BY <2>2 DEF Agrees
  <2>4. InRange(ps, d, a) /\ TextOf(ps, d, a) = t
    BY DEF Reads
  <2>5. InRange(ps, o2, a) /\ TextOf(ps, o2, a) = TextOf(ps, d, a)
    BY <2>1, <2>3, <2>4, SameOriginal
  <2> QED BY <2>1, <2>4, <2>5 DEF Reads
<1> QED BY <1>1, <1>2, <1>3

\* The parts of a state.
LEMMA StateIs ==
  ASSUME NEW st \in States
  PROVE  st.pieces \in Seq(APiece) /\ st.text \in Seq(Nat) /\ st.gen \in Nat
BY DEF States

\* So does a stack.
LEMMA StackMoves ==
  ASSUME NEW s \in Seq(States), NEW g \in Nat, NEW o \in Seq(Nat), NEW d \in Seq(Nat), NEW a \in Seq(Nat), NEW b,
         StackReads(s, g, o, d, a, b), NEW o2, o2 \in {o, d, Truncated(d, Len(o))}
  PROVE  StackReads(s, g, o2, d, a, b)
<1>1. ASSUME NEW i \in 1..Len(s) PROVE StateReads(s[i], g, o2, d, a, b)
  <2>1. PICK st \in States : st = s[i]
    BY ElementOfSeq
  <2>2. StateReads(st, g, o, d, a, b)
    BY <2>1 DEF StackReads
  <2>3. st.pieces \in Seq(APiece)
    BY StateIs
  <2>4. ASSUME st.gen = g, b = d PROVE Reads(st.pieces, st.text, o2, a)
    <3>1. Reads(st.pieces, st.text, o, a) /\ Reads(st.pieces, st.text, d, a)
      BY <2>2, <2>4 DEF StateReads
    <3> QED BY <2>3, <3>1, OrigMoves
  <2>5. StateReads(st, g, o2, d, a, b)
    BY <2>2, <2>4 DEF StateReads
  <2> QED BY <2>1, <2>5
<1> QED BY <1>1 DEF StackReads

\* What is added to the table does not change what a state reads.
LEMMA StackGrows ==
  ASSUME NEW s \in Seq(States), NEW g \in Nat, NEW o \in Seq(Nat), NEW d \in Seq(Nat), NEW a \in Seq(Nat), NEW b,
         StackReads(s, g, o, d, a, b), NEW m \in Seq(Nat)
  PROVE  StackReads(s, g, o, d, Join(a, m), b)
<1>1. ASSUME NEW i \in 1..Len(s) PROVE StateReads(s[i], g, o, d, Join(a, m), b)
  <2>1. PICK st \in States : st = s[i]
    BY ElementOfSeq
  <2>2. StateReads(st, g, o, d, a, b)
    BY <2>1 DEF StackReads
  <2>3. st.pieces \in Seq(APiece)
    BY StateIs
  <2>4. ASSUME NEW p \in Seq(Nat), Reads(st.pieces, st.text, p, a) PROVE Reads(st.pieces, st.text, p, Join(a, m))
    <3>1. InRange(st.pieces, p, a) /\ TextOf(st.pieces, p, a) = st.text
      BY <2>4 DEF Reads
    <3>2. InRange(st.pieces, p, Join(a, m)) /\ TextOf(st.pieces, p, Join(a, m)) = TextOf(st.pieces, p, a)
      BY <2>3, <3>1, More
    <3> QED BY <3>1, <3>2 DEF Reads
  <2>5. StateReads(st, g, o, d, Join(a, m), b)
    BY <2>2, <2>4 DEF StateReads
  <2> QED BY <2>1, <2>5
<1> QED BY <1>1 DEF StackReads

\* A new table makes every state one of a table before it.
LEMMA StackAges ==
  ASSUME NEW s \in Seq(States), NEW g \in Nat, NEW o, NEW d, NEW a, NEW b, StackReads(s, g, o, d, a, b),
         NEW o2, NEW d2, NEW a2, NEW b2
  PROVE  StackReads(s, g + 1, o2, d2, a2, b2)
<1>1. ASSUME NEW i \in 1..Len(s) PROVE StateReads(s[i], g + 1, o2, d2, a2, b2)
  <2>1. PICK st \in States : st = s[i]
    BY ElementOfSeq
  <2>2. st.gen <= g /\ st.gen \in Nat
    BY <2>1, StateIs DEF StackReads, StateReads
  <2>3. st.gen <= g + 1 /\ st.gen # g + 1
    BY <2>2
  <2> QED BY <2>1, <2>3 DEF StateReads
<1> QED BY <1>1 DEF StackReads

\* A file that is not the table's keeps the stacks as they are.
LEMMA StackWaits ==
  ASSUME NEW s \in Seq(States), NEW g \in Nat, NEW o, NEW d, NEW a, NEW b, StackReads(s, g, o, d, a, b),
         NEW o2, NEW d2, NEW a2, NEW b2, b2 # d2
  PROVE  StackReads(s, g, o2, d2, a2, b2)
BY DEF StackReads, StateReads

\* A state that reads, put on a stack.
LEMMA StackPushes ==
  ASSUME NEW s \in Seq(States), NEW st \in States, NEW g, NEW o, NEW d, NEW a, NEW b,
         StackReads(s, g, o, d, a, b), StateReads(st, g, o, d, a, b)
  PROVE  /\ Append(s, st) \in Seq(States) /\ StackReads(Append(s, st), g, o, d, a, b)
         /\ Len(Append(s, st)) = Len(s) + 1
<1>1. /\ Append(s, st) \in Seq(States) /\ Len(Append(s, st)) = Len(s) + 1
      /\ \A i \in 1..Len(s) + 1 : Append(s, st)[i] = IF i <= Len(s) THEN s[i] ELSE st
  BY AppendProperties
<1> DEFINE u == Append(s, st)
<1>2. ASSUME NEW i \in 1..Len(s) + 1 PROVE StateReads(u[i], g, o, d, a, b)
  <2>1. CASE i <= Len(s)
    <3>1. i \in 1..Len(s) /\ u[i] = s[i]
      BY <1>1, <2>1
    <3> QED BY <3>1 DEF StackReads
  <2>2. CASE ~ (i <= Len(s))
    BY <1>1, <2>2
  <2> QED BY <2>1, <2>2
<1> QED BY <1>1, <1>2 DEF StackReads

\* The rest of a stack without its oldest state, and without its last.
LEMMA StackPops ==
  ASSUME NEW s \in Seq(States), s # << >>, NEW g, NEW o, NEW d, NEW a, NEW b,
         StackReads(s, g, o, d, a, b)
  PROVE  /\ Tail(s) \in Seq(States) /\ StackReads(Tail(s), g, o, d, a, b) /\ Len(Tail(s)) = Len(s) - 1
         /\ Front(s) \in Seq(States) /\ StackReads(Front(s), g, o, d, a, b) /\ Len(Front(s)) = Len(s) - 1
         /\ Last(s) \in States /\ StateReads(Last(s), g, o, d, a, b)
<1>0. Len(s) \in Nat \ {0}
  BY EmptySeq
<1>1. /\ Tail(s) \in Seq(States) /\ Len(Tail(s)) = Len(s) - 1
      /\ \A i \in 1..Len(Tail(s)) : Tail(s)[i] = s[i + 1]
  BY HeadTailProperties
<1>2. StackReads(Tail(s), g, o, d, a, b)
  <2>1. ASSUME NEW i \in 1..Len(Tail(s)) PROVE StateReads(Tail(s)[i], g, o, d, a, b)
    <3>1. i + 1 \in 1..Len(s) /\ Tail(s)[i] = s[i + 1]
      BY <1>0, <1>1
    <3> QED BY <3>1 DEF StackReads
  <2> QED BY <2>1 DEF StackReads
<1>3. PICK f \in Seq(States) : f = Front(s) /\ Len(f) = Len(s) - 1 /\ \A i \in 1..Len(s) - 1 : f[i] = s[i]
  <2>m. PICK m \in Nat \ {0} : m = Len(s)
    BY <1>0
  <2>o. PICK n \in Nat : n = m - 1
    OBVIOUS
  <2>n. n = Len(s) - 1 /\ n <= Len(s)
    BY <2>m, <2>o
  <2>s. SubSeq(s, 1, n) \in Seq(States) /\ Len(SubSeq(s, 1, n)) = n
        /\ \A i \in 1..n : SubSeq(s, 1, n)[i] = s[i]
    BY <1>0, <2>n
  <2>1. SubSeq(s, 1, Len(s) - 1) \in Seq(States) /\ Len(SubSeq(s, 1, Len(s) - 1)) = Len(s) - 1
        /\ \A i \in 1..Len(s) - 1 : SubSeq(s, 1, Len(s) - 1)[i] = s[i]
    BY <2>n, <2>s
  <2>2. Front(s) = SubSeq(s, 1, Len(s) - 1)
    BY DEF Front
  <2> QED BY <2>1, <2>2
<1>4. StackReads(f, g, o, d, a, b)
  <2>1. ASSUME NEW i \in 1..Len(f) PROVE StateReads(f[i], g, o, d, a, b)
    <3>1. i \in 1..Len(s) /\ f[i] = s[i]
      BY <1>0, <1>3
    <3> QED BY <3>1 DEF StackReads
  <2> QED BY <2>1 DEF StackReads
<1>5. Last(s) \in States /\ StateReads(Last(s), g, o, d, a, b)
  <2>1. Last(s) = s[Len(s)] /\ Len(s) \in 1..Len(s)
    BY <1>0 DEF Last
  <2> QED BY <2>1, ElementOfSeq DEF StackReads
<1> QED BY <1>1, <1>2, <1>3, <1>4, <1>5

-----------------------------------------------------------------------------
(***************************************************************************)
(* Editing keeps the invariant                                             *)
(***************************************************************************)
\* Where the file is as the table took it, the table reads as the text over both.
LEMMA NotReplaced ==
  ASSUME EditorInv
  PROVE  /\ base = disk => ~ ReplacedUnderneath
         /\ Local => ~ ReplacedUnderneath
         /\ job \notin {"no", "reopen"} => ~ ReplacedUnderneath
         /\ ~ ReplacedUnderneath => Reads(pieces, shown, orig, add)
         /\ base = disk => Reads(pieces, shown, disk, add)
         /\ ~ Local /\ ~ ReplacedUnderneath => base = disk
BY DEF EditorInv, TableReads, ReplacedUnderneath

\* The present, before it goes on a stack.
LEMMA Present ==
  ASSUME EditorInv, ~ ReplacedUnderneath
  PROVE  State \in States /\ StateReads(State, gen, orig, disk, add, base)
<1>1. pieces \in Seq(APiece) /\ shown \in Seq(Nat) /\ gen \in Nat
  BY DEF EditorInv, Types
<1>s. /\ State \in States
      /\ State.pieces = pieces /\ State.text = shown /\ State.gen = gen
  BY <1>1 DEF State, States
<1>2. PICK st \in States : st = State /\ st.pieces = pieces /\ st.text = shown /\ st.gen = gen
  BY <1>s
<1>3. base = disk => Reads(pieces, shown, orig, add) /\ Reads(pieces, shown, disk, add)
  BY NotReplaced
<1>4. gen <= gen
  BY <1>1
<1>5. StateReads(st, gen, orig, disk, add, base)
  BY <1>2, <1>3, <1>4, Zenon DEF StateReads
<1> QED BY <1>2, <1>5

\* saveUndo keeps the stacks within their limit, and what they hold reads.
LEMMA UndoSaved ==
  ASSUME EditorInv, ~ ReplacedUnderneath, NEW op \in {"typing", "other"}, SaveUndo(op), NEW m \in Seq(Nat)
  PROVE  /\ undo' \in Seq(States) /\ redo' \in Seq(States) /\ Len(undo') + Len(redo') <= MaxUndo
         /\ StackReads(undo', gen, orig, disk, Join(add, m), base)
         /\ StackReads(redo', gen, orig, disk, Join(add, m), base)
         /\ lastOp' \in {"typing", "other", "none"}
<1>1. /\ gen \in Nat /\ orig \in Seq(Nat) /\ disk \in Seq(Nat) /\ add \in Seq(Nat)
      /\ lastOp \in {"typing", "other", "none"}
  BY DEF EditorInv, Types
<1>2. /\ undo \in Seq(States) /\ redo \in Seq(States) /\ Len(undo) + Len(redo) <= MaxUndo
      /\ StackReads(undo, gen, orig, disk, add, base)
  BY DEF EditorInv, Stacks
<1>3. MaxUndo \in Nat
  BY BoundsAssumption
<1>4. PICK k \in Nat : k = Len(undo) /\ k <= MaxUndo
  BY <1>2, <1>3
<1>5. redo' = << >> /\ redo' \in Seq(States) /\ Len(redo') = 0 /\ StackReads(redo', gen, orig, disk, Join(add, m), base)
  <2>1. redo' = << >>
    BY DEF SaveUndo
  <2> QED BY <2>1 DEF StackReads
<1>6. CASE op = "typing" /\ lastOp = "typing" /\ undo # << >>
  <2>1. undo' = undo /\ lastOp' = lastOp
    BY <1>6 DEF SaveUndo
  <2>2. StackReads(undo, gen, orig, disk, Join(add, m), base)
    BY <1>1, <1>2, StackGrows
  <2> QED BY <1>1, <1>2, <1>3, <1>4, <1>5, <2>1, <2>2
<1>7. CASE ~ (op = "typing" /\ lastOp = "typing" /\ undo # << >>)
  <2>1. PICK u : /\ u = Append(undo, State)
                 /\ u \in Seq(States) /\ StackReads(u, gen, orig, disk, add, base) /\ Len(u) = Len(undo) + 1
    BY <1>2, Present, StackPushes
  <2>2. lastOp' = op /\ undo' = IF Len(u) > MaxUndo THEN Tail(u) ELSE u
    BY <1>7, <2>1 DEF SaveUndo
  <2>3. u # << >>
    <3>1. u \in Seq(States) /\ Len(u) = k + 1
      BY <1>4, <2>1
    <3> QED BY <3>1, EmptySeq
  <2>4. Tail(u) \in Seq(States) /\ StackReads(Tail(u), gen, orig, disk, add, base) /\ Len(Tail(u)) = Len(u) - 1
    BY <2>1, <2>3, StackPops
  <2>5. undo' \in Seq(States) /\ StackReads(undo', gen, orig, disk, add, base) /\ Len(undo') <= MaxUndo
    <3>1. CASE Len(u) > MaxUndo
      BY <1>3, <1>4, <2>1, <2>2, <2>4, <3>1
    <3>2. CASE ~ (Len(u) > MaxUndo)
      BY <1>3, <1>4, <2>1, <2>2, <3>2
    <3> QED BY <3>1, <3>2
  <2>6. StackReads(undo', gen, orig, disk, Join(add, m), base)
    BY <1>1, <2>5, StackGrows
  <2>7. Len(undo') + Len(redo') <= MaxUndo
    BY <1>3, <1>5, <2>5
  <2> QED BY <1>5, <2>2, <2>5, <2>6, <2>7
<1> QED BY <1>6, <1>7

\* An edit: the new pieces read as the new text over what is under the table
\* and, where that is the file on the disk, over it.
LEMMA Edited ==
  ASSUME EditorInv, job = "no", ~ ReplacedUnderneath, NEW op \in {"typing", "other"}, SaveUndo(op),
         NEW m \in Seq(Nat), add' = Join(add, m), pieces' \in Seq(APiece), shown' \in Seq(Nat), edits' \in Nat,
         Reads(pieces', shown', orig, Join(add, m)), base = disk => Reads(pieces', shown', disk, Join(add, m)),
         modified' = TRUE, UNCHANGED <<env, orig, backing, file, textLost, job, conv, base, gen>>
  PROVE  EditorInv'
<1>1. /\ undo' \in Seq(States) /\ redo' \in Seq(States) /\ Len(undo') + Len(redo') <= MaxUndo
      /\ StackReads(undo', gen, orig, disk, Join(add, m), base)
      /\ StackReads(redo', gen, orig, disk, Join(add, m), base)
      /\ lastOp' \in {"typing", "other", "none"}
  BY UndoSaved
<1>u. /\ env' = env /\ orig' = orig /\ backing' = backing /\ disk' = disk /\ stage' = stage /\ left' = left
      /\ textLost' = textLost /\ job' = job /\ conv' = conv /\ base' = base /\ gen' = gen
  BY DEF file
<1>2. Stacks'
  BY <1>1, <1>u DEF Stacks
<1>3. add' \in Seq(Nat)
  BY Joint DEF EditorInv, Types
<1>4. Types'
  BY <1>1, <1>3, <1>u DEF EditorInv, Types
<1>5. Bounded(pieces', add')
  BY InRangeBounded DEF Reads
<1>6. TableReads'
  BY <1>5, <1>u DEF TableReads, ReplacedUnderneath, Local
<1>7. Staged'
  BY <1>u DEF EditorInv, Staged
<1>8. Backed'
  BY <1>u DEF EditorInv, Backed
<1>9. Saved'
  BY DEF Saved
<1> QED BY <1>2, <1>4, <1>6, <1>7, <1>8, <1>9 DEF EditorInv

LEMMA CutText ==
  ASSUME NEW s \in Seq(Nat), NEW i \in 0..Len(s), NEW j \in 0..Len(s)
  PROVE  SubSeq(s, 1, i) \in Seq(Nat) /\ SubSeq(s, j + 1, Len(s)) \in Seq(Nat)
OBVIOUS

\* Typing, deleting and SetText keep the invariant.
LEMMA InsertTextKeeps ==
  ASSUME EditorInv, job = "no", ~ ReplacedUnderneath, NEW off \in 0..Len(shown),
         NEW op \in {"typing", "other"}, NEW m \in Seq(Nat), InsertText(op, off, m)
  PROVE  EditorInv'
<1>0. /\ pieces \in Seq(APiece) /\ shown \in Seq(Nat) /\ orig \in Seq(Nat) /\ disk \in Seq(Nat)
      /\ add \in Seq(Nat) /\ edits \in Nat
  BY DEF EditorInv, Types
<1>1. Reads(pieces, shown, orig, add) /\ (base = disk => Reads(pieces, shown, disk, add))
  BY NotReplaced
<1>2. /\ m # << >> /\ SaveUndo(op) /\ edits' = edits + 1 /\ modified' = TRUE
      /\ pieces' = Insert(pieces, off, Piece("add", Len(add), Len(m)))
      /\ add' = add \o m
      /\ shown' = SubSeq(shown, 1, off) \o m \o SubSeq(shown, off + 1, Len(shown))
      /\ UNCHANGED <<env, orig, backing, file, textLost, job, conv, base, gen>>
  BY DEF InsertText, Edit
<1>3. Len(shown) = Total(pieces)
  BY <1>0, <1>1, LenOfText DEF Reads
<1>4. ASSUME NEW o \in Seq(Nat), Reads(pieces, shown, o, add)
      PROVE  pieces' \in Seq(APiece) /\ Reads(pieces', shown', o, Join(add, m))
  <2>1. InRange(pieces, o, add) /\ TextOf(pieces, o, add) = shown
    BY <1>4 DEF Reads
  <2>2. /\ pieces' \in Seq(APiece) /\ InRange(pieces', o, Join(add, m))
        /\ TextOf(pieces', o, Join(add, m)) = Join(Join(SubSeq(shown, 1, off), m), SubSeq(shown, off + 1, Len(shown)))
    BY <1>0, <1>2, <1>3, <2>1, InsertReads
  <2>3. shown' = Join(Join(SubSeq(shown, 1, off), m), SubSeq(shown, off + 1, Len(shown)))
    BY <1>2 DEF Join
  <2> QED BY <2>2, <2>3 DEF Reads
<1>5. shown' \in Seq(Nat)
  <2>1. shown' = Join(Join(SubSeq(shown, 1, off), m), SubSeq(shown, off + 1, Len(shown)))
    BY <1>2 DEF Join
  <2>2. SubSeq(shown, 1, off) \in Seq(Nat) /\ SubSeq(shown, off + 1, Len(shown)) \in Seq(Nat)
    BY <1>0, CutText
  <2>3. Join(SubSeq(shown, 1, off), m) \in Seq(Nat)
    BY <2>2, Joint
  <2> QED BY <2>1, <2>2, <2>3, Joint
<1>6. add' = Join(add, m)
  BY <1>2 DEF Join
<1>7. edits' \in Nat
  BY <1>0, <1>2
<1>8. /\ pieces' \in Seq(APiece) /\ Reads(pieces', shown', orig, Join(add, m))
      /\ base = disk => Reads(pieces', shown', disk, Join(add, m))
  BY <1>0, <1>1, <1>4
<1> QED BY <1>2, <1>5, <1>6, <1>7, <1>8, Edited

LEMMA DeleteTextKeeps ==
  ASSUME EditorInv, job = "no", ~ ReplacedUnderneath, NEW off \in 0..Len(shown) - 1,
         NEW n \in 1..Len(shown) - off, DeleteText(off, n)
  PROVE  EditorInv'
<1>0. /\ pieces \in Seq(APiece) /\ shown \in Seq(Nat) /\ orig \in Seq(Nat) /\ disk \in Seq(Nat)
      /\ add \in Seq(Nat) /\ edits \in Nat
  BY DEF EditorInv, Types
<1>1. Reads(pieces, shown, orig, add) /\ (base = disk => Reads(pieces, shown, disk, add))
  BY NotReplaced
<1>2. /\ SaveUndo("other") /\ edits' = edits + 1 /\ modified' = TRUE
      /\ pieces' = Delete(pieces, off, n) /\ add' = add
      /\ shown' = SubSeq(shown, 1, off) \o SubSeq(shown, off + n + 1, Len(shown))
      /\ UNCHANGED <<env, orig, backing, file, textLost, job, conv, base, gen>>
  BY DEF DeleteText, Edit
<1>3. Len(shown) = Total(pieces)
  BY <1>0, <1>1, LenOfText DEF Reads
<1>6. << >> \in Seq(Nat) /\ add' = Join(add, << >>)
  <2>1. Join(add, << >>) = add
    BY <1>0, NothingJoins
  <2> QED BY <1>2, <2>1
<1>c. /\ off \in 0..Len(shown) /\ off + n \in 0..Len(shown) /\ off \in 0..Total(pieces)
      /\ n \in Nat /\ off + n <= Total(pieces)
  BY <1>0, <1>3
<1>s. shown' = Join(SubSeq(shown, 1, off), SubSeq(shown, off + n + 1, Len(shown)))
  BY <1>2 DEF Join
<1>4. ASSUME NEW o \in Seq(Nat), Reads(pieces, shown, o, add)
      PROVE  pieces' \in Seq(APiece) /\ Reads(pieces', shown', o, add')
  <2>1. InRange(pieces, o, add) /\ TextOf(pieces, o, add) = shown
    BY <1>4 DEF Reads
  <2>2. /\ pieces' \in Seq(APiece) /\ InRange(pieces', o, add)
        /\ TextOf(pieces', o, add) = Join(SubSeq(shown, 1, off), SubSeq(shown, off + n + 1, Len(shown)))
    BY <1>0, <1>2, <1>c, <2>1, DeleteReads
  <2> QED BY <1>2, <1>s, <2>2 DEF Reads
<1>5. shown' \in Seq(Nat)
  <2>2. SubSeq(shown, 1, off) \in Seq(Nat) /\ SubSeq(shown, (off + n) + 1, Len(shown)) \in Seq(Nat)
    BY <1>0, <1>c, CutText
  <2> QED BY <1>s, <2>2, Joint
<1>7. edits' \in Nat
  BY <1>0, <1>2
<1>8. /\ pieces' \in Seq(APiece) /\ Reads(pieces', shown', orig, Join(add, << >>))
      /\ base = disk => Reads(pieces', shown', disk, Join(add, << >>))
  <2>1. /\ pieces' \in Seq(APiece) /\ Reads(pieces', shown', orig, add')
        /\ base = disk => Reads(pieces', shown', disk, add')
    BY <1>0, <1>1, <1>4
  <2> QED BY <1>6, <2>1
<1> QED BY <1>2, <1>5, <1>6, <1>7, <1>8, Edited

LEMMA SetTextKeeps ==
  ASSUME EditorInv, job = "no", ~ ReplacedUnderneath, NEW m \in Seq(Nat), SetText(m)
  PROVE  EditorInv'
<1>0. orig \in Seq(Nat) /\ disk \in Seq(Nat) /\ add \in Seq(Nat) /\ edits \in Nat
  BY DEF EditorInv, Types
<1>2. /\ SaveUndo("other") /\ edits' = edits + 1 /\ modified' = TRUE
      /\ pieces' = IF m = <<>> THEN <<>> ELSE <<Piece("add", Len(add), Len(m))>>
      /\ add' = add \o m /\ shown' = m
      /\ UNCHANGED <<env, orig, backing, file, textLost, job, conv, base, gen>>
  BY DEF SetText, Edit
<1>4. ASSUME NEW o \in Seq(Nat)
      PROVE  pieces' \in Seq(APiece) /\ Reads(pieces', shown', o, Join(add, m))
  BY <1>0, <1>2, AddedReads DEF Reads
<1>6. add' = Join(add, m)
  BY <1>2 DEF Join
<1>7. edits' \in Nat
  BY <1>0, <1>2
<1>8. /\ pieces' \in Seq(APiece) /\ Reads(pieces', shown', orig, Join(add, m))
      /\ Reads(pieces', shown', disk, Join(add, m))
  BY <1>0, <1>4
<1> QED BY <1>2, <1>6, <1>7, <1>8, Edited

LEMMA EditingKeeps ==
  ASSUME EditorInv, job = "no", ~ ReplacedUnderneath, Editing
  PROVE  EditorInv'
<1>0. edits \in Nat /\ shown \in Seq(Nat)
  BY DEF EditorInv, Types
<1>1. ASSUME NEW off \in 0..Len(shown), NEW op \in {"typing", "other"}, InsertText(op, off, Typed)
      PROVE  EditorInv'
  <2>1. Typed \in Seq(Nat)
    BY <1>0 DEF Typed
  <2> QED BY <1>1, <2>1, InsertTextKeeps
<1>2. ASSUME NEW off \in 0..Len(shown) - 1, NEW n \in 1..Len(shown) - off, DeleteText(off, n)
      PROVE  EditorInv'
  BY <1>2, DeleteTextKeeps
<1>3. ASSUME NEW bytes \in Replacements, SetText(bytes) PROVE EditorInv'
  <2>1. Reverse(shown) \in Seq(Nat)
    <3>1. \A i \in 1..Len(shown) : (Len(shown) - i) + 1 \in 1..Len(shown)
      BY <1>0
    <3>2. \A i \in 1..Len(shown) : shown[(Len(shown) - i) + 1] \in Nat
      BY <1>0, <3>1, ElementOfSeq
    <3>3. Reverse(shown) = [i \in 1..Len(shown) |-> shown[(Len(shown) - i) + 1]]
      BY DEF Reverse
    <3>4. [i \in 1..Len(shown) |-> shown[(Len(shown) - i) + 1]] \in [1..Len(shown) -> Nat] /\ Len(shown) \in Nat
      BY <1>0, <3>2
    <3> QED BY <3>3, <3>4, SeqDef
  <2>2. <<200 + edits>> \in Seq(Nat)
    BY <1>0
  <2>3. <<200 + edits>> \o Reverse(shown) \in Seq(Nat)
    BY <2>1, <2>2, ConcatProperties
  <2>4. << >> \in Seq(Nat)
    OBVIOUS
  <2>5. bytes \in Seq(Nat)
    BY <2>3, <2>4 DEF Replacements
  <2> QED BY <1>3, <2>5, SetTextKeeps
<1> QED BY <1>1, <1>2, <1>3 DEF Editing

\* A state of this table, loaded: it reads as its text, and where it is the
\* clean state that is what the file holds.
LEMMA LoadKeeps ==
  ASSUME EditorInv, NEW st \in States, Load(st), st.gen = gen, StateReads(st, gen, orig, disk, add, base),
         job = "no", disk = base, disk = TextOf(clean, orig, add),
         undo' \in Seq(States), redo' \in Seq(States), Len(undo') + Len(redo') <= MaxUndo,
         StackReads(undo', gen, orig, disk, add, base), StackReads(redo', gen, orig, disk, add, base)
  PROVE  EditorInv'
<1>1. Reads(st.pieces, st.text, orig, add) /\ Reads(st.pieces, st.text, disk, add)
  BY DEF StateReads
<1>2. /\ pieces' = st.pieces /\ shown' = st.text /\ modified' = (st.pieces # clean) /\ lastOp' = "none"
      /\ UNCHANGED <<env, add, orig, backing, file, clean, textLost, job, conv, base, gen, edits, saves>>
  BY DEF Load
<1>u. /\ env' = env /\ add' = add /\ orig' = orig /\ backing' = backing /\ disk' = disk /\ stage' = stage
      /\ left' = left /\ textLost' = textLost /\ job' = job /\ conv' = conv /\ base' = base /\ gen' = gen
      /\ edits' = edits
  BY <1>2 DEF file
<1>3. Stacks'
  BY <1>u DEF Stacks
<1>4. Types'
  <2>1. pieces' \in Seq(APiece) /\ shown' \in Seq(Nat)
    BY <1>2, StateIs
  <2>2. modified' \in BOOLEAN
    BY <1>2
  <2> QED BY <1>2, <1>u, <2>1, <2>2 DEF EditorInv, Types
<1>5. Reads(pieces', shown', orig', add') /\ Reads(pieces', shown', disk', add')
  BY <1>1, <1>2, <1>u
<1>6. Bounded(pieces', add')
  BY <1>5, InRangeBounded DEF Reads
<1>7. TableReads'
  BY <1>5, <1>6, <1>u DEF TableReads, ReplacedUnderneath
<1>8. Staged' /\ Backed'
  BY <1>u DEF EditorInv, Staged, Backed
<1>9. Saved'
  <2>1. ~ modified' => disk = shown'
    BY <1>1, <1>2 DEF Reads
  <2> QED BY <1>u, <2>1 DEF Saved
<1> QED BY <1>3, <1>4, <1>7, <1>8, <1>9 DEF EditorInv

\* Undo and redo move one state from one stack to the other.
LEMMA UndoKeeps ==
  ASSUME EditorInv, Current(undo), Undo
  PROVE  EditorInv'
<1>1. /\ undo \in Seq(States) /\ redo \in Seq(States) /\ Len(undo) + Len(redo) <= MaxUndo
      /\ StackReads(undo, gen, orig, disk, add, base) /\ StackReads(redo, gen, orig, disk, add, base)
  BY DEF EditorInv, Stacks
<1>2. job = "no" /\ disk = base /\ disk = TextOf(clean, orig, add) /\ undo # << >> /\ Last(undo).gen = gen
  BY DEF Current
<1>3. undo' = Front(undo) /\ redo' = Append(redo, State) /\ Load(Last(undo))
  BY DEF Undo
<1>4. State \in States /\ StateReads(State, gen, orig, disk, add, base)
  BY <1>2, NotReplaced, Present
<1>5. /\ undo' \in Seq(States) /\ StackReads(undo', gen, orig, disk, add, base) /\ Len(undo') = Len(undo) - 1
      /\ Last(undo) \in States /\ StateReads(Last(undo), gen, orig, disk, add, base)
  BY <1>1, <1>2, <1>3, StackPops
<1>6. /\ redo' \in Seq(States) /\ StackReads(redo', gen, orig, disk, add, base) /\ Len(redo') = Len(redo) + 1
  BY <1>1, <1>3, <1>4, StackPushes
<1>7. Len(undo') + Len(redo') <= MaxUndo
  <2>1. PICK i \in Nat, j \in Nat : i = Len(undo) /\ j = Len(redo)
    BY <1>1
  <2> QED BY <1>1, <1>5, <1>6, <2>1, BoundsAssumption
<1> QED BY <1>2, <1>3, <1>5, <1>6, <1>7, LoadKeeps

LEMMA RedoKeeps ==
  ASSUME EditorInv, Current(redo), Redo
  PROVE  EditorInv'
<1>1. /\ undo \in Seq(States) /\ redo \in Seq(States) /\ Len(undo) + Len(redo) <= MaxUndo
      /\ StackReads(undo, gen, orig, disk, add, base) /\ StackReads(redo, gen, orig, disk, add, base)
  BY DEF EditorInv, Stacks
<1>2. job = "no" /\ disk = base /\ disk = TextOf(clean, orig, add) /\ redo # << >> /\ Last(redo).gen = gen
  BY DEF Current
<1>3. redo' = Front(redo) /\ undo' = Append(undo, State) /\ Load(Last(redo))
  BY DEF Redo
<1>4. State \in States /\ StateReads(State, gen, orig, disk, add, base)
  BY <1>2, NotReplaced, Present
<1>5. /\ redo' \in Seq(States) /\ StackReads(redo', gen, orig, disk, add, base) /\ Len(redo') = Len(redo) - 1
      /\ Last(redo) \in States /\ StateReads(Last(redo), gen, orig, disk, add, base)
  BY <1>1, <1>2, <1>3, StackPops
<1>6. /\ undo' \in Seq(States) /\ StackReads(undo', gen, orig, disk, add, base) /\ Len(undo') = Len(undo) + 1
  BY <1>1, <1>3, <1>4, StackPushes
<1>7. Len(undo') + Len(redo') <= MaxUndo
  <2>1. PICK i \in Nat, j \in Nat : i = Len(undo) /\ j = Len(redo)
    BY <1>1
  <2> QED BY <1>1, <1>5, <1>6, <2>1, BoundsAssumption
<1> QED BY <1>2, <1>3, <1>5, <1>6, <1>7, LoadKeeps

\* A save starts where the table's file is the one on the disk.
LEMMA SaveStartKeeps ==
  ASSUME EditorInv, NEW c \in BOOLEAN, disk = base \/ (c /\ Local), SaveStart(c)
  PROVE  EditorInv'
<1>1. job = "no" /\ textLost = FALSE /\ job' = "patch" /\ conv' = c /\ modified' = (modified \/ c)
  BY DEF SaveStart, EditorInv, Types
<1>u. /\ env' = env /\ pieces' = pieces /\ add' = add /\ orig' = orig /\ backing' = backing
      /\ undo' = undo /\ redo' = redo /\ lastOp' = lastOp
      /\ disk' = disk /\ stage' = stage /\ left' = left /\ textLost' = textLost
      /\ shown' = shown /\ base' = base /\ gen' = gen /\ edits' = edits
  BY <1>1 DEF SaveStart, table, history, file, ghosts
<1>2. Types'
  <2>1. job' \in Jobs /\ conv' \in BOOLEAN /\ modified' \in BOOLEAN
    BY <1>1 DEF Jobs
  <2> QED BY <1>u, <2>1 DEF EditorInv, Types
<1>3. Stacks'
  BY <1>u DEF EditorInv, Stacks
<1>4. ~ ReplacedUnderneath
  BY NotReplaced
<1>5. TableReads'
  BY <1>4, <1>u DEF EditorInv, TableReads, ReplacedUnderneath, Local
<1>6. Staged'
  BY <1>1, <1>u DEF EditorInv, Staged
<1>7. Backed'
  BY <1>1, <1>u DEF EditorInv, Backed
<1>8. Saved'
  BY <1>1, <1>u DEF EditorInv, Saved
<1> QED BY <1>2, <1>3, <1>5, <1>6, <1>7, <1>8 DEF EditorInv

-----------------------------------------------------------------------------
(***************************************************************************)
(* Saving keeps the invariant                                              *)
(***************************************************************************)
Backings == {"mapping", "chunks", "copy", "loading"}

\* What every step of a save leaves alone, and what is known before it.
LEMMA Saving ==
  ASSUME EditorInv, NEW from \in Jobs \ {"no"}, NEW to, Save(from, to)
  PROVE  /\ job = from /\ job' = to /\ env' = env /\ pieces' = pieces /\ add' = add /\ conv' = conv
         /\ shown' = shown /\ edits' = edits
         /\ textLost = FALSE /\ env \in Environ /\ env \in Environs
         /\ pieces \in Seq(APiece) /\ add \in Seq(Nat) /\ orig \in Seq(Nat) /\ disk \in Seq(Nat) /\ shown \in Seq(Nat)
         /\ backing \in Backings /\ base \in {disk, NoStage} /\ gen \in Nat /\ modified \in BOOLEAN
         /\ undo \in Seq(States) /\ redo \in Seq(States) /\ Len(undo) + Len(redo) <= MaxUndo
         /\ StackReads(undo, gen, orig, disk, add, base) /\ StackReads(redo, gen, orig, disk, add, base)
         /\ Bounded(pieces, add)
<1>1. job = from /\ job' = to /\ UNCHANGED <<env, pieces, add, conv, shown, edits, saves>>
  BY DEF Save
<1>2. textLost => job = "no"
  BY DEF EditorInv, Backed
<1>3. textLost \in BOOLEAN /\ job # "no"
  BY <1>1 DEF EditorInv, Types
<1>4. textLost = FALSE
  BY <1>2, <1>3
<1> QED BY <1>1, <1>4 DEF EditorInv, Types, Stacks, TableReads, Backings

\* What there is to show of a step of a save.
LEMMA SaveStepKeeps ==
  ASSUME EditorInv, NEW from \in Jobs \ {"no"}, NEW to \in Jobs, Save(from, to),
         undo' = undo, redo' = redo, lastOp' = lastOp, modified' \in BOOLEAN, textLost' \in BOOLEAN,
         orig' \in Seq(Nat), disk' \in Seq(Nat), backing' \in Backings, base' \in {disk', NoStage}, gen' \in Nat,
         StackReads(undo, gen', orig', disk', add, base'), StackReads(redo, gen', orig', disk', add, base'),
         ~ Local /\ disk' # base' => disk' = shown /\ to \in {"no", "reopen"},
         Local \/ disk' = base' => Reads(pieces, shown, orig', add),
         base' = disk' => Reads(pieces, shown, disk', add),
         Staged', Backed', Saved'
  PROVE  EditorInv'
<1>1. /\ job' = to /\ env' = env /\ pieces' = pieces /\ add' = add /\ conv' = conv
      /\ shown' = shown /\ edits' = edits /\ Bounded(pieces, add)
  BY Saving
<1>2. Types'
  BY <1>1 DEF EditorInv, Types, Backings
<1>3. Stacks'
  BY <1>1 DEF EditorInv, Stacks
<1>4. TableReads'
  <2>1. ReplacedUnderneath' <=> ~ Local /\ disk' # base'
    BY <1>1 DEF ReplacedUnderneath, Local
  <2>2. ReplacedUnderneath' => disk' = shown' /\ job' \in {"no", "reopen"}
    BY <1>1, <2>1
  <2>3. ~ ReplacedUnderneath' => Reads(pieces', shown', orig', add')
    BY <1>1, <2>1
  <2>4. base' = disk' => Reads(pieces', shown', disk', add')
    BY <1>1
  <2>5. Bounded(pieces', add')
    BY <1>1
  <2> QED BY <2>2, <2>3, <2>4, <2>5 DEF TableReads
<1> QED BY <1>2, <1>3, <1>4 DEF EditorInv

\* Steps that leave the file and what the table reads alone.
LEMMA FileWaits ==
  ASSUME EditorInv, NEW from \in Jobs \ {"no", "reopen"}, NEW to \in Jobs, Save(from, to),
         undo' = undo, redo' = redo, lastOp' = lastOp, modified' = modified, textLost' \in BOOLEAN,
         orig' = orig, disk' = disk, base' = base, gen' = gen, left' = left, backing' \in Backings,
         Staged', Backed'
  PROVE  EditorInv'
<1>1. /\ orig' \in Seq(Nat) /\ disk' \in Seq(Nat) /\ base' \in {disk', NoStage} /\ gen' \in Nat
      /\ modified' \in BOOLEAN /\ job = from /\ shown' = shown
      /\ StackReads(undo, gen', orig', disk', add, base') /\ StackReads(redo, gen', orig', disk', add, base')
  BY Saving
<1>2. ~ ReplacedUnderneath
  BY <1>1, NotReplaced DEF Jobs
<1>3. Reads(pieces, shown, orig, add) /\ (base = disk => Reads(pieces, shown, disk, add))
  BY <1>2, NotReplaced
<1>4. ~ (~ Local /\ disk' # base')
  BY <1>2 DEF ReplacedUnderneath
<1>5. Saved'
  BY <1>1 DEF EditorInv, Saved
<1>6. /\ Reads(pieces, shown, orig', add) /\ (base' = disk' => Reads(pieces, shown, disk', add))
  BY <1>3
<1> QED BY <1>1, <1>4, <1>5, <1>6, SaveStepKeeps DEF Jobs

\* Nothing is released before the rename.
LEMMA NotLoading ==
  ASSUME EditorInv, job \in {"patch", "stage", "release", "copyover"}
  PROVE  backing # "loading"
<1>1. textLost => job = "no"
  BY DEF EditorInv, Backed
<1>2. backing = "loading" => textLost \/ job = "rename" \/ job = "reopen"
  BY DEF EditorInv, Backed
<1> QED BY <1>1, <1>2

\* The steps that only prepare: the file stays, and the stage is the text.
LEMMA PatchFileKeeps ==
  ASSUME EditorInv, PatchFile
  PROVE  EditorInv'
<1>1. /\ env.patch = "delta" /\ ~ conv /\ stage' = TextOf(pieces, disk, add) /\ Save("patch", "release")
      /\ UNCHANGED <<pieces, add, orig, backing, disk, left, undo, redo, lastOp, clean, modified, textLost, base, gen>>
  BY DEF PatchFile, KeepTable, Went, history, flags
<1>2. /\ job = "patch" /\ job' = "release" /\ conv' = conv /\ textLost = FALSE /\ env' = env /\ shown' = shown
      /\ backing \in Backings
  BY <1>1, Saving DEF Jobs
<1>3. base = disk
  BY <1>1, <1>2 DEF EditorInv, Staged
<1>4. stage' = shown
  BY <1>1, <1>3, NotReplaced DEF Reads
<1>5. Staged'
  BY <1>2, <1>4 DEF Staged
<1>6. backing # "loading"
  BY <1>2, NotLoading
<1>7. Backed'
  BY <1>1, <1>2, <1>6 DEF EditorInv, Backed
<1>8. textLost' \in BOOLEAN /\ backing' \in Backings
  BY <1>1, <1>2
<1> QED BY <1>1, <1>5, <1>7, <1>8, FileWaits DEF Jobs

LEMMA PatchUnavailableKeeps ==
  ASSUME EditorInv, PatchUnavailable
  PROVE  EditorInv'
<1>1. /\ Save("patch", "stage")
      /\ UNCHANGED <<pieces, add, orig, backing, disk, stage, left, undo, redo, lastOp, clean, modified, textLost, base, gen>>
  BY DEF PatchUnavailable, KeepTable, KeepFile, Went, history, flags
<1>2. /\ job = "patch" /\ job' = "stage" /\ conv' = conv /\ textLost = FALSE /\ env' = env /\ shown' = shown
      /\ backing \in Backings
  BY <1>1, Saving DEF Jobs
<1>5. Staged'
  BY <1>1, <1>2 DEF EditorInv, Staged
<1>6. backing # "loading"
  BY <1>2, NotLoading
<1>7. Backed'
  BY <1>1, <1>2, <1>6 DEF EditorInv, Backed
<1>8. textLost' \in BOOLEAN /\ backing' \in Backings
  BY <1>1, <1>2
<1> QED BY <1>1, <1>5, <1>7, <1>8, FileWaits DEF Jobs

LEMMA WriteStageKeeps ==
  ASSUME EditorInv, WriteStage
  PROVE  EditorInv'
<1>1. PICK to \in {"release", "no"} :
        /\ Save("stage", to)
        /\ to = "release" => stage' = Text
        /\ to = "no" => stage' = NoStage
        /\ UNCHANGED <<pieces, add, orig, backing, disk, left, undo, redo, lastOp, clean, modified, textLost, base, gen>>
  BY DEF WriteStage, KeepTable, Went, Failed, history, flags
<1>2. /\ job = "stage" /\ job' = to /\ conv' = conv /\ textLost = FALSE /\ env' = env /\ shown' = shown
      /\ backing \in Backings
  BY <1>1, Saving DEF Jobs
<1>3. Text = shown
  BY <1>2, NotReplaced DEF Reads, Text
<1>5. Staged'
  BY <1>1, <1>2, <1>3 DEF Staged
<1>6. backing # "loading"
  BY <1>2, NotLoading
<1>7. Backed'
  BY <1>1, <1>2, <1>6 DEF EditorInv, Backed
<1>8. textLost' \in BOOLEAN /\ backing' \in Backings /\ to \in Jobs
  BY <1>1, <1>2 DEF Jobs
<1> QED BY <1>1, <1>5, <1>7, <1>8, FileWaits DEF Jobs

LEMMA ReleaseKeeps ==
  ASSUME EditorInv, Release
  PROVE  EditorInv'
<1>1. PICK to \in {"copyover", "rename", "no"} :
        /\ Save("release", to) /\ UNCHANGED <<orig, disk, left, undo, redo, lastOp, clean, modified, textLost, base, gen>>
        /\ to = "no" => stage' = NoStage /\ backing' = backing
        /\ to # "no" =>
             /\ stage' = stage /\ (to = "copyover" <=> env.links)
             /\ backing' = IF env.links THEN "copy"
                           ELSE IF env.frees /\ backing = "chunks" THEN "loading" ELSE backing
  BY DEF Release, Went, Failed, history, flags
<1>2. /\ job = "release" /\ job' = to /\ conv' = conv /\ textLost = FALSE /\ env' = env /\ shown' = shown
      /\ backing \in Backings
  BY <1>1, Saving DEF Jobs
<1>5. Staged'
  BY <1>1, <1>2 DEF EditorInv, Staged
<1>6. backing # "loading"
  BY <1>2, NotLoading
<1>9. env.frees /\ backing = "chunks" => base = disk
  BY DEF EditorInv, Backed
<1>7. Backed'
  BY <1>1, <1>2, <1>6, <1>9 DEF Backed
<1>8. textLost' \in BOOLEAN /\ backing' \in Backings /\ to \in Jobs
  BY <1>1, <1>2 DEF Backings, Jobs
<1> QED BY <1>1, <1>5, <1>7, <1>8, FileWaits DEF Jobs

LEMMA RenameWithoutMappingKeeps ==
  ASSUME EditorInv, RenameWithoutMapping
  PROVE  EditorInv'
<1>1. /\ Save("rename", "rename") /\ env.frees /\ base # NoStage /\ backing' = "loading"
      /\ UNCHANGED <<orig, disk, stage, left, undo, redo, lastOp, clean, modified, textLost, base, gen>>
  BY DEF RenameWithoutMapping, KeepFile, Went, history, flags
<1>2. /\ job = "rename" /\ job' = "rename" /\ conv' = conv /\ textLost = FALSE /\ env' = env /\ shown' = shown
      /\ base \in {disk, NoStage}
  BY <1>1, Saving DEF Jobs
<1>5. Staged'
  BY <1>1, <1>2 DEF EditorInv, Staged
<1>7. Backed'
  BY <1>1, <1>2 DEF Backed
<1>8. textLost' \in BOOLEAN /\ backing' \in Backings
  BY <1>1, <1>2 DEF Backings
<1> QED BY <1>1, <1>5, <1>7, <1>8, FileWaits DEF Jobs

\* Typed bytes written over the file in place: under the table the bytes stay
\* what they were, whichever of them a read still answers.
LEMMA PatchInPlaceKeeps ==
  ASSUME EditorInv, PatchInPlace
  PROVE  EditorInv'
<1>1. PICK to \in {"reopen", "stage"}, k \in 0..Len(pieces) :
        /\ Save("patch", to)
        /\ to = "reopen" => disk' = Truncated(Overlaid(k), Total(pieces)) /\ k = Len(pieces)
        /\ to = "stage" => disk' = Overlaid(k)
  <2>1. CASE /\ disk' = Truncated(Overlaid(Len(pieces)), Size(pieces, Len(pieces)))
             /\ Save("patch", "reopen")
    <3>1. Len(pieces) \in 0..Len(pieces)
      BY DEF EditorInv, Types
    <3>2. Size(pieces, Len(pieces)) = Total(pieces)
      BY DEF Total
    <3> QED BY <2>1, <3>1, <3>2
  <2>2. CASE \E k \in 0..Len(pieces) : disk' = Overlaid(k) /\ Save("patch", "stage")
    BY <2>2
  <2> QED BY <2>1, <2>2 DEF PatchInPlace
<1>2. /\ Local /\ ~ conv /\ InPlace /\ base' = disk' /\ gen' = IF disk' = disk THEN gen ELSE gen + 1
      /\ UNCHANGED <<backing, stage, left, undo, redo, lastOp, clean, modified, textLost>>
      /\ orig' \in IF backing = "copy" THEN {orig} ELSE {orig, Truncated(disk', Len(orig))}
  BY DEF PatchInPlace, Rewritten, history, flags
<1>3. /\ job = "patch" /\ job' = to /\ env' = env /\ pieces' = pieces /\ add' = add /\ conv' = conv
      /\ shown' = shown /\ textLost = FALSE
      /\ pieces \in Seq(APiece) /\ add \in Seq(Nat) /\ orig \in Seq(Nat) /\ disk \in Seq(Nat) /\ shown \in Seq(Nat)
      /\ backing \in Backings /\ gen \in Nat /\ modified \in BOOLEAN
      /\ undo \in Seq(States) /\ redo \in Seq(States)
      /\ StackReads(undo, gen, orig, disk, add, base) /\ StackReads(redo, gen, orig, disk, add, base)
  BY <1>1, Saving DEF Jobs
<1>4. base = disk
  BY <1>2, <1>3 DEF EditorInv, Staged
<1>5. Reads(pieces, shown, orig, add) /\ Reads(pieces, shown, disk, add)
  BY <1>4, NotReplaced
<1>6. /\ InRange(pieces, orig, add) /\ Text = shown
      /\ InRange(pieces, disk, add) /\ TextOf(pieces, disk, add) = shown
  BY <1>5 DEF Reads, Text
<1>7. PICK v \in Seq(Nat) :
           /\ v = Overlaid(k)
           /\ InRange(pieces, v, add) /\ TextOf(pieces, v, add) = shown
           /\ disk = shown => v = disk
           /\ k = Len(pieces) => /\ Truncated(v, Total(pieces)) = shown
                                 /\ InRange(pieces, shown, add) /\ TextOf(pieces, shown, add) = shown
  BY <1>2, <1>3, <1>6, Patched
<1>8. PICK d \in Seq(Nat) :
        d = disk' /\ Reads(pieces, shown, d, add) /\ (disk = shown => d = disk) /\ (to = "reopen" => d = shown)
  <2>1. CASE to = "reopen"
    <3>1. disk' = shown
      BY <1>1, <1>7, <2>1
    <3>2. Reads(pieces, shown, shown, add)
      BY <1>1, <1>7, <2>1 DEF Reads
    <3> QED BY <1>3, <3>1, <3>2
  <2>2. CASE to = "stage"
    <3>1. disk' = v
      BY <1>1, <1>7, <2>2
    <3>2. Reads(pieces, shown, v, add)
      BY <1>7 DEF Reads
    <3> QED BY <1>7, <2>2, <3>1, <3>2
  <2> QED BY <2>1, <2>2
<1>9. orig' \in {orig, d, Truncated(d, Len(orig))}
  BY <1>2, <1>8
<1>10. Reads(pieces, shown, orig', add) /\ orig' \in Seq(Nat)
  BY <1>3, <1>5, <1>8, <1>9, OrigMoves
<1>11. ASSUME NEW s \in Seq(States), StackReads(s, gen, orig, disk, add, base)
       PROVE  StackReads(s, gen', orig', disk', add, base')
  <2>1. CASE d = disk
    <3>1. StackReads(s, gen, orig', disk, add, base)
      BY <1>3, <1>9, <1>11, <2>1, StackMoves
    <3> QED BY <1>2, <1>4, <1>8, <2>1, <3>1
  <2>2. CASE d # disk
    <3>1. StackReads(s, gen + 1, orig', disk', add, base')
      BY <1>3, <1>11, StackAges
    <3> QED BY <1>2, <1>8, <2>2, <3>1
  <2> QED BY <2>1, <2>2
<1>12. StackReads(undo, gen', orig', disk', add, base') /\ StackReads(redo, gen', orig', disk', add, base')
  BY <1>3, <1>11
<1>13. Staged'
  BY <1>2, <1>3, <1>8 DEF EditorInv, Staged
<1>14. Backed'
  <2>1. backing # "loading"
    BY <1>3, NotLoading
  <2> QED BY <1>1, <1>2, <1>3, <2>1 DEF Backed
<1>15. Saved'
  BY <1>2, <1>3, <1>8 DEF EditorInv, Saved
<1>g. gen' \in Nat
  BY <1>2, <1>3
<1>b. modified' \in BOOLEAN /\ textLost' \in BOOLEAN
  BY <1>2, <1>3
<1>16. gen' \in Nat /\ backing' \in Backings /\ base' \in {disk', NoStage} /\ disk' \in Seq(Nat)
       /\ modified' \in BOOLEAN /\ textLost' \in BOOLEAN /\ to \in Jobs
  BY <1>2, <1>3, <1>8, <1>g, <1>b DEF Jobs
<1>17. /\ ~ (~ Local /\ disk' # base')
       /\ Reads(pieces, shown, disk', add)
  BY <1>2, <1>8
<1> QED BY <1>1, <1>2, <1>10, <1>12, <1>13, <1>14, <1>15, <1>16, <1>17, SaveStepKeeps DEF Jobs

\* A rewrite in place: a copy is under the table, and the stage stays if it fails.
LEMMA CopyOverKeeps ==
  ASSUME EditorInv, CopyOver
  PROVE  EditorInv'
<1>1. PICK to \in {"reopen", "no"} :
        /\ Save("copyover", to)
        /\ to = "reopen" => disk' = stage /\ left' = left
        /\ to = "no" => left' = left \cup {stage} /\ \E k \in 0..Len(stage) : disk' = SubSeq(stage, 1, k)
  BY DEF CopyOver
<1>2. /\ base' = NoStage /\ stage' = NoStage
      /\ UNCHANGED <<backing, undo, redo, lastOp, clean, modified, textLost, gen>>
      /\ orig' \in IF backing = "copy" THEN {orig} ELSE {orig, Truncated(disk', Len(orig))}
  BY DEF CopyOver, Rewritten, history, flags
<1>3. /\ job = "copyover" /\ job' = to /\ env' = env /\ pieces' = pieces /\ add' = add /\ conv' = conv
      /\ shown' = shown /\ textLost = FALSE /\ env \in Environs
      /\ orig \in Seq(Nat) /\ shown \in Seq(Nat) /\ gen \in Nat /\ modified \in BOOLEAN
      /\ backing \in Backings /\ undo \in Seq(States) /\ redo \in Seq(States)
      /\ StackReads(undo, gen, orig, disk, add, base) /\ StackReads(redo, gen, orig, disk, add, base)
  BY <1>1, Saving DEF Jobs
<1>4. env.links /\ backing = "copy" /\ stage = shown
  BY <1>3 DEF EditorInv, Staged
<1>5. Local
  BY <1>3, <1>4, EnvironsAssumption DEF Local
<1>6. orig' = orig
  BY <1>2, <1>4
<1>7. disk' \in Seq(Nat)
  <2>1. CASE to = "reopen"
    BY <1>1, <1>3, <1>4, <2>1
  <2>2. CASE to = "no"
    <3>1. PICK k \in 0..Len(shown) : disk' = SubSeq(shown, 1, k)
      BY <1>1, <1>4, <2>2
    <3> QED BY <1>3, <3>1, CutText
  <2> QED BY <2>1, <2>2
<1>8. base' # disk'
  BY <1>2, <1>7, NoStageIsNone
<1>9. Reads(pieces, shown, orig', add)
  BY <1>5, <1>6, NotReplaced
<1>10. /\ StackReads(undo, gen', orig', disk', add, base') /\ StackReads(redo, gen', orig', disk', add, base')
  BY <1>2, <1>3, <1>8, StackWaits
<1>11. Staged'
  BY <1>1, <1>2, <1>3, <1>4 DEF Staged
<1>12. Backed'
  BY <1>2, <1>3, <1>4 DEF Backed
<1>13. Saved'
  BY <1>1, <1>3, <1>4 DEF Saved
<1>g. gen' \in Nat /\ modified' \in BOOLEAN /\ textLost' \in BOOLEAN
  BY <1>2, <1>3
<1>14. gen' \in Nat /\ backing' \in Backings /\ base' \in {disk', NoStage} /\ orig' \in Seq(Nat)
       /\ modified' \in BOOLEAN /\ textLost' \in BOOLEAN /\ to \in Jobs
  BY <1>2, <1>3, <1>6, <1>g DEF Jobs
<1> QED BY <1>1, <1>2, <1>5, <1>7, <1>8, <1>9, <1>10, <1>11, <1>12, <1>13, <1>14, SaveStepKeeps DEF Jobs

\* A remote file that is read by its path may show the new text under the table
\* until it was reopened.
LEMMA RenameDoneKeeps ==
  ASSUME EditorInv, RenameDone
  PROVE  EditorInv'
<1>2. /\ Save("rename", "reopen") /\ disk' = stage /\ stage' = NoStage /\ base' = NoStage
      /\ UNCHANGED <<backing, left, undo, redo, lastOp, clean, modified, textLost, gen>>
      /\ IF Local THEN orig' = orig ELSE orig' \in {orig, disk'}
  BY DEF RenameDone, ByPath, history, flags
<1>3. /\ job = "rename" /\ job' = "reopen" /\ env' = env /\ conv' = conv
      /\ shown' = shown /\ textLost = FALSE
      /\ orig \in Seq(Nat) /\ shown \in Seq(Nat) /\ gen \in Nat /\ modified \in BOOLEAN
      /\ backing \in Backings /\ undo \in Seq(States) /\ redo \in Seq(States)
      /\ StackReads(undo, gen, orig, disk, add, base) /\ StackReads(redo, gen, orig, disk, add, base)
  BY <1>2, Saving DEF Jobs
<1>4. disk' = shown
  BY <1>2, <1>3 DEF EditorInv, Staged
<1>5. disk' \in Seq(Nat) /\ orig' \in Seq(Nat)
  BY <1>2, <1>3, <1>4
<1>6. base' # disk'
  BY <1>2, <1>5, NoStageIsNone
<1>7. Local => Reads(pieces, shown, orig', add)
  BY <1>2, NotReplaced
<1>8. StackReads(undo, gen', orig', disk', add, base') /\ StackReads(redo, gen', orig', disk', add, base')
  BY <1>2, <1>3, <1>6, StackWaits
<1>9. Staged'
  BY <1>2, <1>3, <1>4 DEF EditorInv, Staged
<1>10. Backed'
  <2>1. (backing = "loading" => env.frees) /\ (env.frees => backing # "chunks")
    BY <1>3 DEF EditorInv, Backed
  <2> QED BY <1>2, <1>3, <2>1 DEF Backed
<1>11. Saved'
  BY <1>3, <1>4 DEF Saved
<1>g. gen' \in Nat /\ modified' \in BOOLEAN /\ textLost' \in BOOLEAN
  BY <1>2, <1>3
<1> QED BY <1>2, <1>3, <1>4, <1>5, <1>6, <1>7, <1>8, <1>9, <1>10, <1>11, <1>g, SaveStepKeeps DEF Jobs

\* A text that was released is read back from the file it came from.
LEMMA RenameRefusedKeeps ==
  ASSUME EditorInv, RenameRefused
  PROVE  EditorInv'
<1>1. /\ Save("rename", "no") /\ stage' = NoStage
      /\ UNCHANGED <<disk, left, undo, redo, lastOp, clean, modified, base, gen>>
      /\ \/ backing # "loading" /\ UNCHANGED <<orig, backing, textLost>>
         \/ backing = "loading" /\ backing' \in Reopened /\ orig' = disk /\ textLost' = textLost
         \/ backing = "loading" /\ textLost' = TRUE /\ UNCHANGED <<orig, backing>>
  BY DEF RenameRefused, history
<1>2. /\ job = "rename" /\ job' = "no" /\ env' = env /\ conv' = conv
      /\ shown' = shown /\ textLost = FALSE /\ pieces \in Seq(APiece) /\ add \in Seq(Nat)
      /\ orig \in Seq(Nat) /\ disk \in Seq(Nat) /\ shown \in Seq(Nat) /\ gen \in Nat /\ modified \in BOOLEAN
      /\ backing \in Backings /\ base \in {disk, NoStage} /\ undo \in Seq(States) /\ redo \in Seq(States)
      /\ StackReads(undo, gen, orig, disk, add, base) /\ StackReads(redo, gen, orig, disk, add, base)
  BY <1>1, Saving DEF Jobs
<1>3. backing = "loading" => env.frees /\ base = disk
  BY <1>2 DEF EditorInv, Backed
<1>4. env.frees => backing # "chunks"
  BY <1>2 DEF EditorInv, Backed
<1>5. Reads(pieces, shown, orig, add) /\ ~ ReplacedUnderneath /\ (base = disk => Reads(pieces, shown, disk, add))
  BY <1>2, NotReplaced DEF Jobs
<1>6. orig' = orig \/ (orig' = disk /\ base = disk)
  BY <1>1, <1>3
<1>7. Reads(pieces, shown, orig', add) /\ orig' \in Seq(Nat)
  BY <1>2, <1>5, <1>6
<1>8. StackReads(undo, gen', orig', disk', add, base') /\ StackReads(redo, gen', orig', disk', add, base')
  <2>1. orig' \in {orig, disk, Truncated(disk, Len(orig))}
    BY <1>6
  <2>2. StackReads(undo, gen, orig', disk, add, base) /\ StackReads(redo, gen, orig', disk, add, base)
    BY <1>2, <2>1, StackMoves
  <2> QED BY <1>1, <2>2
<1>9. Staged'
  BY <1>1, <1>2 DEF Staged
<1>10. Backed'
  <2>1. CASE backing # "loading"
    BY <1>1, <1>2, <1>4, <2>1 DEF Backed
  <2>2. CASE backing = "loading"
    BY <1>1, <1>2, <1>3, <2>2 DEF Backed, Reopened
  <2> QED BY <2>1, <2>2
<1>11. Saved'
  BY <1>1, <1>2 DEF EditorInv, Saved
<1>b. backing' \in Backings
  BY <1>1, <1>2 DEF Reopened, Backings
<1>t. textLost' \in BOOLEAN /\ modified' \in BOOLEAN
  BY <1>1, <1>2
<1>12. ~ (~ Local /\ disk' # base')
  BY <1>1, <1>5 DEF ReplacedUnderneath
<1>13. disk' \in Seq(Nat) /\ gen' \in Nat /\ base' \in {disk', NoStage} /\ (base' = disk' => Reads(pieces, shown, disk', add))
  BY <1>1, <1>2, <1>5
<1> QED BY <1>1, <1>7, <1>8, <1>9, <1>10, <1>11, <1>12, <1>13, <1>b, <1>t, SaveStepKeeps DEF Jobs

\* The answer was lost: either the stage was left beside the file, or the file
\* is the stage.
LEMMA RenameUncertainKeeps ==
  ASSUME EditorInv, RenameUncertain
  PROVE  EditorInv'
<1>1. /\ Save("rename", "no") /\ ~ Local /\ stage' = NoStage
      /\ base' = IF disk' = disk THEN base ELSE NoStage
      /\ UNCHANGED <<backing, undo, redo, lastOp, clean, modified, textLost, gen>>
      /\ \/ disk' = disk /\ orig' = orig /\ left' = left \cup {stage}
         \/ disk' = stage /\ orig' \in {orig, disk'} /\ left' = left
  BY DEF RenameUncertain, ByPath, history, flags
<1>2. /\ job = "rename" /\ job' = "no" /\ env' = env /\ conv' = conv
      /\ shown' = shown /\ textLost = FALSE /\ pieces \in Seq(APiece) /\ add \in Seq(Nat)
      /\ orig \in Seq(Nat) /\ disk \in Seq(Nat) /\ shown \in Seq(Nat) /\ gen \in Nat /\ modified \in BOOLEAN
      /\ backing \in Backings /\ undo \in Seq(States) /\ redo \in Seq(States) /\ env \in Environs
      /\ StackReads(undo, gen, orig, disk, add, base) /\ StackReads(redo, gen, orig, disk, add, base)
  BY <1>1, Saving DEF Jobs
<1>3. stage = shown
  BY <1>2 DEF EditorInv, Staged
<1>4. ~ env.frees
  BY <1>1, <1>2, EnvironsAssumption DEF Local
<1>5. ~ ReplacedUnderneath
  BY <1>2, NotReplaced DEF Jobs
<1>6. base = disk
  BY <1>1, <1>5, NotReplaced
<1>7. Reads(pieces, shown, orig, add) /\ Reads(pieces, shown, disk, add)
  BY <1>5, <1>6, NotReplaced
<1>8. disk' \in Seq(Nat) /\ orig' \in Seq(Nat) /\ (disk' = disk \/ disk' = shown)
  BY <1>1, <1>2, <1>3
<1>9. Staged'
  BY <1>1, <1>2 DEF Staged
<1>10. Backed'
  <2>1. backing # "loading"
    BY <1>4 DEF EditorInv, Backed
  <2> QED BY <1>1, <1>2, <1>4, <2>1 DEF Backed
<1>11. Saved'
  BY <1>1, <1>2, <1>3 DEF Saved
<1>g. gen' \in Nat /\ modified' \in BOOLEAN /\ textLost' \in BOOLEAN /\ backing' \in Backings
  BY <1>1, <1>2
<1>b. base' \in {disk', NoStage}
  BY <1>1, <1>6
<1>12. CASE disk' = disk
  <2>1. base' = base /\ orig' \in {orig, disk, Truncated(disk, Len(orig))}
    BY <1>1, <1>12
  <2>2. StackReads(undo, gen, orig', disk, add, base) /\ StackReads(redo, gen, orig', disk, add, base)
    BY <1>2, <2>1, StackMoves
  <2>3. StackReads(undo, gen', orig', disk', add, base') /\ StackReads(redo, gen', orig', disk', add, base')
    BY <1>1, <1>12, <2>1, <2>2
  <2>4. Reads(pieces, shown, orig', add)
    BY <1>1, <1>7, <1>12
  <2>5. disk' = base' /\ Reads(pieces, shown, disk', add)
    BY <1>6, <1>7, <1>12, <2>1
  <2> QED BY <1>1, <1>8, <1>9, <1>10, <1>11, <1>g, <1>b, <2>3, <2>4, <2>5, SaveStepKeeps DEF Jobs
<1>13. CASE disk' # disk
  <2>1. base' # disk'
    BY <1>1, <1>8, <1>13, NoStageIsNone
  <2>2. StackReads(undo, gen', orig', disk', add, base') /\ StackReads(redo, gen', orig', disk', add, base')
    BY <1>1, <1>2, <2>1, StackWaits
  <2>3. disk' = shown
    BY <1>8, <1>13
  <2> QED BY <1>1, <1>8, <1>9, <1>10, <1>11, <1>g, <1>b, <2>1, <2>2, <2>3, SaveStepKeeps DEF Jobs
<1> QED BY <1>12, <1>13

\* A new table on the file that was written.
LEMMA SaveDoneKeeps ==
  ASSUME EditorInv, SaveDone
  PROVE  EditorInv'
<1>1. /\ job = "reopen" /\ job' = "no" /\ pieces' = WholeFile(disk) /\ add' = << >> /\ orig' = disk
      /\ backing' \in Reopened /\ modified' = FALSE /\ base' = disk /\ gen' = gen + 1
      /\ (undo' = << >> /\ redo' = << >> /\ lastOp' = "none") \/ (undo' = undo /\ redo' = redo /\ lastOp' = lastOp)
      /\ env' = env /\ disk' = disk /\ stage' = stage /\ left' = left /\ textLost' = textLost /\ conv' = conv
      /\ shown' = shown /\ edits' = edits
  BY DEF SaveDone, file, history
<1>2. /\ disk \in Seq(Nat) /\ << >> \in Seq(Nat) /\ gen \in Nat
      /\ undo \in Seq(States) /\ redo \in Seq(States) /\ Len(undo) + Len(redo) <= MaxUndo
      /\ StackReads(undo, gen, orig, disk, add, base) /\ StackReads(redo, gen, orig, disk, add, base)
  BY DEF EditorInv, Types, Stacks
<1>3. disk = shown
  BY <1>1 DEF EditorInv, Staged
<1>4. textLost = FALSE
  BY <1>1 DEF EditorInv, Types, Backed
<1>5. pieces' \in Seq(APiece) /\ InRange(pieces', disk, << >>) /\ TextOf(pieces', disk, << >>) = disk
  BY <1>1, <1>2, WholeReads
<1>6. Types'
  <2>1. backing' \in Backings
    BY <1>1 DEF Reopened, Backings
  <2>2. gen' \in Nat
    BY <1>1, <1>2
  <2>3. lastOp' \in {"typing", "other", "none"}
    BY <1>1 DEF EditorInv, Types
  <2>4. modified' \in BOOLEAN /\ textLost' \in BOOLEAN
    BY <1>1, <1>4
  <2> QED BY <1>1, <1>2, <1>5, <2>1, <2>2, <2>3, <2>4 DEF EditorInv, Types, Backings, Jobs
<1>7. Stacks'
  <2>1. CASE undo' = << >> /\ redo' = << >>
    <3>1. << >> \in Seq(States) /\ Len(<< >>) + Len(<< >>) <= MaxUndo
      BY BoundsAssumption
    <3>2. \A g, o, d, a, b : StackReads(<< >>, g, o, d, a, b)
      BY DEF StackReads
    <3> QED BY <2>1, <3>1, <3>2 DEF Stacks
  <2>2. CASE undo' = undo /\ redo' = redo
    <3>1. StackReads(undo, gen + 1, orig', disk', add', base') /\ StackReads(redo, gen + 1, orig', disk', add', base')
      BY <1>2, StackAges
    <3> QED BY <1>1, <1>2, <2>2, <3>1 DEF Stacks
  <2> QED BY <1>1, <2>1, <2>2
<1>8. TableReads'
  <2>1. Reads(pieces', shown', disk, << >>)
    BY <1>1, <1>3, <1>5 DEF Reads
  <2>2. Bounded(pieces', << >>)
    BY <1>5, InRangeBounded
  <2> QED BY <1>1, <2>1, <2>2 DEF TableReads, ReplacedUnderneath
<1>9. Staged'
  BY <1>1 DEF EditorInv, Staged
<1>10. Backed'
  BY <1>1, <1>4 DEF Backed, Reopened
<1>11. Saved'
  BY <1>1, <1>3 DEF Saved
<1> QED BY <1>6, <1>7, <1>8, <1>9, <1>10, <1>11 DEF EditorInv

\* The file is the text, and the old table stays.
LEMMA SaveKeptKeeps ==
  ASSUME EditorInv, SaveKept
  PROVE  EditorInv'
<1>1. /\ job = "reopen" /\ job' = "no" /\ modified' = FALSE /\ textLost' = (backing = "loading")
      /\ undo' = undo /\ redo' = redo /\ lastOp' = lastOp
      /\ env' = env /\ pieces' = pieces /\ add' = add /\ orig' = orig /\ backing' = backing
      /\ disk' = disk /\ stage' = stage /\ left' = left /\ conv' = conv
      /\ shown' = shown /\ edits' = edits /\ base' = base /\ gen' = gen
  BY DEF SaveKept, Save, KeepTable, KeepFile, history
<1>2. disk = shown
  BY <1>1 DEF EditorInv, Staged
<1>3. Types'
  BY <1>1 DEF EditorInv, Types, Jobs
<1>4. Stacks'
  BY <1>1 DEF EditorInv, Stacks
<1>5. TableReads'
  BY <1>1, <1>2 DEF EditorInv, TableReads, ReplacedUnderneath, Local
<1>6. Staged'
  BY <1>1 DEF EditorInv, Staged
<1>7. Backed'
  BY <1>1 DEF EditorInv, Backed
<1>8. Saved'
  BY <1>1, <1>2 DEF Saved
<1> QED BY <1>3, <1>4, <1>5, <1>6, <1>7, <1>8 DEF EditorInv

-----------------------------------------------------------------------------
(***************************************************************************)
(* The theorems                                                            *)
(***************************************************************************)
\* Every step of a save, the first state, and every step of the editor.
LEMMA SaveStepsKeep ==
  ASSUME EditorInv, SaveStep
  PROVE  EditorInv'
BY PatchInPlaceKeeps, PatchFileKeeps, PatchUnavailableKeeps, WriteStageKeeps, ReleaseKeeps, CopyOverKeeps,
   RenameDoneKeeps, RenameWithoutMappingKeeps, RenameRefusedKeeps, RenameUncertainKeeps, SaveDoneKeeps,
   SaveKeptKeeps DEF SaveStep

LEMMA EditorInvStarts == Init => EditorInv
<1> SUFFICES ASSUME Init PROVE EditorInv
  OBVIOUS
<1>1. /\ env \in Environs /\ pieces = WholeFile(Opened) /\ add = << >> /\ orig = Opened
      /\ backing = (IF env.maps THEN "mapping" ELSE "chunks")
      /\ undo = << >> /\ redo = << >> /\ lastOp = "none" /\ modified = FALSE /\ textLost = FALSE
      /\ job = "no" /\ conv = FALSE /\ disk = Opened /\ stage = NoStage /\ shown = Opened /\ base = Opened
      /\ gen = 0 /\ edits = 0
  BY DEF Init
<1>2. Opened \in Seq(Nat) /\ << >> \in Seq(Nat)
  BY OpenedAssumption
<1>3. pieces \in Seq(APiece) /\ InRange(pieces, Opened, << >>) /\ TextOf(pieces, Opened, << >>) = Opened
  BY <1>1, <1>2, WholeReads
<1>4. backing \in {"mapping", "chunks"}
  BY <1>1
<1>5. Types
  BY <1>1, <1>2, <1>3, <1>4, EnvironsAssumption DEF Types, Jobs
<1>6. Stacks
  <2>1. << >> \in Seq(States) /\ Len(<< >>) + Len(<< >>) <= MaxUndo
    BY BoundsAssumption
  <2>2. \A g, o, d, a, b : StackReads(<< >>, g, o, d, a, b)
    BY DEF StackReads
  <2> QED BY <1>1, <2>1, <2>2 DEF Stacks
<1>7. TableReads
  <2>1. Bounded(pieces, << >>)
    BY <1>3, InRangeBounded
  <2>2. Reads(pieces, Opened, Opened, << >>)
    BY <1>3 DEF Reads
  <2> QED BY <1>1, <2>1, <2>2 DEF TableReads, ReplacedUnderneath
<1>8. Staged /\ Backed /\ Saved
  BY <1>1, <1>4 DEF Staged, Backed, Saved
<1> QED BY <1>5, <1>6, <1>7, <1>8 DEF EditorInv

LEMMA EditorInvStays ==
  ASSUME EditorInv, [CalmNext]_vars
  PROVE  EditorInv'
<1>1. CASE job = "no" /\ ~ ReplacedUnderneath /\ Editing
  BY <1>1, EditingKeeps
<1>2. CASE Current(undo) /\ Undo
  BY <1>2, UndoKeeps
<1>3. CASE Current(redo) /\ Redo
  BY <1>3, RedoKeeps
<1>4. ASSUME NEW c \in BOOLEAN, disk = base \/ (c /\ Local), SaveStart(c) PROVE EditorInv'
  BY <1>4, SaveStartKeeps
<1>5. CASE SaveStep
  BY <1>5, SaveStepsKeep
<1>6. CASE UNCHANGED vars
  <2>1. UNCHANGED <<env, pieces, add, orig, backing, undo, redo, lastOp, clean, modified, textLost, job, conv,
                    disk, stage, left, shown, base, gen, edits, saves>>
    BY <1>6 DEF vars, table, history, file, flags, ghosts
  <2> QED BY <2>1 DEF EditorInv, Types, Stacks, TableReads, Staged, Backed, Saved, ReplacedUnderneath, Local
<1> QED BY <1>1, <1>2, <1>3, <1>4, <1>5, <1>6 DEF CalmNext

\* What the theorems below rest on.
THEOREM EditorInvAlways == CalmSpec => []EditorInv
<1>1. EditorInv /\ [CalmNext]_vars => EditorInv'
  BY EditorInvStays
<1> QED BY <1>1, EditorInvStarts, PTL DEF CalmSpec

\* A text that is not lost can be read once no save runs.
LEMMA ReadableIs ==
  ASSUME EditorInv, job = "no", ~ textLost
  PROVE  Readable
<1>1. backing # "loading"
  BY DEF EditorInv, Backed
<1>2. Bounded(pieces, add) /\ pieces \in Seq(APiece) /\ add \in Seq(Nat)
  BY DEF EditorInv, TableReads, Types
<1>3. ~ OutOfBounds(pieces, add)
  <2>1. SUFFICES ASSUME NEW i \in 1..Len(pieces), pieces[i].buf = "add", pieces[i].start + pieces[i].len > Len(add)
                 PROVE  FALSE
    BY DEF OutOfBounds
  <2>2. PICK p \in APiece : p = pieces[i]
    BY <1>2, ElementOfSeq
  <2>3. DOMAIN pieces = 1..Len(pieces)
    BY <1>2
  <2>4. p.start + p.len <= Len(add)
    BY <1>2, <2>1, <2>2, <2>3 DEF Bounded, Within
  <2>5. p.start \in Nat /\ p.len \in Nat /\ Len(add) \in Nat
    BY <1>2 DEF APiece
  <2> QED BY <2>1, <2>2, <2>4, <2>5
<1> QED BY <1>1, <1>3 DEF Readable

\* The table reads as the plain text the edits, undos and redos make of the
\* opened file, whatever buffers a save swaps under it, and it can be read once
\* no save runs, unless the editor says that the text is lost.
THEOREM EditorShowsTheEdits == CalmSpec => []ShowsTheEdits
<1>1. EditorInv => ShowsTheEdits
  <2> SUFFICES ASSUME EditorInv, ~ textLost, ~ ReplacedUnderneath
               PROVE  (Readable => Text = shown) /\ (job = "no" => Readable)
    BY DEF ShowsTheEdits
  <2>1. Text = shown
    BY NotReplaced DEF Reads, Text
  <2>2. job = "no" => Readable
    BY ReadableIs
  <2> QED BY <2>1, <2>2
<1> QED BY <1>1, EditorInvAlways, PTL

\* A text the editor calls unmodified is in the file, or in a stage that a
\* failed rewrite left beside it, also after undoing back to it.
THEOREM EditorCleanIsSaved == CalmSpec => []CleanIsSaved
<1>1. EditorInv => CleanIsSaved
  BY DEF EditorInv, Saved, CleanIsSaved
<1> QED BY <1>1, EditorInvAlways, PTL

\* Whatever step of a save fails, and whether or not its outcome is known, the
\* text is in the file, in a stage beside it, or in the editor to be saved
\* again; only a text that Windows made the editor release may be given up.
THEOREM EditorTextIsSomewhere == CalmSpec => []TextIsSomewhere
<1>1. EditorInv => TextIsSomewhere
  <2> SUFFICES ASSUME EditorInv, job = "no"
               PROVE  \/ shown \in {disk} \cup left
                      \/ ~ textLost /\ Readable /\ Text = shown
                      \/ env.frees /\ textLost
    BY DEF TextIsSomewhere
  <2>1. CASE ReplacedUnderneath
    BY <2>1 DEF EditorInv, TableReads
  <2>2. CASE ~ ReplacedUnderneath /\ textLost
    BY <2>2 DEF EditorInv, Backed
  <2>3. CASE ~ ReplacedUnderneath /\ ~ textLost
    <3>1. Text = shown
      BY <2>3, NotReplaced DEF Reads, Text
    <3> QED BY <2>3, <3>1, ReadableIs
  <2> QED BY <2>1, <2>2, <2>3
<1> QED BY <1>1, EditorInvAlways, PTL

\* The type invariant: no piece is empty, and no stack is longer than its limit.
THEOREM EditorTypeOK == CalmSpec => []TypeOK
<1>p. ASSUME NEW ps \in Seq(APiece), NEW i \in 1..Len(ps) PROVE PieceOK(ps[i])
  <2>1. PICK p \in APiece : p = ps[i]
    BY ElementOfSeq
  <2> QED BY <2>1 DEF APiece, PieceOK
<1>1. EditorInv => TypeOK
  <2> SUFFICES ASSUME EditorInv PROVE TypeOK
    OBVIOUS
  <2>1. /\ env \in Environs /\ pieces \in Seq(APiece) /\ backing \in Backings /\ job \in Jobs
        /\ lastOp \in {"typing", "other", "none"} /\ modified \in BOOLEAN /\ textLost \in BOOLEAN
        /\ undo \in Seq(States) /\ redo \in Seq(States) /\ Len(undo) + Len(redo) <= MaxUndo /\ shown \in Seq(Nat)
    BY DEF EditorInv, Types, Stacks, Backings
  <2>2. \A i \in 1..Len(pieces) : PieceOK(pieces[i])
    BY <1>p, <2>1
  <2>3. ASSUME NEW i \in 1..Len(undo) PROVE \A j \in 1..Len(undo[i].pieces) : PieceOK(undo[i].pieces[j])
    <3>1. PICK st \in States : st = undo[i]
      BY <2>1, ElementOfSeq
    <3>2. st.pieces \in Seq(APiece)
      BY StateIs
    <3> QED BY <1>p, <3>1, <3>2
  <2>4. Len(undo) <= MaxUndo /\ Len(redo) <= MaxUndo
    <3>1. PICK i \in Nat, j \in Nat : i = Len(undo) /\ j = Len(redo)
      BY <2>1
    <3> QED BY <2>1, <3>1, BoundsAssumption
  <2>5. stage = NoStage <=> job \notin {"release", "copyover", "rename"}
    BY <2>1, NoStageIsNone DEF EditorInv, Staged
  <2> QED BY <2>1, <2>2, <2>3, <2>4, <2>5 DEF TypeOK, Backings, Jobs
<1> QED BY <1>1, EditorInvAlways, PTL
===============================================================================
