---------------------------- MODULE GbMediaProofs ----------------------------
(***************************************************************************)
(* For every stream, window, buffer and fragment limit: what reaches the   *)
(* file is a NALU that was sent, whatever is lost, repeated, late, out of  *)
(* order or given up, up to the first packet taken for what it is not.     *)
(*                                                                         *)
(* The argument names what the sender has cut so far, "past": a sequence   *)
(* of pieces of the stream's NALUs, piece k in the packet numbered         *)
(* NumberOf(k).  It is in no variable: the invariant says that there is    *)
(* one that explains the whole state.                                      *)
(*   WirePast   every packet on its way carries a piece of past            *)
(*   SlotPast   every slot of the window holds a piece that goes on with a *)
(*              NALU                                                       *)
(*   NaluPast   the buffer holds a NALU up to the end of a piece, and the  *)
(*              number expected is that of the piece after it              *)
(* The heart is Successor: where a fragment bears the number expected, and *)
(* no two packets have the same number, it is the next piece of the NALU   *)
(* in the buffer.  So is what a run lets out of the window (RunFollows),   *)
(* and pieces that follow one another, flattened into the buffer, are the  *)
(* piece they cover (FlattenPieces).                                       *)
(* The file's order (FileIsInOrder) needs to know besides whose NALU each  *)
(* one in the file is, and that what is on its way comes after it (Order). *)
(* What a loss costs (LossCostsOneNalu) needs every piece's whereabouts:   *)
(* on the wire, in the window, given up by the sender, or lost (Loss).     *)
(* From these invariants, each step is one of GbNaluFile or no step at all.*)
(* They hold of the packets that were read well (ReadWell); from the first *)
(* one that was not, Trusted stands still, and nothing is asked but that   *)
(* what a loss can still hit comes after every call in the file (Passed).  *)
(* Where the bytes of the stream cannot be mistaken there is no such       *)
(* packet (NothingIsMisread).                                              *)
(*                                                                         *)
(* What a fold computes is proved by induction over the natural numbers,   *)
(* which the library's WFMin gives without a predicate as parameter: the   *)
(* property is a set T, and a smallest number outside T has none before.   *)
(***************************************************************************)
EXTENDS GbMedia, FiniteSetTheorems, SequenceTheorems, WellFoundedInduction, TLAPS

-----------------------------------------------------------------------------
(* Induction, and what FlattenSeq computes.                                *)

\* What holds of 0, and of n + 1 where it holds of n, holds of every number.
LEMMA Induction ==
    ASSUME NEW T, 0 \in T, \A n \in Nat : n \in T => n + 1 \in T
    PROVE  Nat \subseteq T
<1> SUFFICES ASSUME Nat \ T # {} PROVE FALSE
    OBVIOUS
<1>1. PICK x \in Nat \ T : \A y \in Nat \ T : ~ (<<y, x>> \in OpToRel(<, Nat))
    <2>1. Nat \ T \subseteq Nat OBVIOUS
    <2> QED BY <2>1, NatLessThanWellFounded, WFMin
<1>2. x - 1 \in Nat \ T
    OBVIOUS
<1>3. <<x - 1, x>> \in OpToRel(<, Nat)
    BY <1>2 DEF OpToRel
<1> QED BY <1>1, <1>2, <1>3

\* FlattenSeq is a CHOOSE: there is a function such as it asks for.
LEMMA FlattenUnfolds ==
    ASSUME NEW n \in Nat, NEW e
    PROVE  \E f : f = [i \in 1 .. n |-> IF i = 1 THEN e[i] ELSE f[i - 1] \o e[i]]
<1> DEFINE T == {m \in Nat : \E f :
                   f = [i \in 1 .. m |-> IF i = 1 THEN e[i] ELSE f[i - 1] \o e[i]]}
<1>1. 0 \in T
  <2>1. [i \in {} |-> 0] = [i \in 1 .. 0 |-> IF i = 1 THEN e[i]
                                             ELSE [j \in {} |-> 0][i - 1] \o e[i]]
        OBVIOUS
  <2> QED BY <2>1
<1>2. ASSUME NEW m \in Nat, m \in T PROVE m + 1 \in T
  <2>1. PICK f : f = [i \in 1 .. m |-> IF i = 1 THEN e[i] ELSE f[i - 1] \o e[i]]
        BY <1>2
  <2>2. \A i \in 1 .. m : f[i] = IF i = 1 THEN e[i] ELSE f[i - 1] \o e[i]
        BY <2>1, Zenon
  <2>3. PICK g : g = [i \in 1 .. m + 1 |-> IF i <= m THEN f[i]
                                           ELSE IF i = 1 THEN e[i] ELSE f[i - 1] \o e[i]]
        OBVIOUS
  <2>4. \A i \in 1 .. m + 1 : g[i] = IF i <= m THEN f[i]
                                     ELSE IF i = 1 THEN e[i] ELSE f[i - 1] \o e[i]
        BY <2>3, Zenon
  <2>5. ASSUME NEW i \in 1 .. m + 1
        PROVE  g[i] = IF i = 1 THEN e[i] ELSE g[i - 1] \o e[i]
    <3>1. CASE i = 1
        BY <2>2, <2>4, <3>1
    <3>2. CASE i > 1
      <4>1. i - 1 \in 1 .. m + 1 /\ i - 1 <= m
            BY <3>2
      <4>2. g[i - 1] = f[i - 1]
            BY <4>1, <2>4, Zenon
      <4>3. i # 1 /\ (i \in 1 .. m \/ ~(i <= m))
            BY <3>2
      <4>4. g[i] = f[i - 1] \o e[i]
            BY <4>3, <2>2, <2>4, Zenon
      <4>5. g[i] = g[i - 1] \o e[i]
            BY <4>2, <4>4, Zenon
      <4> QED BY <4>3, <4>5, Zenon
    <3> QED BY <3>1, <3>2
  <2>6. g = [i \in 1 .. m + 1 |-> IF i = 1 THEN e[i] ELSE g[i - 1] \o e[i]]
        BY <2>3, <2>5
  <2>7. \E h : h = [i \in 1 .. m + 1 |-> IF i = 1 THEN e[i] ELSE h[i - 1] \o e[i]]
        BY <2>6, Zenon
  <2>8. m + 1 \in Nat
        OBVIOUS
  <2> QED BY <2>7, <2>8, Zenon
<1>3. Nat \subseteq T
  <2> HIDE DEF T
  <2> QED BY <1>1, <1>2, Induction
<1> QED BY <1>3

\* What FlattenSeq computes, one element after the other.
LEMMA FlattenStep ==
    ASSUME NEW e, NEW n \in Nat \ {0}, Len(e) = n
    PROVE  \E f : /\ FlattenSeq(e) = f[n] /\ f[1] = e[1]
                  /\ \A i \in 2 .. n : f[i] = f[i - 1] \o e[i]
<1> DEFINE F == CHOOSE f : f = [i \in 1 .. n |-> IF i = 1 THEN e[i] ELSE f[i - 1] \o e[i]]
<1>1. F = [i \in 1 .. n |-> IF i = 1 THEN e[i] ELSE F[i - 1] \o e[i]]
  <2>1. \E f : f = [i \in 1 .. n |-> IF i = 1 THEN e[i] ELSE f[i - 1] \o e[i]]
        BY FlattenUnfolds
  <2> QED BY <2>1, Zenon
<1>2. FlattenSeq(e) = F[n]
    BY DEF FlattenSeq
<1> HIDE DEF F
<1>3. \A i \in 1 .. n : F[i] = IF i = 1 THEN e[i] ELSE F[i - 1] \o e[i]
    BY <1>1, Zenon
<1>4. F[1] = e[1]
    BY <1>3
<1>5. ASSUME NEW i \in 2 .. n PROVE F[i] = F[i - 1] \o e[i]
  <2>1. i \in 1 .. n /\ i # 1
        OBVIOUS
  <2> QED BY <1>3, <2>1, Zenon
<1> QED BY <1>2, <1>4, <1>5, Zenon

LEMMA ThreePieces ==
    ASSUME NEW A
    PROVE  \A x, y, z \in Seq(A) : (x \o y) \o z = x \o (y \o z)
OBVIOUS

\* Consecutive pieces of a sequence, put together, are the piece they cover.
LEMMA FlattenPieces ==
    ASSUME NEW A, NEW b \in Seq(A), NEW n \in Nat,
           NEW cut \in [0 .. n -> 0 .. Len(b)],
           \A j \in 1 .. n : cut[j - 1] <= cut[j],
           NEW e
    PROVE  e = [j \in 1 .. n |-> SubSeq(b, cut[j - 1] + 1, cut[j])]
             => FlattenSeq(e) = SubSeq(b, cut[0] + 1, cut[n])
<1>0. SUFFICES ASSUME e = [j \in 1 .. n |-> SubSeq(b, cut[j - 1] + 1, cut[j])]
               PROVE  FlattenSeq(e) = SubSeq(b, cut[0] + 1, cut[n])
    OBVIOUS
<1>1. Len(e) = n /\ Len(b) \in Nat /\ (n = 0 => e = <<>>)
    BY <1>0
<1>2. \A j \in 0 .. n : cut[j] \in 0 .. Len(b)
    OBVIOUS
<1>3. \A j \in 1 .. n : e[j] = SubSeq(b, cut[j - 1] + 1, cut[j])
    BY <1>0
<1>4. CASE n = 0
  <2>1. cut[0] + 1 \in Int /\ cut[0] \in Int /\ cut[0] < cut[0] + 1
        BY <1>2, <1>4
  <2>2. SubSeq(b, cut[0] + 1, cut[0]) = <<>>
        BY <2>1, SubSeqEmpty
  <2> QED BY <2>2, <1>1, <1>4 DEF FlattenSeq
<1>5. CASE n > 0
  <2>0. n \in Nat \ {0}
        BY <1>5
  <2>1. PICK f : /\ FlattenSeq(e) = f[n] /\ f[1] = e[1]
                 /\ \A i \in 2 .. n : f[i] = f[i - 1] \o e[i]
        BY <1>1, <2>0, FlattenStep
  <2> DEFINE T == {m \in Nat : \A k \in 1 .. n : k = m + 1 =>
                     f[k] = SubSeq(b, cut[0] + 1, cut[k]) /\ cut[0] <= cut[k]}
  <2>2. 0 \in T
    <3>1. 1 \in 1 .. n /\ 1 - 1 = 0 /\ 0 + 1 = 1
          BY <1>5
    <3>2. e[1] = SubSeq(b, cut[0] + 1, cut[1]) /\ cut[0] <= cut[1]
          BY <1>3, <3>1
    <3> QED BY <3>2, <3>1, <2>1
  <2>3. ASSUME NEW m \in Nat, m \in T PROVE m + 1 \in T
    <3> SUFFICES ASSUME NEW l \in 1 .. n, l = (m + 1) + 1
                 PROVE  f[l] = SubSeq(b, cut[0] + 1, cut[l]) /\ cut[0] <= cut[l]
        OBVIOUS
    <3> DEFINE k == l - 1
    <3>0. k \in 1 .. n /\ k = m + 1
          OBVIOUS
    <3>1. f[k] = SubSeq(b, cut[0] + 1, cut[k]) /\ cut[0] <= cut[k]
          BY <2>3, <3>0
    <3>2. l \in 2 .. n /\ l \in 1 .. n /\ l - 1 = k /\ k \in 0 .. n
          OBVIOUS
    <3>3. f[l] = f[k] \o e[l]
          BY <3>2, <2>1
    <3>4. e[l] = SubSeq(b, cut[k] + 1, cut[l])
          BY <3>2, <1>3
    <3>5. cut[0] \in 0 .. Len(b) /\ cut[k] \in 0 .. Len(b) /\ cut[l] \in 0 .. Len(b)
          BY <3>2, <1>2
    <3>6. cut[k] <= cut[l]
          BY <3>2
    <3>7. /\ cut[0] + 1 \in 1 .. Len(b) + 1
          /\ cut[k] \in (cut[0] + 1) - 1 .. Len(b)
          /\ cut[l] \in cut[k] .. Len(b)
      <4> DEFINE L == Len(b)
                 x == cut[0]
                 y == cut[k]
                 z == cut[l]
      <4>1. x <= y /\ y <= z /\ L \in Nat /\ x \in 0 .. L /\ y \in 0 .. L /\ z \in 0 .. L
            BY <3>1, <3>5, <3>6, <1>1
      <4> HIDE DEF x, y, z, L
      <4>2. x + 1 \in 1 .. L + 1 /\ y \in (x + 1) - 1 .. L /\ z \in y .. L
            BY <4>1
      <4> QED BY <4>2 DEF x, y, z, L
    <3>8. SubSeq(b, cut[0] + 1, cut[k]) \o SubSeq(b, cut[k] + 1, cut[l])
            = SubSeq(b, cut[0] + 1, cut[l])
          BY <3>7, ConcatAdjacentSubSeq
    <3>9. cut[0] <= cut[l]
          BY <3>1, <3>5, <3>6
    <3> QED BY <3>1, <3>3, <3>4, <3>8, <3>9
  <2>4. Nat \subseteq T
    <3> HIDE DEF T
    <3> QED BY <2>2, <2>3, Induction
  <2>5. n - 1 \in Nat /\ (n - 1) + 1 = n /\ n \in 1 .. n
        BY <1>5
  <2>6. f[n] = SubSeq(b, cut[0] + 1, cut[n])
        BY <2>4, <2>5, Zenon
  <2> QED BY <2>1, <2>6
<1> QED BY <1>4, <1>5

-----------------------------------------------------------------------------
(* Numbers modulo m, quotients, the smallest and the largest of a set.     *)

LEMMA ModDef ==
    ASSUME NEW m \in Nat \ {0}, NEW x \in Int
    PROVE  x % m \in 0 .. m - 1 /\ \E q \in Int : x = m * q + (x % m)
<1>1. x \div m \in Int /\ x = m * (x \div m) + (x % m) /\ x % m \in 0 .. m - 1
    OBVIOUS
<1> QED BY <1>1

LEMMA MulSmall ==
    ASSUME NEW m \in Nat \ {0}, NEW d \in Int, m * d < m, 0 - m < m * d
    PROVE  d = 0
<1>1. CASE d >= 1
  <2>1. m * d >= m
        BY <1>1
  <2> QED BY <2>1
<1>2. CASE d <= 0 - 1
  <2>1. m * d <= 0 - m
        BY <1>2
  <2> QED BY <2>1
<1> QED BY <1>1, <1>2

\* Numbers less than m apart that are the same modulo m are the same.
LEMMA ModInjective ==
    ASSUME NEW m \in Nat \ {0}, NEW x \in Int, NEW y \in Int,
           x % m = y % m, x - y < m, y - x < m
    PROVE  x = y
<1>1. PICK q \in Int : x = m * q + (x % m)
    BY ModDef
<1>2. PICK r \in Int : y = m * r + (y % m)
    BY ModDef
<1>3. x - y = m * (q - r)
    BY <1>1, <1>2, ModDef
<1>4. m * (q - r) < m /\ 0 - m < m * (q - r)
    BY <1>3
<1>5. q - r = 0
    BY <1>4, MulSmall
<1> QED BY <1>3, <1>5

LEMMA ModPlus ==
    ASSUME NEW m \in Nat \ {0}, NEW x \in Int, NEW y \in Int
    PROVE  ((x % m) + y) % m = (x + y) % m
<1> DEFINE r == x % m
           a == (r + y) % m
           b == (x + y) % m
<1>1. r \in Int /\ r + y \in Int /\ x + y \in Int
    BY ModDef
<1>2. PICK q \in Int : x = m * q + r
    BY ModDef
<1>3. PICK q1 \in Int : r + y = m * q1 + a
  <2> HIDE DEF r
  <2> QED BY <1>1, ModDef
<1>4. PICK q2 \in Int : x + y = m * q2 + b
  <2> HIDE DEF r
  <2> QED BY <1>1, ModDef
<1>5. a \in 0 .. m - 1 /\ b \in 0 .. m - 1
    BY <1>1, ModDef
<1> HIDE DEF r, a, b
<1>6. b - a = m * (q + q1 - q2)
  <2>1. b - a = m * q + m * q1 - m * q2
        BY <1>1, <1>2, <1>3, <1>4, <1>5
  <2> QED BY <2>1
<1>7. m * (q + q1 - q2) < m /\ 0 - m < m * (q + q1 - q2)
  <2>1. b - a < m /\ 0 - m < b - a
        BY <1>5
  <2> QED BY <1>6, <2>1
<1>8. q + q1 - q2 = 0
    BY <1>7, MulSmall
<1>9. m * (q + q1 - q2) = 0
    BY <1>8
<1> QED BY <1>5, <1>6, <1>9 DEF a, b, r

LEMMA DivStep ==
    ASSUME NEW r \in Nat \ {0}, NEW x \in Nat PROVE (x + r) \div r = (x \div r) + 1
OBVIOUS

LEMMA DivPos ==
    ASSUME NEW r \in Nat \ {0}, NEW x \in Nat
    PROVE  (x \div r) \in Nat /\ (x >= r => (x \div r) >= 1)
OBVIOUS

LEMMA ModStep ==
    ASSUME NEW m \in Nat \ {0}, NEW a \in 0 .. m - 1, NEW i \in 0 .. m
    PROVE  (a + i) % m = IF a + i < m THEN a + i ELSE a + i - m
OBVIOUS

LEMMA MinInSet ==
    ASSUME NEW T, T \subseteq Nat, T # {}
    PROVE  Min(T) \in T /\ \A y \in T : Min(T) <= y
<1>1. PICK x \in T : \A y \in T : ~ (<<y, x>> \in OpToRel(<, Nat))
    BY NatLessThanWellFounded, WFMin
<1>2. ASSUME NEW y \in T PROVE x <= y
  <2>1. x \in Nat /\ y \in Nat
        OBVIOUS
  <2>2. y < x => <<y, x>> \in OpToRel(<, Nat)
        BY <2>1 DEF OpToRel
  <2>3. ~ (y < x)
        BY <1>1, <2>2, Zenon
  <2> QED BY <2>1, <2>3
<1> QED BY <1>2 DEF Min

\* The library defines Max and Min by CHOOSE.
LEMMA MaxInRange ==
    ASSUME NEW n \in Nat, NEW T, T \subseteq 0 .. n, T # {}
    PROVE  Max(T) \in T /\ \A y \in T : y <= Max(T)
<1> DEFINE D == {d \in 0 .. n : n - d \in T}
<1>1. D \subseteq Nat /\ D # {}
  <2>1. PICK t \in T : TRUE
        OBVIOUS
  <2>2. n - t \in D
        BY <2>1
  <2> QED BY <2>2
<1> DEFINE x == n - Min(D)
<1>2. x \in T /\ \A y \in T : y <= x
  <2> HIDE DEF D
  <2>1. Min(D) \in D /\ \A y \in D : Min(D) <= y
        BY <1>1, MinInSet
  <2>2. x \in T
        BY <2>1 DEF D
  <2>3. ASSUME NEW y \in T PROVE y <= x
    <3>1. n - y \in D
          BY DEF D
    <3> QED BY <2>1, <3>1 DEF D
  <2> QED BY <2>2, <2>3
<1> QED BY <1>2 DEF Max

\* The type of what FlattenSeq puts together.
LEMMA FlattenType ==
    ASSUME NEW A, NEW e, NEW n \in Nat, Len(e) = n, n = 0 => e = <<>>,
           \A i \in 1 .. n : e[i] \in Seq(A)
    PROVE  FlattenSeq(e) \in Seq(A)
<1>1. CASE n = 0
    BY <1>1 DEF FlattenSeq
<1>2. CASE n > 0
  <2>0. n \in Nat \ {0}
        BY <1>2
  <2>1. PICK f : /\ FlattenSeq(e) = f[n] /\ f[1] = e[1]
                 /\ \A i \in 2 .. n : f[i] = f[i - 1] \o e[i]
        BY <2>0, FlattenStep
  <2> DEFINE T == {m \in Nat : \A k \in 1 .. n : k = m + 1 => f[k] \in Seq(A)}
  <2>2. 0 \in T
    <3>1. 1 \in 1 .. n
          BY <1>2
    <3> QED BY <2>1, <3>1
  <2>3. ASSUME NEW m \in Nat, m \in T PROVE m + 1 \in T
    <3> SUFFICES ASSUME NEW l \in 1 .. n, l = (m + 1) + 1 PROVE f[l] \in Seq(A)
        OBVIOUS
    <3> DEFINE k == l - 1
    <3>1. k \in 1 .. n /\ k = m + 1 /\ l \in 2 .. n
          OBVIOUS
    <3>2. f[k] \in Seq(A) /\ e[l] \in Seq(A)
          BY <2>3, <3>1
    <3>3. f[l] = f[k] \o e[l]
          BY <2>1, <3>1
    <3> HIDE DEF k
    <3> QED BY <3>2, <3>3, ConcatProperties
  <2>4. Nat \subseteq T
    <3> HIDE DEF T
    <3> QED BY <2>2, <2>3, Induction
  <2>5. n - 1 \in Nat /\ (n - 1) + 1 = n /\ n \in 1 .. n
        BY <1>2
  <2>6. f[n] \in Seq(A)
        BY <2>4, <2>5, Zenon
  <2> QED BY <2>1, <2>6
<1> QED BY <1>1, <1>2

-----------------------------------------------------------------------------
(* The receiver's buffer.                                                  *)

LEMMA MinOfTwo ==
    ASSUME NEW a \in Int, NEW b \in Int
    PROVE  /\ Min({a, b}) = IF a <= b THEN a ELSE b
           /\ S!Min({a, b}) = IF a <= b THEN a ELSE b
BY DEF Min, S!Min

\* The bytes of the buffer behind the NALU header
BufferRoom(is_h265) == BufferSize - HeaderSize(is_h265)

LEMMA BufferRoomType ==
    ASSUME NEW h \in BOOLEAN PROVE BufferRoom(h) \in Nat \ {0}
BY WindowAssumption DEF BufferRoom, HeaderSize

\* What the buffer holds: all of it, or as much as has room.
LEMMA BufferedIs ==
    ASSUME NEW A, NEW s \in Seq(A), NEW h \in BOOLEAN
    PROVE  /\ Len(s) <= BufferRoom(h) => Buffered(h, s) = s
           /\ Len(s) > BufferRoom(h) => Buffered(h, s) = SubSeq(s, 1, BufferRoom(h))
           /\ Buffered(h, s) \in Seq(A)
           /\ Len(Buffered(h, s)) + HeaderSize(h) <= BufferSize
<1> DEFINE r == BufferRoom(h)
<1>1. r \in Nat \ {0} /\ Len(s) \in Nat /\ r = BufferSize - HeaderSize(h)
      /\ BufferSize \in Nat /\ HeaderSize(h) \in Nat
    BY BufferRoomType, WindowAssumption DEF BufferRoom, HeaderSize
<1>2. Buffered(h, s) = SubSeq(s, 1, IF Len(s) <= r THEN Len(s) ELSE r)
    BY <1>1, MinOfTwo DEF Buffered
<1> HIDE DEF r
<1>3. CASE Len(s) <= r
  <2>1. Buffered(h, s) = s
        BY <1>2, <1>3, SubSeqFull
  <2> QED BY <1>1, <1>3, <2>1 DEF r
<1>4. CASE Len(s) > r
  <2>1. Buffered(h, s) = SubSeq(s, 1, r) /\ ~(Len(s) <= r)
        BY <1>1, <1>2, <1>4
  <2>2. \A i \in 1 .. r : s[i] \in A
        BY <1>1, <1>4, ElementOfSeq
  <2>3. SubSeq(s, 1, r) \in Seq(A) /\ Len(SubSeq(s, 1, r)) = r
        BY <1>1, <2>2, SubSeqProperties
  <2> QED BY <1>1, <1>4, <2>1, <2>3 DEF r
<1> QED BY <1>1, <1>3, <1>4

\* Cutting what is there before a fragment is appended, or only afterwards,
\* is the same.
LEMMA BufferedExtends ==
    ASSUME NEW A, NEW b \in Seq(A), NEW h \in BOOLEAN,
           NEW o \in 0 .. Len(b), NEW z \in o .. Len(b)
    PROVE  Buffered(h, Buffered(h, SubSeq(b, 1, o)) \o SubSeq(b, o + 1, z))
             = Buffered(h, SubSeq(b, 1, z))
<1> DEFINE r == BufferRoom(h)
           x == SubSeq(b, 1, o)
           y == SubSeq(b, o + 1, z)
           w == SubSeq(b, 1, z)
<1>1. r \in Nat \ {0} /\ Len(b) \in Nat
    BY BufferRoomType
<1>2. /\ x \in Seq(A) /\ Len(x) = o
      /\ y \in Seq(A) /\ Len(y) = z - o
      /\ w \in Seq(A) /\ Len(w) = z
    BY <1>1, ElementOfSeq, SubSeqProperties
<1>3. x \o y = w
    BY <1>1, ConcatAdjacentSubSeq
<1>4. CASE o <= r
  <2> HIDE DEF x, y, w, r
  <2>1. Buffered(h, x) = x
        BY <1>2, <1>4, BufferedIs DEF r
  <2> QED BY <1>3, <2>1 DEF x, y, w
<1>5. CASE o > r
  <2>1. SubSeq(x, 1, r) = SubSeq(b, 1, r) /\ SubSeq(w, 1, r) = SubSeq(b, 1, r)
    <3>1. 1 \in 1 .. Len(b) /\ o \in 1 .. Len(b) /\ z \in 1 .. Len(b)
          /\ 1 \in 1 .. o - 1 + 1 /\ r \in 1 .. o - 1 + 1
          /\ 1 \in 1 .. z - 1 + 1 /\ r \in 1 .. z - 1 + 1 /\ 1 + r - 1 = r
          BY <1>1, <1>5
    <3> HIDE DEF r
    <3> QED BY <3>1, SubSeqOfSubSeq
  <2> DEFINE v == SubSeq(b, 1, r)
  <2>2. v \in Seq(A) /\ Len(v) = r
        BY <1>1, <1>5, ElementOfSeq, SubSeqProperties
  <2> HIDE DEF x, y, w, v
  <2>3. Buffered(h, x) = v /\ Buffered(h, w) = v
    <3>1. Len(x) > BufferRoom(h) /\ Len(w) > BufferRoom(h)
          BY <1>1, <1>2, <1>5
    <3>2. Buffered(h, x) = SubSeq(x, 1, r) /\ Buffered(h, w) = SubSeq(w, 1, r)
          BY <1>2, <3>1, BufferedIs
    <3> QED BY <2>1, <3>2 DEF v
  <2>4. Buffered(h, v \o y) = v
    <3>1. v \o y \in Seq(A) /\ Len(v \o y) = r + (z - o)
      <4>1. y \in Seq(A) /\ Len(y) = z - o
            BY <1>2
      <4> HIDE DEF r
      <4> QED BY ONLY <2>2, <4>1, ConcatProperties
    <3>2. CASE z - o = 0
      <4>1. Len(v \o y) <= BufferRoom(h) /\ y = <<>>
            BY <1>1, <3>1, <3>2, <1>2
      <4>2. v \o y = v
            BY <4>1, <2>2, ConcatEmptySeq
      <4>3. Buffered(h, v \o y) = v \o y
            BY <3>1, <4>1, BufferedIs
      <4> QED BY <4>2, <4>3
    <3>3. CASE z - o > 0
      <4>1. Buffered(h, v \o y) = SubSeq(v \o y, 1, r)
        <5>1. Len(v \o y) > BufferRoom(h)
              BY <1>1, <3>1, <3>3
        <5> QED BY <3>1, <5>1, BufferedIs
      <4>2. SubSeq(v \o y, 1, r) = SubSeq(v, 1, r)
        <5>1. 1 \in 1 .. Len(v) /\ r \in 1 .. Len(v)
              BY <1>1, <2>2
        <5> HIDE DEF r
        <5> QED BY <5>1, <1>2, <2>2, SubSeqOfConcat1
      <4> QED BY <4>1, <4>2, <2>2, SubSeqFull
    <3> QED BY <3>2, <3>3
  <2> QED BY <2>3, <2>4 DEF x, y, w
<1> QED BY <1>1, <1>4, <1>5

-----------------------------------------------------------------------------
(* The reorder window.                                                     *)

\* Run counts fragments that are in the window, one slot for each.
LEMMA RunIs ==
    ASSUME NEW s \in SeqNumbers
    PROVE  /\ Run(s) \in 0 .. Window
           /\ \A j \in 1 .. Run(s) : SlotAfter(s, j) \in Stored((s + j) % SeqModulus)
<1> DEFINE K == {k \in 0 .. Window : \A j \in 1 .. k :
                   /\ Stored((s + j) % SeqModulus) # {}
                   /\ j < k => ~reorder[SlotAfter(s, j)].end}
<1>1. Window \in Nat
    BY WindowAssumption
<1>2. 0 \in K
    BY <1>1
<1>3. Run(s) = Max(K)
    BY DEF Run
<1>4. Max(K) \in K
  <2>1. K \subseteq 0 .. Window
        OBVIOUS
  <2> HIDE DEF K
  <2> QED BY <1>1, <1>2, <2>1, MaxInRange
<1>5. Run(s) \in 0 .. Window
    BY <1>3, <1>4
<1>6. ASSUME NEW j \in 1 .. Run(s)
      PROVE  SlotAfter(s, j) \in Stored((s + j) % SeqModulus)
  <2> DEFINE Slots == Stored((s + j) % SeqModulus)
  <2>1. Slots # {}
        BY <1>3, <1>4
  <2>2. Slots \subseteq Nat
        BY <1>1 DEF Stored
  <2> HIDE DEF Slots
  <2>3. Min(Slots) \in Slots
        BY <2>1, <2>2, MinInSet
  <2> QED BY <2>3 DEF Slots, SlotAfter
<1> QED BY <1>5, <1>6

LEMMA FreeSlotIs ==
    ASSUME FreeSlots # {}
    PROVE  Min(FreeSlots) \in FreeSlots /\ FreeSlots \subseteq 1 .. Window
<1>1. FreeSlots \subseteq 1 .. Window /\ FreeSlots \subseteq Nat
    BY WindowAssumption DEF FreeSlots
<1> QED BY <1>1, MinInSet

-----------------------------------------------------------------------------
(* Types.                                                                  *)

Slots == [used : BOOLEAN, seq : SeqNumbers, end : BOOLEAN, data : Seq(Bytes)]

Packets == [call : S!Calls, fu : BOOLEAN, seq : SeqNumbers, timestamp : Nat,
            is_h265 : BOOLEAN, kept : KeptBits, type : NaluTypes,
            start : BOOLEAN, end : BOOLEAN, data : Seq(Bytes)]

LEMMA ConstantTypes ==
    /\ SeqModulus \in Nat \ {0} /\ Window \in Nat \ {0} /\ MaxFragments \in Nat \ {0}
    /\ SeqNumbers = 0 .. SeqModulus - 1 /\ 0 \in SeqNumbers
    /\ FreeSlot \in Slots /\ FreeNalu \in Nalus
    /\ Len(FreeNalu.body) + HeaderSize(FreeNalu.is_h265) <= BufferSize
<1>1. (CHOOSE k \in KeptBits : TRUE) \in KeptBits /\ (CHOOSE t \in NaluTypes : TRUE) \in NaluTypes
    BY WindowAssumption
<1> QED BY <1>1, WindowAssumption DEF SeqNumbers, FreeSlot, Slots, FreeNalu, Nalus, HeaderSize

LEMMA SeqAfterType ==
    ASSUME NEW s \in Int, NEW k \in Nat
    PROVE  (s + k) % SeqModulus \in SeqNumbers
<1>1. s + k \in Int /\ SeqModulus \in Nat \ {0}
    BY ConstantTypes
<1> QED BY <1>1, ConstantTypes, ModDef

LEMMA ResetType ==
    ASSUME FuTypeOK, Reset, written' \in Seq(Nalus)
    PROVE  FuTypeOK'
<1>1. [i \in 1 .. Window |-> FreeSlot] \in [1 .. Window -> Slots]
    BY ConstantTypes
<1>2. reorder' \in [1 .. Window -> Slots]
    BY <1>1 DEF Reset
<1>3. 0 \in 0 .. MaxFragments + Window
    BY ConstantTypes
<1> QED BY <1>2, <1>3, ConstantTypes DEF FuTypeOK, Reset, Slots

\* The fields of a fragment, those of a packet or those guessed for it
IsFragment(p) ==
    /\ p.seq \in SeqNumbers /\ p.timestamp \in Nat /\ p.is_h265 \in BOOLEAN
    /\ p.kept \in KeptBits /\ p.type \in NaluTypes
    /\ p.start \in BOOLEAN /\ p.end \in BOOLEAN /\ p.data \in Seq(Bytes)

LEMMA CutType ==
    ASSUME FuTypeOK, NEW p, IsFragment(p)
    PROVE  Cut(p) \in Seq(Bytes)
<1>1. /\ p.data \in Seq(Bytes) /\ p.is_h265 \in BOOLEAN /\ nalu.is_h265 \in BOOLEAN
      /\ <<FuHeader>> \in Seq(Bytes)
    BY WindowAssumption DEF IsFragment, FuTypeOK, Nalus
<1>2. <<FuHeader>> \o p.data \in Seq(Bytes)
    BY <1>1, ConcatProperties
<1>3. SubSeq(p.data, 2, Len(p.data)) \in Seq(Bytes)
  <2>1. Len(p.data) \in Nat /\ \A i \in 2 .. Len(p.data) : p.data[i] \in Bytes
        BY <1>1
  <2> QED BY <2>1, SubSeqProperties
<1> QED BY <1>1, <1>2, <1>3 DEF Cut

LEMMA BeginType ==
    ASSUME FuTypeOK, NEW p, IsFragment(p), Start(p)
    PROVE  FuTypeOK'
<1> DEFINE n == [is_h265 |-> p.is_h265, kept |-> p.kept, type |-> p.type,
                 body |-> Buffered(p.is_h265, p.data)]
<1>1. /\ p.is_h265 \in BOOLEAN /\ p.kept \in KeptBits /\ p.type \in NaluTypes
      /\ p.data \in Seq(Bytes) /\ p.seq \in SeqNumbers /\ p.timestamp \in Nat
    BY DEF IsFragment
<1>2. /\ Buffered(p.is_h265, p.data) \in Seq(Bytes)
      /\ Len(Buffered(p.is_h265, p.data)) + HeaderSize(p.is_h265) <= BufferSize
    BY <1>1, BufferedIs
<1>3. n \in Nalus /\ Len(n.body) + HeaderSize(n.is_h265) <= BufferSize
    BY <1>1, <1>2 DEF Nalus
<1> HIDE DEF n
<1>4. CASE Complete(n)
  <2>1. written' \in Seq(Nalus)
        BY <1>3, <1>4 DEF FuTypeOK, Complete
  <2> QED BY <1>4, <2>1, ResetType DEF Complete
<1>5. CASE /\ active' = TRUE /\ timestamp' = p.timestamp
           /\ expected_seq' = SeqAfter(p.seq) /\ pending_fragments' = 1
           /\ nalu' = n /\ expired' = FALSE /\ UNCHANGED <<reorder, written>>
  <2>1. SeqAfter(p.seq) \in SeqNumbers
    <3>1. p.seq \in Int
          BY <1>1, ConstantTypes
    <3> QED BY <3>1, SeqAfterType DEF SeqAfter
  <2>2. 1 \in 0 .. MaxFragments + Window
        BY ConstantTypes
  <2> QED BY <1>1, <1>3, <1>5, <2>1, <2>2 DEF FuTypeOK
<1> QED BY <1>4, <1>5 DEF Start, Begin, n

LEMMA StoreType ==
    ASSUME FuTypeOK, NEW p, IsFragment(p), Store(p)
    PROVE  FuTypeOK'
<1> DEFINE s == [used |-> TRUE, seq |-> p.seq, end |-> p.end, data |-> Cut(p)]
<1>1. s \in Slots
    BY CutType DEF IsFragment, Slots
<1>2. reorder \in [1 .. Window -> Slots]
    BY DEF FuTypeOK, Slots
<1>3. reorder' = [reorder EXCEPT ![Min(FreeSlots)] = s]
    BY DEF Store
<1> HIDE DEF s
<1>4. reorder' \in [1 .. Window -> Slots]
    BY <1>1, <1>2, <1>3
<1> QED BY <1>4 DEF FuTypeOK, Store, Slots

\* Continuing a NALU, and what a run lets out of the window, keeps the types.
LEMMA ContinueType ==
    ASSUME FuTypeOK, NEW p, IsFragment(p), Continue(p)
    PROVE  FuTypeOK'
<1> DEFINE run == IF p.end THEN 0 ELSE Run(p.seq)
           drained == [j \in 1 .. run |-> SlotAfter(p.seq, j)]
           last == IF run = 0 THEN p.end ELSE reorder[drained[run]].end
           pieces == [j \in 1 .. run |-> reorder[drained[j]].data]
           body == nalu.body \o Cut(p) \o FlattenSeq(pieces)
           n == [nalu EXCEPT !.body = Buffered(nalu.is_h265, body)]
<1>1. /\ p.seq \in SeqNumbers /\ p.end \in BOOLEAN /\ Cut(p) \in Seq(Bytes)
      /\ p.seq \in Int
    BY CutType, ConstantTypes DEF IsFragment
<1>2. run \in 0 .. Window /\ run \in Nat
    BY <1>1, RunIs, ConstantTypes
<1>3. \A j \in 1 .. run : drained[j] \in 1 .. Window
  <2>1. \A j \in 1 .. run : SlotAfter(p.seq, j) \in Stored((p.seq + j) % SeqModulus)
        BY <1>1, RunIs
  <2> QED BY <2>1 DEF Stored
<1>4. FlattenSeq(pieces) \in Seq(Bytes)
  <2>1. reorder \in [1 .. Window -> Slots]
        BY DEF FuTypeOK, Slots
  <2>2. \A i \in 1 .. Window : reorder[i].data \in Seq(Bytes)
        BY <2>1 DEF Slots
  <2> HIDE DEF run, drained
  <2>3. \A j \in 1 .. run : pieces[j] \in Seq(Bytes)
        BY <1>3, <2>2
  <2>4. Len(pieces) = run /\ (run = 0 => pieces = <<>>)
        BY <1>2
  <2> HIDE DEF pieces
  <2> QED BY <1>2, <2>3, <2>4, FlattenType
<1>5. nalu \in Nalus /\ nalu.body \in Seq(Bytes) /\ nalu.is_h265 \in BOOLEAN
    BY DEF FuTypeOK, Nalus
<1>6. body \in Seq(Bytes)
  <2> HIDE DEF pieces
  <2>1. nalu.body \o Cut(p) \in Seq(Bytes)
        BY <1>1, <1>5, ConcatProperties
  <2> QED BY <2>1, <1>4, ConcatProperties
<1>7. n \in Nalus /\ Len(n.body) + HeaderSize(n.is_h265) <= BufferSize
  <2> HIDE DEF body
  <2>1. /\ Buffered(nalu.is_h265, body) \in Seq(Bytes)
        /\ Len(Buffered(nalu.is_h265, body)) + HeaderSize(nalu.is_h265) <= BufferSize
        BY <1>5, <1>6, BufferedIs
  <2>2. n.body = Buffered(nalu.is_h265, body) /\ n.is_h265 = nalu.is_h265
        BY <1>5 DEF Nalus
  <2>3. n \in Nalus
        BY <1>5, <2>1 DEF Nalus
  <2> QED BY <2>1, <2>2, <2>3
<1>8. /\ ~p.start /\ active /\ ~Stale(p)
      /\ \/ last /\ Complete(n)
         \/ /\ ~last
            /\ expected_seq' = (p.seq + run + 1) % SeqModulus
            /\ pending_fragments' = pending_fragments + 1 + run
            /\ nalu' = n
            /\ reorder' = [i \in 1 .. Window |->
                             IF i \in ToSet(drained) THEN FreeSlot ELSE reorder[i]]
            /\ UNCHANGED <<active, timestamp, expired, written>>
    BY DEF Continue, Continues
<1> HIDE DEF n, last, drained, run
<1>9. CASE Complete(n)
  <2>1. written' \in Seq(Nalus)
        BY <1>7, <1>9 DEF FuTypeOK, Complete
  <2> QED BY <1>9, <2>1, ResetType DEF Complete
<1>10. CASE ~Complete(n)
  <2>1. expected_seq' \in SeqNumbers
    <3>1. p.seq + run \in Int /\ 1 \in Nat
          BY <1>1, <1>2
    <3> QED BY <1>8, <1>10, <3>1, SeqAfterType
  <2>2. pending_fragments' \in 0 .. MaxFragments + Window
    <3>1. pending_fragments < MaxFragments /\ pending_fragments \in Nat
          BY <1>8, ConstantTypes DEF Stale, FuTypeOK
    <3>2. pending_fragments' = pending_fragments + 1 + run
          BY <1>8, <1>10
    <3> QED BY <3>1, <3>2, <1>2, ConstantTypes
  <2>3. reorder' \in [1 .. Window -> Slots]
    <3>1. reorder \in [1 .. Window -> Slots]
          BY DEF FuTypeOK, Slots
    <3> QED BY <1>8, <1>10, <3>1, ConstantTypes
  <2> QED BY <1>7, <1>8, <1>10, <2>1, <2>2, <2>3 DEF FuTypeOK, Slots
<1> QED BY <1>9, <1>10

\* Whatever arrives, the context stays well formed: at most a window of
\* fragments is counted beyond the limit, and the buffer never overflows.
LEMMA HandlePacketType ==
    ASSUME FuTypeOK, NEW p, IsFragment(p), HandlePacket(p)
    PROVE  FuTypeOK'
<1>1. CASE Start(p)
    BY <1>1, BeginType
<1>2. CASE MissingStart(p) \/ IgnoreDuplicate(p)
    BY <1>2 DEF MissingStart, IgnoreDuplicate, fuVars, fuCtx, FuTypeOK
<1>3. CASE DiscardStale(p) \/ DiscardUnordered(p)
  <2>1. Reset /\ written' \in Seq(Nalus)
        BY <1>3 DEF DiscardStale, DiscardUnordered, FuTypeOK
  <2> QED BY <2>1, ResetType
<1>4. CASE Store(p)
    BY <1>4, StoreType
<1>5. CASE Continue(p)
    BY <1>5, ContinueType
<1> QED BY <1>1, <1>2, <1>3, <1>4, <1>5 DEF HandlePacket

\* The file only grows, by one NALU at a time.
LEMMA HandlePacketWrites ==
    ASSUME NEW p, HandlePacket(p)
    PROVE  UNCHANGED written \/ \E n : written' = Append(written, n)
<1>1. Start(p) => UNCHANGED written \/ \E n : written' = Append(written, n)
    BY DEF Start, Begin, Complete
<1>2. Continue(p) => UNCHANGED written \/ \E n : written' = Append(written, n)
    BY DEF Continue, Complete
<1>3. MissingStart(p) \/ DiscardStale(p) \/ IgnoreDuplicate(p) \/ Store(p)
        \/ DiscardUnordered(p) => UNCHANGED written
    BY DEF MissingStart, DiscardStale, IgnoreDuplicate, Store, DiscardUnordered, fuVars
<1> QED BY <1>1, <1>2, <1>3 DEF HandlePacket

-----------------------------------------------------------------------------
(* The sender and the packets on their way.                                *)

LEMMA RemoveAtIs ==
    ASSUME NEW A, NEW s \in Seq(A), NEW i \in 1 .. Len(s)
    PROVE  /\ RemoveAt(s, i) \in Seq(A) /\ Len(RemoveAt(s, i)) = Len(s) - 1
           /\ \A j \in 1 .. Len(s) - 1 : RemoveAt(s, i)[j] = IF j < i THEN s[j] ELSE s[j + 1]
<1> DEFINE x == SubSeq(s, 1, i - 1)
           y == SubSeq(s, i + 1, Len(s))
<1>1. Len(s) \in Nat /\ i \in Nat /\ i >= 1 /\ i <= Len(s)
    OBVIOUS
<1>2. x \in Seq(A) /\ Len(x) = i - 1 /\ \A j \in 1 .. i - 1 : x[j] = s[j]
  <2>1. \A j \in 1 .. i - 1 : s[j] \in A
        BY <1>1
  <2>2. 1 \in Int /\ i - 1 \in Int
        BY <1>1
  <2>3. /\ x \in Seq(A) /\ Len(x) = IF 1 <= i - 1 THEN (i - 1) - 1 + 1 ELSE 0
        /\ \A j \in 1 .. (i - 1) - 1 + 1 : x[j] = s[1 + j - 1]
        BY <2>1, <2>2, SubSeqProperties
  <2> QED BY <2>3, <1>1
<1>3. /\ y \in Seq(A) /\ Len(y) = Len(s) - i
      /\ \A j \in 1 .. Len(s) - i : y[j] = s[i + j]
  <2>1. \A j \in i + 1 .. Len(s) : s[j] \in A
        BY <1>1
  <2>2. i + 1 \in Int /\ Len(s) \in Int
        BY <1>1
  <2>3. /\ y \in Seq(A) /\ Len(y) = IF i + 1 <= Len(s) THEN Len(s) - (i + 1) + 1 ELSE 0
        /\ \A j \in 1 .. Len(s) - (i + 1) + 1 : y[j] = s[(i + 1) + j - 1]
        BY <2>1, <2>2, SubSeqProperties
  <2> QED BY <2>3, <1>1
<1> HIDE DEF x, y
<1>4. /\ x \o y \in Seq(A) /\ Len(x \o y) = Len(s) - 1
      /\ \A j \in 1 .. Len(s) - 1 : (x \o y)[j] = IF j <= i - 1 THEN x[j] ELSE y[j - (i - 1)]
  <2>1. /\ x \o y \in Seq(A) /\ Len(x \o y) = Len(x) + Len(y)
        /\ \A j \in 1 .. Len(x) + Len(y) : (x \o y)[j] = IF j <= Len(x) THEN x[j] ELSE y[j - Len(x)]
        BY <1>2, <1>3, ConcatProperties
  <2>2. Len(x) + Len(y) = Len(s) - 1
        BY <1>1, <1>2, <1>3
  <2> QED BY <1>2, <2>1, <2>2
<1>5. ASSUME NEW j \in 1 .. Len(s) - 1
      PROVE  (x \o y)[j] = IF j < i THEN s[j] ELSE s[j + 1]
  <2>1. CASE j < i
    <3>1. j <= i - 1 /\ j \in 1 .. i - 1
          BY <1>1, <2>1
    <3> QED BY <1>2, <1>4, <2>1, <3>1
  <2>2. CASE ~(j < i)
    <3>1. ~(j <= i - 1) /\ j - (i - 1) \in 1 .. Len(s) - i /\ i + (j - (i - 1)) = j + 1
          BY <1>1, <2>2
    <3> QED BY <1>3, <1>4, <2>2, <3>1
  <2> QED BY <2>1, <2>2
<1>6. RemoveAt(s, i) = x \o y
    BY DEF RemoveAt, x, y
<1> QED BY <1>4, <1>5, <1>6

\* The bytes of a body that one packet of a call carries at most
Room(c) == IF Stream[c].function = "rtp_packet" THEN Len(Stream[c].body)
           ELSE MaxPayload - S!Overhead(Stream[c].function)

\* What MediaAssumption says of one call
LEMMA StreamIs ==
    ASSUME NEW c \in S!Calls
    PROVE  /\ Stream[c].function \in {"rtp_packet", "payload_fragmented", "h264_fu_a", "h265_fu"}
           /\ Stream[c].kept \in KeptBits /\ Stream[c].type \in NaluTypes
           /\ Stream[c].body \in Seq(Bytes) /\ Len(Stream[c].body) \in Nat \ {0}
           /\ Stream[c].timestamp_inc \in Nat
           /\ Room(c) \in Nat \ {0}
<1> DEFINE R == [function : {"rtp_packet", "payload_fragmented", "h264_fu_a", "h265_fu"},
                 kept : KeptBits, type : NaluTypes,
                 body : Seq(Bytes) \ {<<>>}, timestamp_inc : Nat]
<1>1. Stream \in Seq(R)
    BY MediaAssumption
<1>2. Stream[c] \in R
  <2> HIDE DEF R
  <2> QED BY <1>1, ElementOfSeq DEF S!Calls
<1>3. Stream[c].body \in Seq(Bytes) /\ Stream[c].body # <<>>
    BY <1>2
<1>4. Len(Stream[c].body) \in Nat \ {0}
    BY <1>3, EmptySeq
<1>5. Stream[c].function \in {"rtp_packet", "payload_fragmented", "h264_fu_a", "h265_fu"}
    BY <1>2
<1>6. S!Overhead(Stream[c].function) \in 0 .. 3
    BY <1>5 DEF S!Overhead
<1>7. Room(c) \in Nat \ {0}
    BY <1>4, <1>6, MediaAssumption DEF Room
<1> QED BY <1>2, <1>3, <1>4, <1>7

\* The next chunk is never empty, and the last one ends with the body.
LEMMA ChunkIs ==
    ASSUME NEW c \in S!Calls, offset \in Nat, offset < Len(Stream[c].body)
    PROVE  /\ S!ChunkSize(c) \in 1 .. Len(Stream[c].body) - offset
           /\ S!IsLast(c) <=> Len(Stream[c].body) - offset <= Room(c)
           /\ ~S!IsLast(c) => /\ S!ChunkSize(c) = Room(c)
                              /\ Stream[c].function # "rtp_packet"
<1> DEFINE L == Len(Stream[c].body)
           rest == L - offset
           room == MaxPayload - S!Overhead(Stream[c].function)
<1>1. L \in Nat \ {0} /\ Room(c) \in Nat \ {0} /\ rest \in Nat \ {0}
    BY StreamIs
<1>2. CASE Stream[c].function = "rtp_packet"
  <2>1. S!ChunkSize(c) = rest /\ Room(c) = L
        BY <1>2 DEF S!ChunkSize, Room
  <2>2. S!IsLast(c) <=> offset + S!ChunkSize(c) >= L
        BY DEF S!IsLast
  <2> HIDE DEF L
  <2> QED BY <1>1, <2>1, <2>2, SMTT(60) DEF L
<1>3. CASE Stream[c].function # "rtp_packet"
  <2>1. S!ChunkSize(c) = S!Min({rest, room}) /\ Room(c) = room
        BY <1>3 DEF S!ChunkSize, Room
  <2>2. S!IsLast(c) <=> offset + S!ChunkSize(c) >= L
        BY DEF S!IsLast
  <2>3. S!Min({rest, room}) = IF rest <= room THEN rest ELSE room
    <3>1. rest \in Int /\ room \in Int
          BY <1>1, <2>1
    <3> HIDE DEF rest, room
    <3> QED BY <3>1, MinOfTwo
  <2>4. S!ChunkSize(c) = IF rest <= Room(c) THEN rest ELSE Room(c)
        BY <2>1, <2>3
  <2> DEFINE size == S!ChunkSize(c)
             r == Room(c)
  <2>5. /\ size \in 1 .. rest
        /\ offset + size >= L <=> rest <= r
        /\ ~(offset + size >= L) => size = r
    <3>1. size = (IF rest <= r THEN rest ELSE r) /\ r \in Nat \ {0} /\ L \in Nat
          /\ rest \in Nat \ {0}
          BY <1>1, <2>4
    <3> HIDE DEF L, size, r
    <3> QED BY <3>1
  <2> QED BY <1>3, <2>2, <2>5
<1> QED BY <1>2, <1>3

LEMMA PacketType ==
    ASSUME NEW c \in S!Calls, offset \in Nat, offset < Len(Stream[c].body),
           rtp_seq \in SeqNumbers, rtp_timestamp \in Nat
    PROVE  S!Packet(c) \in Packets
<1> DEFINE data == SubSeq(Stream[c].body, offset + 1, offset + S!ChunkSize(c))
<1>1. data \in Seq(Bytes)
  <2>1. /\ Stream[c].body \in Seq(Bytes) /\ Len(Stream[c].body) \in Nat
        /\ S!ChunkSize(c) \in 1 .. Len(Stream[c].body) - offset
        BY StreamIs, ChunkIs
  <2>2. offset + 1 \in Int /\ offset + S!ChunkSize(c) \in Int
        BY <2>1
  <2>3. \A i \in offset + 1 .. offset + S!ChunkSize(c) : Stream[c].body[i] \in Bytes
        BY <2>1
  <2> QED BY <2>2, <2>3, SubSeqProperties
<1>2. Stream[c].kept \in KeptBits /\ Stream[c].type \in NaluTypes
    BY StreamIs
<1>3. S!IsFu(c) \in BOOLEAN /\ S!IsLast(c) \in BOOLEAN
    BY DEF S!IsFu, S!IsLast
<1> QED BY <1>1, <1>2, <1>3 DEF S!Packet, Packets

-----------------------------------------------------------------------------
(* Type correctness.                                                       *)

SenderType ==
    /\ call \in 1 .. Len(Stream) + 1 /\ offset \in Nat
    /\ rtp_seq \in SeqNumbers /\ rtp_timestamp \in Nat
    /\ call \in S!Calls => offset < Len(Stream[call].body)

TypeInv ==
    /\ FuTypeOK /\ SenderType
    /\ wire \in Seq(Packets)
    /\ repeats \in 0 .. MaxRepeats /\ damaged \subseteq S!Calls
    /\ misread \in 0 .. Len(written) + 1

LEMMA PacketIsFragment ==
    ASSUME NEW p \in Packets
    PROVE  [f \in {"seq", "timestamp", "is_h265", "kept", "type", "start", "end", "data"}
              |-> p[f]] \in Fragments
BY DEF Packets, Fragments

\* What a packet is taken for is a fragment, too.
LEMMA GuessIsFragment ==
    ASSUME NEW p \in Packets
    PROVE  IsFragment(p) /\ (Mistaken(p) => IsFragment(Guess(p)))
<1>1. IsFragment(p)
    BY DEF Packets, IsFragment
<1>2. ASSUME Mistaken(p) PROVE IsFragment(Guess(p))
  <2> DEFINE g == FuLike[Head(p.data)]
             k == HeaderSize(g.is_h265) + 2
  <2>1. g \in [is_h265 : BOOLEAN, kept : KeptBits, type : NaluTypes, start : BOOLEAN,
               end : BOOLEAN]
        BY <1>2, MediaAssumption DEF Mistaken
  <2>2. k \in Nat \ {0}
        BY <2>1 DEF HeaderSize
  <2> HIDE DEF k
  <2>3. SubSeq(p.data, k, Len(p.data)) \in Seq(Bytes)
    <3>1. p.data \in Seq(Bytes) /\ Len(p.data) \in Nat
          BY <1>1 DEF IsFragment
    <3>2. \A i \in k .. Len(p.data) : p.data[i] \in Bytes
          BY <2>2, <3>1
    <3> QED BY <2>2, <3>1, <3>2, SubSeqProperties
  <2>4. Guess(p) = [seq |-> p.seq, timestamp |-> p.timestamp, is_h265 |-> g.is_h265,
                    kept |-> g.kept, type |-> g.type, start |-> g.start, end |-> g.end,
                    data |-> SubSeq(p.data, k, Len(p.data))]
        BY DEF Guess, k
  <2> HIDE DEF g
  <2> QED BY <1>1, <2>1, <2>3, <2>4 DEF IsFragment
<1> QED BY <1>1, <1>2

LEMMA TypeInvIsStronger == TypeInv => MediaTypeOK
<1> SUFFICES ASSUME TypeInv PROVE MediaTypeOK
    OBVIOUS
<1>1. ASSUME NEW p \in ToSet(wire) PROVE p \in Packets
    BY DEF TypeInv, ToSet
<1> QED BY <1>1, PacketIsFragment DEF TypeInv, SenderType, MediaTypeOK

LEMMA CountType ==
    ASSUME SenderType, call \in S!Calls, S!Count(call)
    PROVE  rtp_seq' \in SeqNumbers /\ rtp_timestamp' \in Nat
<1>1. rtp_seq \in Int /\ 1 \in Nat
    BY ConstantTypes DEF SenderType
<1>2. rtp_seq' \in SeqNumbers
    BY <1>1, SeqAfterType DEF S!Count
<1>3. Stream[call].timestamp_inc \in Nat /\ rtp_timestamp \in Nat
    BY StreamIs DEF SenderType
<1> QED BY <1>2, <1>3 DEF S!Count

LEMMA NextCallType ==
    ASSUME call \in S!Calls, S!NextCall
    PROVE  /\ call' \in 1 .. Len(Stream) + 1 /\ offset' \in Nat
           /\ call' \in S!Calls => offset' < Len(Stream[call'].body)
<1>1. Len(Stream) \in Nat
    BY MediaAssumption
<1>2. call' = call + 1 /\ offset' = 0
    BY DEF S!NextCall
<1>3. call' \in S!Calls => 0 < Len(Stream[call'].body)
    BY StreamIs
<1> QED BY <1>1, <1>2, <1>3 DEF S!Calls

LEMMA SenderTypeStep ==
    ASSUME SenderType, S!SendChunk \/ S!SendChunkFails
    PROVE  SenderType'
<1>1. call \in S!Calls /\ offset \in Nat /\ offset < Len(Stream[call].body)
    BY DEF S!SendChunk, S!SendChunkFails, SenderType
<1>2. rtp_seq' \in SeqNumbers /\ rtp_timestamp' \in Nat
  <2>1. CASE S!Count(call)
        BY <1>1, <2>1, CountType
  <2>2. CASE UNCHANGED <<rtp_seq, rtp_timestamp>>
        BY <2>2 DEF SenderType
  <2> QED BY <2>1, <2>2 DEF S!SendChunk, S!SendChunkFails
<1>3. CASE S!NextCall
    BY <1>1, <1>2, <1>3, NextCallType DEF SenderType
<1>4. CASE ~S!IsLast(call) /\ offset' = offset + S!ChunkSize(call) /\ call' = call
  <2>1. /\ S!ChunkSize(call) \in 1 .. Len(Stream[call].body) - offset
        /\ Len(Stream[call].body) \in Nat
        BY <1>1, ChunkIs, StreamIs
  <2>2. offset + S!ChunkSize(call) < Len(Stream[call].body)
        BY <1>1, <1>4, <2>1 DEF S!IsLast
  <2> QED BY <1>1, <1>2, <1>4, <2>1, <2>2 DEF SenderType
<1> QED BY <1>3, <1>4 DEF S!SendChunk, S!SendChunkFails

LEMMA TypeSend == ASSUME TypeInv, Send PROVE TypeInv'
<1>1. SenderType'
    BY SenderTypeStep DEF TypeInv, Send
<1>2. FuTypeOK' /\ repeats' \in 0 .. MaxRepeats
    BY DEF Send, TypeInv, FuTypeOK, fuVars, fuCtx
<1>3. call \in S!Calls
    BY DEF Send, S!SendChunk, S!SendChunkFails
<1>4. S!Packet(call) \in Packets
    BY <1>3, PacketType DEF TypeInv, SenderType
<1>5. wire' \in Seq(Packets)
  <2>1. wire \in Seq(Packets)
        BY DEF TypeInv
  <2> QED BY <1>4, <2>1, AppendProperties DEF Send
<1>6. damaged' \subseteq S!Calls
    BY <1>3 DEF Send, Damage, TypeInv
<1>7. UNCHANGED <<written, misread>>
    BY DEF Send, fuVars
<1> QED BY <1>1, <1>2, <1>5, <1>6, <1>7 DEF TypeInv

LEMMA TypeArrive == ASSUME TypeInv, Arrive PROVE TypeInv'
<1>1. wire \in Seq(Packets) /\ FuTypeOK
    BY DEF TypeInv
<1>2. PICK i \in Arriving :
        /\ Receive(wire[i])
        /\ \/ wire' = RemoveAt(wire, i) /\ UNCHANGED repeats
           \/ /\ network \in {"repeat", "any"} /\ repeats < MaxRepeats
              /\ repeats' = repeats + 1
              /\ UNCHANGED wire
    BY DEF Arrive
<1>3. i \in 1 .. Len(wire) /\ wire[i] \in Packets
    BY <1>1 DEF Arriving
<1>4. FuTypeOK' /\ (UNCHANGED written \/ \E n : written' = Append(written, n))
  <2>1. CASE HandlePacket(wire[i])
        BY <1>1, <1>3, <2>1, GuessIsFragment, HandlePacketType, HandlePacketWrites
  <2>2. CASE UNCHANGED fuVars
        BY <1>1, <2>2 DEF FuTypeOK, fuVars, fuCtx
  <2>3. CASE Mistaken(wire[i]) /\ HandlePacket(Guess(wire[i]))
        BY <1>1, <1>3, <2>3, GuessIsFragment, HandlePacketType, HandlePacketWrites
  <2> QED BY <1>2, <2>1, <2>2, <2>3 DEF Receive
<1>5. wire' \in Seq(Packets)
    BY <1>1, <1>2, <1>3, RemoveAtIs
<1>6. repeats' \in 0 .. MaxRepeats
    BY <1>2, MediaAssumption DEF TypeInv
<1>7. misread' \in 0 .. Len(written') + 1
  <2>1. Len(written) \in Nat /\ Len(written') \in Nat /\ Len(written) <= Len(written')
    <3>1. written \in Seq(Nalus) /\ written' \in Seq(Nalus)
          BY <1>1, <1>4 DEF FuTypeOK
    <3>2. Len(written) \in Nat /\ Len(written') \in Nat
          BY <3>1
    <3>3. ASSUME NEW n, written' = Append(written, n) PROVE Len(written') = Len(written) + 1
          BY <3>1, <3>3
    <3> QED BY <1>4, <3>2, <3>3
  <2>2. misread' = misread \/ misread' = Len(written) + 1
        BY <1>2 DEF Receive
  <2>3. misread \in 0 .. Len(written) + 1
        BY DEF TypeInv
  <2> QED BY <2>1, <2>2, <2>3
<1> QED BY <1>4, <1>5, <1>6, <1>7 DEF Arrive, TypeInv, SenderType

LEMMA TypeLose == ASSUME TypeInv, Lose PROVE TypeInv'
<1>1. wire \in Seq(Packets) /\ wire # <<>>
    BY DEF TypeInv, Lose
<1>2. wire' \in Seq(Packets)
    BY <1>1, HeadTailProperties DEF Lose
<1>3. wire[1] \in Packets
    BY <1>1
<1>4. damaged' \subseteq S!Calls
    BY <1>3 DEF Lose, Damage, TypeInv, Packets
<1>5. /\ FuTypeOK' /\ SenderType' /\ repeats' \in 0 .. MaxRepeats
      /\ misread' \in 0 .. Len(written') + 1
    BY DEF Lose, TypeInv, FuTypeOK, SenderType, fuVars, fuCtx
<1> QED BY <1>2, <1>4, <1>5 DEF TypeInv

\* Every step of the sender, the network and the receiver keeps the types.
LEMMA TypeInductive == TypeInv /\ [MediaNext]_mediaVars => TypeInv'
<1> SUFFICES ASSUME TypeInv, [MediaNext]_mediaVars PROVE TypeInv'
    OBVIOUS
<1>1. CASE Send
    BY <1>1, TypeSend
<1>2. CASE Arrive
    BY <1>2, TypeArrive
<1>3. CASE Lose
    BY <1>3, TypeLose
<1>4. CASE Delay
    BY <1>4 DEF Delay, Expire, TypeInv, FuTypeOK, SenderType
<1>5. CASE UNCHANGED mediaVars
    BY <1>5 DEF mediaVars, TypeInv, FuTypeOK, SenderType, fuVars, fuCtx
<1> QED BY <1>1, <1>2, <1>3, <1>4, <1>5 DEF MediaNext, Finished

LEMMA TypeInit == MediaInit => TypeInv
<1> SUFFICES ASSUME MediaInit PROVE TypeInv
    OBVIOUS
<1>1. [i \in 1 .. Window |-> FreeSlot] \in [1 .. Window -> Slots]
    BY ConstantTypes
<1>2. FuTypeOK
  <2>1. 0 \in 0 .. MaxFragments + Window
        BY ConstantTypes
  <2>2. /\ active = FALSE /\ timestamp = 0 /\ expected_seq = 0 /\ pending_fragments = 0
        /\ nalu = FreeNalu /\ reorder \in [1 .. Window -> Slots]
        /\ expired = FALSE /\ written = <<>>
        BY <1>1 DEF MediaInit, FuInit
  <2>3. written \in Seq(Nalus)
        BY <2>2
  <2> QED BY <2>1, <2>2, <2>3, ConstantTypes DEF FuTypeOK, Slots
<1>3. SenderType
  <2>1. Len(Stream) \in Nat
        BY MediaAssumption
  <2>2. 1 \in S!Calls => 0 < Len(Stream[1].body)
        BY StreamIs
  <2>3. FirstSeq \in SeqNumbers
        BY MediaAssumption
  <2>4. call = 1 /\ offset = 0 /\ rtp_seq = FirstSeq /\ rtp_timestamp = 0
        BY DEF MediaInit, S!SenderInit
  <2> QED BY <2>1, <2>2, <2>3, <2>4 DEF SenderType
<1>4. misread = 0 /\ Len(written) = 0
    BY DEF MediaInit, FuInit
<1> QED BY <1>2, <1>3, <1>4, MediaAssumption DEF MediaInit, TypeInv

\* The sender of the media module, the packets and the reassembly of the
\* platform keep to their types: no number beyond 16 bits, no fragment without
\* a NALU it belongs to, at most Window slots.
THEOREM MediaTypeCorrect == MediaSpec => []MediaTypeOK
<1> QED BY TypeInit, TypeInductive, TypeInvIsStronger, PTL DEF MediaSpec

-----------------------------------------------------------------------------
(* What the sender has cut so far.                                         *)

\* The packets that offset o leaves to a call
PacketsLeft(c, o) == (Len(Stream[c].body) - o + Room(c) - 1) \div Room(c)

\* No two packets of the whole stream have the same sequence number.
NumbersSuffice ==
    \E left \in [1 .. Len(Stream) + 1 -> Nat] :
      /\ left[Len(Stream) + 1] = 0
      /\ \A c \in S!Calls : left[c] = PacketsLeft(c, 0) + left[c + 1]
      /\ left[1] <= SeqModulus

Cuts == [call : S!Calls, off : Nat, size : Nat \ {0}]
Until(x) == x.off + x.size
BodyOf(x) == Stream[x.call].body
Data(x) == SubSeq(BodyOf(x), x.off + 1, Until(x))
IsFinal(x) == Until(x) >= Len(BodyOf(x))

\* The NALU of a call up to the end of a cut, as far as the buffer holds it
SoFar(x) ==
    LET is_h265 == Stream[x.call].function = "h265_fu"
    IN  [is_h265 |-> is_h265, kept |-> Stream[x.call].kept, type |-> Stream[x.call].type,
         body |-> Buffered(is_h265, SubSeq(BodyOf(x), 1, Until(x)))]

\* The number of the k-th packet
NumberOf(k) == (FirstSeq + (k - 1)) % SeqModulus

PastOK(past) ==
    /\ past \in Seq(Cuts) /\ Len(past) <= SeqModulus
    /\ \A k \in 1 .. Len(past) : Until(past[k]) <= Len(BodyOf(past[k]))
    /\ \A k \in 1 .. Len(past) : past[k].off # 0 =>
         k > 1 /\ past[k - 1].call = past[k].call /\ Until(past[k - 1]) = past[k].off

IsCut(p, x, seq) ==
    /\ p.call = x.call /\ (p.fu <=> S!IsFu(x.call)) /\ p.seq = seq
    /\ p.is_h265 = (Stream[x.call].function = "h265_fu")
    /\ p.kept = Stream[x.call].kept /\ p.type = Stream[x.call].type
    /\ p.start <=> (S!IsFu(x.call) /\ x.off = 0)
    /\ p.end <=> (S!IsFu(x.call) /\ IsFinal(x))
    /\ p.data = Data(x)

SenderPast(past, left) ==
    /\ rtp_seq = NumberOf(Len(past) + 1)
    /\ offset # 0 =>
         /\ call \in S!Calls /\ Len(past) > 0
         /\ past[Len(past)].call = call /\ Until(past[Len(past)]) = offset
    /\ call \in S!Calls => Len(past) + PacketsLeft(call, offset) + left[call + 1] <= SeqModulus

WirePast(past) ==
    \A i \in 1 .. Len(wire) : \E k \in 1 .. Len(past) : IsCut(wire[i], past[k], NumberOf(k))

SlotPast(past) ==
    \A i \in 1 .. Window : reorder[i].used =>
      \E k \in 1 .. Len(past) :
        /\ S!IsFu(past[k].call) /\ past[k].off # 0
        /\ reorder[i].seq = NumberOf(k) /\ reorder[i].data = Data(past[k])
        /\ (reorder[i].end <=> IsFinal(past[k]))

NaluPast(past) ==
    active => \E k \in 1 .. Len(past) :
                /\ S!IsFu(past[k].call)
                /\ expected_seq = NumberOf(k + 1) /\ nalu = SoFar(past[k])

\* What past says of one of its pieces
LEMMA CutIs ==
    ASSUME NEW past, PastOK(past), NEW k \in 1 .. Len(past)
    PROVE  /\ past[k] \in Cuts /\ past[k].call \in S!Calls
           /\ BodyOf(past[k]) \in Seq(Bytes) /\ Len(BodyOf(past[k])) \in Nat
           /\ past[k].off \in Nat /\ Until(past[k]) \in past[k].off + 1 .. Len(BodyOf(past[k]))
           /\ Stream[past[k].call].kept \in KeptBits /\ Stream[past[k].call].type \in NaluTypes
<1>1. past[k] \in Cuts
    BY ElementOfSeq DEF PastOK
<1>2. past[k].call \in S!Calls /\ past[k].off \in Nat /\ past[k].size \in Nat \ {0}
    BY <1>1 DEF Cuts
<1>3. /\ BodyOf(past[k]) \in Seq(Bytes) /\ Len(BodyOf(past[k])) \in Nat
      /\ Stream[past[k].call].kept \in KeptBits /\ Stream[past[k].call].type \in NaluTypes
    BY <1>2, StreamIs DEF BodyOf
<1>4. Until(past[k]) <= Len(BodyOf(past[k]))
    BY DEF PastOK
<1> QED BY <1>1, <1>2, <1>3, <1>4 DEF Until

\* The j-th number behind the k-th
LEMMA NumberOfPlus ==
    ASSUME NEW k \in Int, NEW j \in Int
    PROVE  (NumberOf(k) + j) % SeqModulus = NumberOf(k + j) /\ NumberOf(k) \in SeqNumbers
<1>1. FirstSeq \in Int /\ SeqModulus \in Nat \ {0}
    BY MediaAssumption, ConstantTypes
<1> DEFINE x == FirstSeq + (k - 1)
<1>2. x \in Int /\ x + j = FirstSeq + ((k + j) - 1)
    BY <1>1
<1>3. /\ ((x % SeqModulus) + j) % SeqModulus = (x + j) % SeqModulus
      /\ x % SeqModulus \in 0 .. SeqModulus - 1
  <2> HIDE DEF x
  <2> QED BY <1>1, <1>2, ModPlus, ModDef
<1> QED BY <1>2, <1>3, ConstantTypes DEF NumberOf

\* The packet that carries the number behind the one of packet a, and goes on
\* with a NALU, goes on with the NALU of packet a where that one ends.
LEMMA Successor ==
    ASSUME NEW past, PastOK(past), NEW a \in 1 .. Len(past), NEW k \in 1 .. Len(past),
           past[k].off # 0, NumberOf(k) = NumberOf(a + 1)
    PROVE  k = a + 1 /\ past[k].call = past[a].call /\ past[k].off = Until(past[a])
<1>1. k > 1 /\ past[k - 1].call = past[k].call /\ Until(past[k - 1]) = past[k].off
    BY DEF PastOK
<1>2. /\ Len(past) \in Nat /\ Len(past) <= SeqModulus /\ FirstSeq \in Int
      /\ SeqModulus \in Nat \ {0}
    BY MediaAssumption, ConstantTypes DEF PastOK
<1> DEFINE x == FirstSeq + (k - 1)
           y == FirstSeq + ((a + 1) - 1)
<1>3. x \in Int /\ y \in Int /\ x - y < SeqModulus /\ y - x < SeqModulus
    BY <1>1, <1>2
<1>4. x % SeqModulus = y % SeqModulus
    BY DEF NumberOf
<1>5. x = y
  <2> HIDE DEF x, y
  <2> QED BY <1>2, <1>3, <1>4, ModInjective
<1>6. k = a + 1 /\ k - 1 = a
    BY <1>2, <1>5
<1> QED BY <1>1, <1>6

\* The fragments that a run lets out of the window are those the sender cut
\* next, of the same NALU.
LEMMA RunFollows ==
    ASSUME NEW past, PastOK(past), SlotPast(past), NEW a \in 1 .. Len(past),
           NEW run \in Nat, NEW slot,
           \A j \in 1 .. run : slot[j] \in Stored((NumberOf(a) + j) % SeqModulus)
    PROVE  \A j \in 1 .. run :
             /\ a + j \in 1 .. Len(past) /\ past[a + j].call = past[a].call
             /\ past[a + j].off = Until(past[a + (j - 1)])
             /\ reorder[slot[j]].data = Data(past[a + j])
             /\ (reorder[slot[j]].end <=> IsFinal(past[a + j]))
<1> DEFINE P(j) == /\ a + j \in 1 .. Len(past) /\ past[a + j].call = past[a].call
                   /\ past[a + j].off = Until(past[a + (j - 1)])
                   /\ reorder[slot[j]].data = Data(past[a + j])
                   /\ (reorder[slot[j]].end <=> IsFinal(past[a + j]))
           T == {m \in Nat : \A j \in 1 .. run : j = m => P(j)}
<1>1. 0 \in T
    OBVIOUS
<1>2. ASSUME NEW m \in Nat, m \in T PROVE m + 1 \in T
  <2> SUFFICES ASSUME NEW j \in 1 .. run, j = m + 1 PROVE P(j)
      OBVIOUS
  <2> DEFINE b == a + (j - 1)
  <2>1. b \in 1 .. Len(past) /\ past[b].call = past[a].call
    <3>1. CASE m = 0
      <4>1. b = a
            BY <3>1
      <4> QED BY <4>1
    <3>2. CASE m > 0
      <4>1. m \in 1 .. run /\ b = a + m
            BY <3>2
      <4>2. P(m)
            BY <1>2, <4>1
      <4> QED BY <4>1, <4>2
    <3> QED BY <3>1, <3>2
  <2>2. slot[j] \in 1 .. Window /\ reorder[slot[j]].used
        /\ reorder[slot[j]].seq = NumberOf(b + 1)
    <3>1. (NumberOf(a) + j) % SeqModulus = NumberOf(a + j)
          BY NumberOfPlus
    <3>2. a + j = b + 1
          OBVIOUS
    <3> HIDE DEF b
    <3> QED BY <3>1, <3>2 DEF Stored
  <2>3. PICK k \in 1 .. Len(past) :
           /\ past[k].off # 0
           /\ reorder[slot[j]].seq = NumberOf(k) /\ reorder[slot[j]].data = Data(past[k])
           /\ (reorder[slot[j]].end <=> IsFinal(past[k]))
        BY <2>2 DEF SlotPast
  <2>4. k = b + 1 /\ past[k].call = past[b].call /\ past[k].off = Until(past[b])
    <3> HIDE DEF b
    <3> QED BY <2>1, <2>2, <2>3, Successor
  <2>5. a + j = k
        BY <2>4
  <2> QED BY <2>1, <2>3, <2>4, <2>5
<1>3. Nat \subseteq T
  <2> HIDE DEF T
  <2> QED BY <1>1, <1>2, Induction
<1>4. ASSUME NEW j \in 1 .. run PROVE P(j)
  <2>1. j \in T
        BY <1>3
  <2> HIDE DEF P
  <2> QED BY <2>1
<1> QED BY <1>4

\* The cuts behind cut a, run of them, are the next ones of its NALU.
Chain(past, a, run) ==
    \A j \in 1 .. run :
      /\ a + j \in 1 .. Len(past) /\ past[a + j].call = past[a].call
      /\ past[a + j].off = Until(past[a + (j - 1)])

Pieces(past, a, run) == [j \in 1 .. run |-> Data(past[a + j])]

\* Put together they are the piece of the body from the end of the fragment
\* before them to the end of the last one.
LEMMA RunIsPiece ==
    ASSUME NEW past, PastOK(past), NEW a \in 1 .. Len(past), NEW run \in Nat,
           Chain(past, a, run)
    PROVE  /\ FlattenSeq(Pieces(past, a, run))
                = SubSeq(BodyOf(past[a]), Until(past[a]) + 1, Until(past[a + run]))
           /\ Until(past[a]) <= Until(past[a + run])
           /\ a + run \in 1 .. Len(past) /\ past[a + run].call = past[a].call
<1> USE DEF Chain
<1> DEFINE e == Pieces(past, a, run)
           b == BodyOf(past[a])
           cut == [j \in 0 .. run |-> Until(past[a + j])]
<1>1. \A j \in 0 .. run : a + j \in 1 .. Len(past) /\ past[a + j].call = past[a].call
  <2> SUFFICES ASSUME NEW j \in 0 .. run
               PROVE  a + j \in 1 .. Len(past) /\ past[a + j].call = past[a].call
      OBVIOUS
  <2>1. CASE j = 0
    <3>1. a + j = a
          BY <2>1
    <3> QED BY <3>1
  <2>2. CASE j # 0
    <3>1. j \in 1 .. run
          BY <2>2
    <3> QED BY <3>1
  <2> QED BY <2>1, <2>2
<1>2. b \in Seq(Bytes) /\ Len(b) \in Nat
    BY CutIs
<1>3. cut \in [0 .. run -> 0 .. Len(b)]
  <2>1. ASSUME NEW j \in 0 .. run PROVE Until(past[a + j]) \in 0 .. Len(b)
    <3>1. a + j \in 1 .. Len(past) /\ past[a + j].call = past[a].call
          BY <1>1
    <3>2. Until(past[a + j]) \in past[a + j].off + 1 .. Len(BodyOf(past[a + j]))
          /\ past[a + j].off \in Nat
          BY <3>1, CutIs
    <3>3. BodyOf(past[a + j]) = b
          BY <3>1 DEF BodyOf
    <3> QED BY <3>2, <3>3
  <2> QED BY <2>1
<1>4. ASSUME NEW j \in 1 .. run
      PROVE  /\ cut[j - 1] <= cut[j]
             /\ Data(past[a + j]) = SubSeq(b, cut[j - 1] + 1, cut[j])
  <2>1. /\ a + j \in 1 .. Len(past) /\ past[a + j].call = past[a].call
        /\ past[a + j].off = Until(past[a + (j - 1)])
        OBVIOUS
  <2>2. cut[j - 1] = past[a + j].off /\ cut[j] = Until(past[a + j])
        BY <2>1
  <2>3. Until(past[a + j]) \in past[a + j].off + 1 .. Len(BodyOf(past[a + j]))
        /\ past[a + j].off \in Nat
        BY <2>1, CutIs
  <2>4. BodyOf(past[a + j]) = b
        BY <2>1 DEF BodyOf
  <2> HIDE DEF cut
  <2> QED BY <2>2, <2>3, <2>4 DEF Data
<1>5. e = [j \in 1 .. run |-> SubSeq(b, cut[j - 1] + 1, cut[j])]
    BY <1>4 DEF Pieces
<1>6. FlattenSeq(e) = SubSeq(b, cut[0] + 1, cut[run])
  <2> HIDE DEF cut, b
  <2>1. \A j \in 1 .. run : cut[j - 1] <= cut[j]
        BY <1>4
  <2> HIDE DEF e
  <2> QED BY <1>2, <1>3, <1>5, <2>1, FlattenPieces
<1>7. cut[0] = Until(past[a]) /\ cut[run] = Until(past[a + run])
  <2>1. a + 0 = a
        OBVIOUS
  <2> QED BY <2>1
<1>8. cut[0] <= cut[run]
  <2> DEFINE T == {m \in Nat : m <= run => cut[0] <= cut[m]}
  <2> HIDE DEF cut, b
  <2>0. cut[0] \in Int /\ \A j \in 0 .. run : cut[j] \in Int
        BY <1>2, <1>3
  <2>1. 0 \in T
        BY <2>0
  <2>2. ASSUME NEW m \in Nat, m \in T PROVE m + 1 \in T
    <3> SUFFICES ASSUME m + 1 <= run PROVE cut[0] <= cut[m + 1]
        OBVIOUS
    <3>1. cut[0] <= cut[m]
          BY <2>2
    <3>2. m + 1 \in 1 .. run /\ (m + 1) - 1 = m /\ m \in 0 .. run /\ m + 1 \in 0 .. run
          OBVIOUS
    <3>3. cut[m] <= cut[m + 1]
          BY <1>4, <3>2
    <3> QED BY <3>1, <3>2, <3>3, <2>0
  <2>3. Nat \subseteq T
    <3> HIDE DEF T
    <3> QED BY <2>1, <2>2, Induction
  <2> QED BY <2>3
<1>9. a + run \in 1 .. Len(past) /\ past[a + run].call = past[a].call
  <2>1. run \in 0 .. run
        OBVIOUS
  <2> QED BY <1>1, <2>1
<1> QED BY <1>6, <1>7, <1>8, <1>9

\* A NALU up to its last piece is the whole one.
LEMMA NaluSoFar ==
    ASSUME NEW past, PastOK(past), NEW k \in 1 .. Len(past)
    PROVE  /\ SoFar(past[k]) \in Nalus
           /\ SoFar(past[k]).body = Buffered(Stream[past[k].call].function = "h265_fu",
                                             SubSeq(BodyOf(past[k]), 1, Until(past[k])))
           /\ IsFinal(past[k]) => SoFar(past[k]) = Whole(past[k].call)
<1> DEFINE b == BodyOf(past[k])
           u == Until(past[k])
           h == Stream[past[k].call].function = "h265_fu"
<1>1. /\ b \in Seq(Bytes) /\ Len(b) \in Nat /\ u \in 1 .. Len(b)
      /\ Stream[past[k].call].kept \in KeptBits /\ Stream[past[k].call].type \in NaluTypes
  <2>1. past[k].off \in Nat /\ Until(past[k]) \in past[k].off + 1 .. Len(BodyOf(past[k]))
        BY CutIs
  <2> QED BY <2>1, CutIs
<1>2. SubSeq(b, 1, u) \in Seq(Bytes)
  <2>1. \A i \in 1 .. u : b[i] \in Bytes
        BY <1>1
  <2>2. 1 \in Int /\ u \in Int
        BY <1>1
  <2> HIDE DEF b, u
  <2> QED BY <2>1, <2>2, SubSeqProperties
<1>3. Buffered(h, SubSeq(b, 1, u)) \in Seq(Bytes)
  <2>1. h \in BOOLEAN
        OBVIOUS
  <2> HIDE DEF b, u, h
  <2> QED BY <1>2, <2>1, BufferedIs
<1>4. SoFar(past[k]) = [is_h265 |-> h, kept |-> Stream[past[k].call].kept,
                        type |-> Stream[past[k].call].type, body |-> Buffered(h, SubSeq(b, 1, u))]
    BY DEF SoFar
<1>5. ASSUME IsFinal(past[k]) PROVE SoFar(past[k]) = Whole(past[k].call)
  <2>1. u = Len(b)
        BY <1>1, <1>5 DEF IsFinal
  <2>2. SubSeq(b, 1, u) = b
        BY <1>1, <2>1, SubSeqFull
  <2>3. Whole(past[k].call) = [is_h265 |-> h, kept |-> Stream[past[k].call].kept,
                               type |-> Stream[past[k].call].type, body |-> Buffered(h, b)]
        BY DEF Whole, BodyOf
  <2> QED BY <1>4, <2>2, <2>3
<1>6. SoFar(past[k]) \in Nalus
    BY <1>1, <1>3, <1>4 DEF Nalus
<1> QED BY <1>4, <1>5, <1>6

\* The fragment behind the NALU of the context, and a run of those after it,
\* make it the NALU up to the end of the last of them.
LEMMA NaluGrows ==
    ASSUME NEW past, PastOK(past), NEW a \in 1 .. Len(past), NEW run \in Nat,
           a + 1 \in 1 .. Len(past), past[a + 1].call = past[a].call,
           past[a + 1].off = Until(past[a]),
           NEW k, k = a + 1,
           Chain(past, k, run),
           NEW n, n = SoFar(past[a])
    PROVE  /\ [n EXCEPT !.body = Buffered(n.is_h265, n.body \o Data(past[k])
                                               \o FlattenSeq(Pieces(past, k, run)))]
                = SoFar(past[k + run])
           /\ k + run \in 1 .. Len(past) /\ past[k + run].call = past[k].call
<1> DEFINE b == BodyOf(past[k])
           e == Pieces(past, k, run)
           h == Stream[past[k].call].function = "h265_fu"
           o == Until(past[a])
           u == Until(past[k])
           z == Until(past[k + run])
<1>1. k \in 1 .. Len(past) /\ past[k].call = past[a].call /\ past[k].off = o
    OBVIOUS
<1>2. /\ FlattenSeq(e) = SubSeq(b, u + 1, z) /\ u <= z
      /\ k + run \in 1 .. Len(past) /\ past[k + run].call = past[k].call
  <2> QED BY <1>1, RunIsPiece
<1>3. BodyOf(past[a]) = b /\ BodyOf(past[k + run]) = b
    BY <1>1, <1>2 DEF BodyOf
<1>4. /\ b \in Seq(Bytes) /\ Len(b) \in Nat
      /\ o \in 1 .. Len(b) /\ u \in o + 1 .. Len(b) /\ z \in u .. Len(b)
  <2>1. b \in Seq(Bytes) /\ Len(b) \in Nat /\ u \in o + 1 .. Len(b) /\ o \in Nat
        BY <1>1, CutIs
  <2>2. past[a].off \in Nat /\ o \in past[a].off + 1 .. Len(b)
        BY <1>3, CutIs
  <2>3. past[k + run].off \in Nat /\ z \in past[k + run].off + 1 .. Len(b)
        BY <1>2, <1>3, CutIs
  <2> HIDE DEF b, o, u, z
  <2> QED BY <1>2, <2>1, <2>2, <2>3, SMTT(60)
<1>5. Data(past[k]) = SubSeq(b, o + 1, u)
    BY <1>1 DEF Data
<1> DEFINE front == Buffered(h, SubSeq(b, 1, o))
           x == SubSeq(b, o + 1, u)
           y == SubSeq(b, u + 1, z)
<1>6. n.body = front /\ n.is_h265 = h
    BY <1>1, <1>3 DEF SoFar
<1>7. (front \o x) \o y = front \o SubSeq(b, o + 1, z)
  <2>1. front \in Seq(Bytes)
    <3>1. SoFar(past[a]) \in Nalus
          BY NaluSoFar
    <3> HIDE DEF front
    <3> QED BY <3>1, <1>6 DEF Nalus
  <2> HIDE DEF b, o, u, z, front
  <2>2. \A i \in 1 .. Len(b) : b[i] \in Bytes
        BY <1>4
  <2>3. x \in Seq(Bytes)
    <3>1. o + 1 \in Int /\ u \in Int /\ \A i \in o + 1 .. u : b[i] \in Bytes
          BY <1>4, <2>2
    <3> QED BY <3>1, SubSeqProperties
  <2>4. y \in Seq(Bytes)
    <3>1. u + 1 \in Int /\ z \in Int /\ \A i \in u + 1 .. z : b[i] \in Bytes
          BY <1>4, <2>2
    <3> QED BY <3>1, SubSeqProperties
  <2>5. x \o y = SubSeq(b, o + 1, z)
    <3>1. o + 1 \in 1 .. Len(b) + 1 /\ u \in (o + 1) - 1 .. Len(b) /\ z \in u .. Len(b)
          BY <1>4
    <3> QED BY <1>4, <3>1, ConcatAdjacentSubSeq
  <2>6. (front \o x) \o y = front \o (x \o y)
    <3> HIDE DEF x, y
    <3> QED BY ONLY <2>1, <2>3, <2>4, ThreePieces, SMTT(60)
  <2> QED BY <2>5, <2>6
<1>8. Buffered(h, front \o SubSeq(b, o + 1, z)) = Buffered(h, SubSeq(b, 1, z))
  <2>1. o \in 0 .. Len(b) /\ z \in o .. Len(b) /\ h \in BOOLEAN
    <3> HIDE DEF b, o, u, z
    <3> QED BY <1>4
  <2> HIDE DEF b, o, z, h
  <2> QED BY <1>4, <2>1, BufferedExtends
<1>9. Buffered(n.is_h265, n.body \o Data(past[k]) \o FlattenSeq(e)) = Buffered(h, SubSeq(b, 1, z))
    BY <1>2, <1>5, <1>6, <1>7, <1>8
<1>10. n = [is_h265 |-> h, kept |-> Stream[past[k].call].kept,
            type |-> Stream[past[k].call].type, body |-> front]
    BY <1>1, <1>3 DEF SoFar
<1>11. SoFar(past[k + run]) = [is_h265 |-> h, kept |-> Stream[past[k].call].kept,
                               type |-> Stream[past[k].call].type,
                               body |-> Buffered(h, SubSeq(b, 1, z))]
    BY <1>2, <1>3 DEF SoFar
<1> HIDE DEF h, front, b, z
<1> QED BY <1>2, <1>9, <1>10, <1>11

-----------------------------------------------------------------------------
(* What reaches the file.                                                  *)

\* As long as no packet was misread, of the whole file
AllWhole == \A n \in ToSet(written) : \E c \in FuCalls : n = Whole(c)

RecvPast(past) == SlotPast(past) /\ NaluPast(past) /\ AllWhole

\* A reset leaves nothing behind; what is written then is all that matters.
LEMMA PastReset ==
    ASSUME NEW past, Reset, AllWhole' PROVE RecvPast(past)'
<1>1. \A i \in 1 .. Window : reorder'[i] = FreeSlot
    BY DEF Reset
<1> QED BY <1>1 DEF Reset, RecvPast, SlotPast, NaluPast, FreeSlot

LEMMA WholeIsWritten ==
    ASSUME FuTypeOK, AllWhole, NEW n \in Nalus, written' = Append(written, n),
           NEW c \in FuCalls, n = Whole(c)
    PROVE  AllWhole'
<1>1. written \in Seq(Nalus)
    BY DEF FuTypeOK
<1>2. \A m \in ToSet(written') : m = n \/ m \in ToSet(written)
  <2>1. /\ Len(written') = Len(written) + 1 /\ written'[Len(written) + 1] = n
        /\ \A i \in 1 .. Len(written) : written'[i] = written[i]
        /\ written' \in Seq(Nalus) /\ Len(written) \in Nat
        BY <1>1, AppendProperties
  <2> SUFFICES ASSUME NEW i \in 1 .. Len(written) + 1
               PROVE  written'[i] = n \/ written'[i] \in ToSet(written)
      BY <2>1 DEF ToSet
  <2>2. CASE i = Len(written) + 1
        BY <2>1, <2>2
  <2>3. CASE i \in 1 .. Len(written)
        BY <1>1, <2>1, <2>3 DEF ToSet
  <2> QED BY <2>1, <2>2, <2>3
<1>3. \A m \in ToSet(written) : \E d \in FuCalls : m = Whole(d)
    BY DEF AllWhole
<1>4. \A m \in ToSet(written') : \E d \in FuCalls : m = Whole(d)
    BY <1>2, <1>3
<1> QED BY <1>4 DEF AllWhole, FuCalls, Whole, Buffered

\* A NALU that is complete is written and leaves nothing behind.
LEMMA PastComplete ==
    ASSUME NEW past, PastOK(past), FuTypeOK, RecvPast(past), NEW k \in 1 .. Len(past),
           S!IsFu(past[k].call), IsFinal(past[k]), Complete(Whole(past[k].call))
    PROVE  RecvPast(past)'
<1>1. Whole(past[k].call) \in Nalus
    BY NaluSoFar
<1>2. past[k].call \in FuCalls
    BY CutIs DEF FuCalls
<1>3. AllWhole'
    BY <1>1, <1>2, WholeIsWritten DEF Complete, RecvPast
<1> QED BY <1>3, PastReset DEF Complete

\* A first fragment, which may be the only one, starts from a piece at 0.
LEMMA StartIs ==
    ASSUME NEW past, PastOK(past),
           NEW p \in Packets, NEW k \in 1 .. Len(past), IsCut(p, past[k], NumberOf(k)), p.fu,
           Start(p)
    PROVE  /\ p.start /\ past[k].off = 0 /\ S!IsFu(past[k].call)
           /\ \/ p.end /\ IsFinal(past[k]) /\ Complete(Whole(past[k].call))
              \/ /\ ~p.end /\ active' = TRUE /\ expected_seq' = NumberOf(k + 1)
                 /\ nalu' = SoFar(past[k]) /\ UNCHANGED <<reorder, written>>
<1> DEFINE n == [is_h265 |-> p.is_h265, kept |-> p.kept, type |-> p.type,
                 body |-> Buffered(p.is_h265, p.data)]
<1>1. p.start /\ past[k].off = 0 /\ S!IsFu(past[k].call)
    BY DEF Start, Begin, IsCut
<1>2. n = SoFar(past[k])
  <2>1. past[k].off + 1 = 1
        BY <1>1
  <2>2. p.data = SubSeq(BodyOf(past[k]), 1, Until(past[k]))
        BY <2>1 DEF IsCut, Data
  <2> QED BY <2>2 DEF IsCut, SoFar
<1>3. p.end <=> IsFinal(past[k])
    BY <1>1 DEF IsCut
<1>4. IsFinal(past[k]) => n = Whole(past[k].call)
    BY <1>2, NaluSoFar
<1>5. SeqAfter(p.seq) = NumberOf(k + 1)
    BY NumberOfPlus DEF SeqAfter, IsCut
<1> HIDE DEF n
<1>6. CASE p.end /\ Complete(n)
    BY <1>1, <1>3, <1>4, <1>6
<1>7. CASE /\ ~p.end /\ active' = TRUE /\ expected_seq' = SeqAfter(p.seq) /\ nalu' = n
           /\ UNCHANGED <<reorder, written>>
    BY <1>1, <1>2, <1>5, <1>7
<1> QED BY <1>6, <1>7 DEF Start, Begin, n

LEMMA PastStart ==
    ASSUME NEW past, PastOK(past), FuTypeOK, RecvPast(past),
           NEW p \in Packets, NEW k \in 1 .. Len(past), IsCut(p, past[k], NumberOf(k)), p.fu,
           Start(p)
    PROVE  RecvPast(past)'
<1>1. S!IsFu(past[k].call)
    BY StartIs
<1>2. CASE IsFinal(past[k]) /\ Complete(Whole(past[k].call))
    BY <1>1, <1>2, PastComplete
<1>3. CASE /\ active' = TRUE /\ expected_seq' = NumberOf(k + 1)
           /\ nalu' = SoFar(past[k]) /\ UNCHANGED <<reorder, written>>
  <2>1. NaluPast(past)'
        BY <1>1, <1>3 DEF NaluPast
  <2>2. SlotPast(past)' /\ AllWhole'
        BY <1>3 DEF RecvPast, SlotPast, AllWhole, FuCalls, Whole, Buffered
  <2> QED BY <2>1, <2>2 DEF RecvPast
<1> QED BY <1>2, <1>3, StartIs

\* What is taken of a fragment is its piece of the body.
CutRight(p) == Cut(p) = p.data

\* A fragment ahead of its turn goes to a slot with its number.
LEMMA PastStore ==
    ASSUME NEW past, PastOK(past), FuTypeOK, RecvPast(past),
           NEW p \in Packets, NEW k \in 1 .. Len(past), IsCut(p, past[k], NumberOf(k)), p.fu,
           Store(p), CutRight(p)
    PROVE  RecvPast(past)'
<1> DEFINE s == [used |-> TRUE, seq |-> p.seq, end |-> p.end, data |-> p.data]
           f == Min(FreeSlots)
<1>1. S!IsFu(past[k].call) /\ past[k].off # 0
    BY DEF Store, Continues, IsCut
<1>2. reorder' = [reorder EXCEPT ![f] = s]
    BY DEF Store, CutRight
<1>3. f \in 1 .. Window /\ reorder \in [1 .. Window -> Slots]
  <2>1. FreeSlots # {}
        BY DEF Store
  <2>2. f \in 1 .. Window
        BY <2>1, FreeSlotIs
  <2> QED BY <2>2 DEF FuTypeOK, Slots
<1>4. s.seq = NumberOf(k) /\ s.data = Data(past[k]) /\ (s.end <=> IsFinal(past[k]))
    BY <1>1 DEF IsCut
<1>5. \A i \in 1 .. Window : reorder'[i] = IF i = f THEN s ELSE reorder[i]
  <2> HIDE DEF s, f
  <2> QED BY <1>2, <1>3
<1>6. SlotPast(past)'
  <2> HIDE DEF s, f
  <2> SUFFICES ASSUME NEW i \in 1 .. Window, reorder'[i].used
               PROVE  \E l \in 1 .. Len(past) :
                        /\ S!IsFu(past[l].call) /\ past[l].off # 0
                        /\ reorder'[i].seq = NumberOf(l) /\ reorder'[i].data = Data(past[l])
                        /\ (reorder'[i].end <=> IsFinal(past[l]))
      BY DEF SlotPast
  <2>1. CASE i = f
        BY <1>1, <1>4, <1>5, <2>1
  <2>2. CASE i # f
    <3>1. reorder'[i] = reorder[i]
          BY <1>5, <2>2
    <3> QED BY <3>1 DEF RecvPast, SlotPast
  <2> QED BY <2>1, <2>2
<1> QED BY <1>6 DEF Store, RecvPast, NaluPast, AllWhole, FuCalls, Whole, Buffered

\* The pieces in the window
Kept(past) == {k \in 1 .. Len(past) :
                 \E i \in 1 .. Window : reorder[i].used /\ reorder[i].seq = NumberOf(k)}

\* Run is the longest run without a gap that no last fragment ends before.
LEMMA RunIsLongest ==
    ASSUME NEW s \in SeqNumbers
    PROVE  /\ \A j \in 1 .. Run(s) : j < Run(s) => ~reorder[SlotAfter(s, j)].end
           /\ \A k \in 0 .. Window :
                (\A j \in 1 .. k : /\ Stored((s + j) % SeqModulus) # {}
                                   /\ j < k => ~reorder[SlotAfter(s, j)].end)
                => k <= Run(s)
<1> DEFINE K == {k \in 0 .. Window : \A j \in 1 .. k :
                   /\ Stored((s + j) % SeqModulus) # {}
                   /\ j < k => ~reorder[SlotAfter(s, j)].end}
<1>1. Window \in Nat /\ 0 \in K
    BY WindowAssumption
<1>2. Run(s) = Max(K)
    BY DEF Run
<1>3. Max(K) \in K /\ \A y \in K : y <= Max(K)
  <2>1. K \subseteq 0 .. Window
        OBVIOUS
  <2> HIDE DEF K
  <2> QED BY <1>1, <2>1, MaxInRange
<1>4. Run(s) \in K /\ \A y \in K : y <= Run(s)
    BY <1>2, <1>3
<1> QED BY <1>4

\* The fragment expected, and those behind it in the window, go on with the
\* NALU in the buffer; when the last of them is final, the NALU is whole.
LEMMA ContinueRuns ==
    ASSUME NEW past, PastOK(past), FuTypeOK, RecvPast(past),
           NEW p \in Packets, NEW k \in 1 .. Len(past), IsCut(p, past[k], NumberOf(k)), p.fu,
           Continue(p), CutRight(p)
    PROVE  /\ ~p.start /\ active /\ S!IsFu(past[k].call)
           /\ k > 1 /\ expected_seq = NumberOf(k) /\ past[k - 1].call = past[k].call
           /\ \E run \in 0 .. Window :
                /\ k + run \in 1 .. Len(past) /\ past[k + run].call = past[k].call
                /\ Chain(past, k, run)
                /\ \A j \in 1 .. run : k + j \in Kept(past)
                /\ \/ IsFinal(past[k + run]) /\ Complete(Whole(past[k + run].call))
                   \/ /\ ~IsFinal(past[k + run])
                      /\ run < Window => k + run + 1 \notin Kept(past)
                      /\ expected_seq' = NumberOf(k + run + 1) /\ nalu' = SoFar(past[k + run])
                      /\ pending_fragments' = pending_fragments + 1 + run
                      /\ \A i \in 1 .. Window :
                           \/ reorder'[i] = reorder[i]
                           \/ /\ ~reorder'[i].used /\ reorder[i].used
                              /\ \E j \in 1 .. run : reorder[i].seq = NumberOf(k + j)
                      /\ \A j \in 1 .. run : \E i \in 1 .. Window :
                           /\ reorder[i].used /\ reorder[i].seq = NumberOf(k + j)
                           /\ ~reorder'[i].used
                      /\ UNCHANGED <<active, timestamp, expired, written>>
<1> DEFINE run == IF p.end THEN 0 ELSE Run(p.seq)
           drained == [j \in 1 .. run |-> SlotAfter(p.seq, j)]
           last == IF run = 0 THEN p.end ELSE reorder[drained[run]].end
           pieces == [j \in 1 .. run |-> reorder[drained[j]].data]
           n == [nalu EXCEPT !.body = Buffered(nalu.is_h265,
                                               nalu.body \o p.data \o FlattenSeq(pieces))]
           final == past[k + run]
<1>1. /\ ~p.start /\ active /\ p.seq = expected_seq
      /\ \/ last /\ Complete(n)
         \/ /\ ~last
            /\ expected_seq' = (p.seq + run + 1) % SeqModulus
            /\ pending_fragments' = pending_fragments + 1 + run
            /\ nalu' = n
            /\ reorder' = [i \in 1 .. Window |->
                             IF i \in ToSet(drained) THEN FreeSlot ELSE reorder[i]]
            /\ UNCHANGED <<active, timestamp, expired, written>>
    BY DEF Continue, Continues, CutRight
<1>2. /\ S!IsFu(past[k].call) /\ past[k].off # 0 /\ p.seq = NumberOf(k) /\ p.data = Data(past[k])
      /\ (p.end <=> IsFinal(past[k]))
    BY <1>1 DEF IsCut
<1>3. PICK a \in 1 .. Len(past) :
        expected_seq = NumberOf(a + 1) /\ nalu = SoFar(past[a])
    BY <1>1 DEF RecvPast, NaluPast
<1>4. k = a + 1 /\ past[k].call = past[a].call /\ past[k].off = Until(past[a])
  <2>1. NumberOf(k) = NumberOf(a + 1)
        BY <1>1, <1>2, <1>3
  <2> HIDE DEF run, drained, last, pieces, n, final
  <2> QED BY <1>2, <2>1, Successor
<1>5. run \in Nat /\ run \in 0 .. Window /\ \A j \in 1 .. run :
         drained[j] \in Stored((NumberOf(k) + j) % SeqModulus)
  <2>1. p.seq \in SeqNumbers
        BY DEF Packets
  <2>2. \A j \in 1 .. run : SlotAfter(p.seq, j) \in Stored((p.seq + j) % SeqModulus)
        BY <2>1, RunIs
  <2>3. run \in 0 .. Window /\ run \in Nat
        BY <2>1, RunIs, ConstantTypes
  <2> HIDE DEF run
  <2> QED BY <1>2, <2>2, <2>3
<1> HIDE DEF run
<1>6. \A j \in 1 .. run :
         /\ k + j \in 1 .. Len(past) /\ past[k + j].call = past[k].call
         /\ past[k + j].off = Until(past[k + (j - 1)])
         /\ reorder[drained[j]].data = Data(past[k + j])
         /\ (reorder[drained[j]].end <=> IsFinal(past[k + j]))
  <2> HIDE DEF drained
  <2> QED BY <1>5, RunFollows DEF RecvPast
<1>7. Chain(past, k, run) /\ pieces = Pieces(past, k, run)
  <2> HIDE DEF drained
  <2> QED BY <1>6 DEF Chain, Pieces
<1>8. n = SoFar(final) /\ k + run \in 1 .. Len(past) /\ final.call = past[k].call
  <2>1. /\ [nalu EXCEPT !.body = Buffered(nalu.is_h265, nalu.body \o Data(past[k])
                                             \o FlattenSeq(Pieces(past, k, run)))]
             = SoFar(past[k + run])
        /\ k + run \in 1 .. Len(past) /\ past[k + run].call = past[k].call
    <3> HIDE DEF drained, pieces, last, n
    <3>1. a + 1 \in 1 .. Len(past) /\ past[a + 1].call = past[a].call
          /\ past[a + 1].off = Until(past[a])
          BY <1>4
    <3>2. run \in Nat /\ Chain(past, k, run) /\ k = a + 1 /\ past[k].off = Until(past[a])
          /\ nalu = SoFar(past[a])
          BY <1>3, <1>4, <1>5, <1>7
    <3> QED BY <3>1, <3>2, NaluGrows
  <2> HIDE DEF pieces
  <2> QED BY <1>2, <1>7, <2>1
<1>9. last <=> IsFinal(final)
  <2>1. CASE run = 0
    <3>1. k + run = k
          BY <2>1
    <3> QED BY <1>2, <2>1, <3>1
  <2>2. CASE run # 0
    <3>1. run \in 1 .. run
          BY <1>5, <2>2
    <3> HIDE DEF drained
    <3> QED BY <1>6, <2>2, <3>1
  <2> QED BY <2>1, <2>2
<1>10. k > 1 /\ expected_seq = NumberOf(k) /\ k - 1 = a
    BY <1>3, <1>4
<1>11. \A j \in 1 .. run :
         /\ drained[j] = SlotAfter(p.seq, j) /\ drained[j] \in 1 .. Window
         /\ reorder[drained[j]].used /\ reorder[drained[j]].seq = NumberOf(k + j)
         /\ k + j \in Kept(past)
  <2> SUFFICES ASSUME NEW j \in 1 .. run
               PROVE  /\ drained[j] = SlotAfter(p.seq, j) /\ drained[j] \in 1 .. Window
                      /\ reorder[drained[j]].used /\ reorder[drained[j]].seq = NumberOf(k + j)
                      /\ k + j \in Kept(past)
      OBVIOUS
  <2>1. drained[j] = SlotAfter(p.seq, j)
        OBVIOUS
  <2> HIDE DEF drained
  <2>2. (NumberOf(k) + j) % SeqModulus = NumberOf(k + j)
        BY NumberOfPlus
  <2>3. /\ drained[j] \in 1 .. Window
        /\ reorder[drained[j]].used /\ reorder[drained[j]].seq = NumberOf(k + j)
        BY <1>5, <2>2 DEF Stored
  <2> QED BY <1>6, <2>1, <2>3 DEF Kept
<1>12. ASSUME ~last, run < Window, k + run + 1 \in Kept(past) PROVE FALSE
  <2>1. run = Run(p.seq)
        BY <1>12 DEF run
  <2>2. PICK i \in 1 .. Window : reorder[i].used /\ reorder[i].seq = NumberOf(k + run + 1)
        BY <1>12 DEF Kept
  <2>3. Stored((p.seq + (run + 1)) % SeqModulus) # {}
    <3>1. (NumberOf(k) + (run + 1)) % SeqModulus = NumberOf(k + (run + 1))
          BY <1>5, NumberOfPlus
    <3>2. k + (run + 1) = k + run + 1
          BY <1>5
    <3>3. i \in Stored((p.seq + (run + 1)) % SeqModulus)
          BY <1>2, <2>2, <3>1, <3>2 DEF Stored
    <3> QED BY <3>3
  <2>4. \A j \in 1 .. run : /\ Stored((p.seq + j) % SeqModulus) # {}
                            /\ ~reorder[SlotAfter(p.seq, j)].end
    <3>0. p.seq \in SeqNumbers
          BY DEF Packets
    <3> SUFFICES ASSUME NEW j \in 1 .. run
                 PROVE  /\ Stored((p.seq + j) % SeqModulus) # {}
                        /\ ~reorder[SlotAfter(p.seq, j)].end
        OBVIOUS
    <3>1. Stored((p.seq + j) % SeqModulus) # {}
          BY <1>2, <1>5
    <3>2. CASE j = run
      <4>1. ~reorder[drained[run]].end
            BY <1>12, <3>2
      <4>2. drained[run] = SlotAfter(p.seq, run)
            BY <1>11, <3>2
      <4> HIDE DEF drained, last
      <4> QED BY <3>1, <3>2, <4>1, <4>2
    <3>3. CASE j < run
      <4>1. j \in 1 .. Run(p.seq) /\ j < Run(p.seq)
            BY <2>1, <3>3
      <4> HIDE DEF drained, last
      <4> QED BY <3>0, <3>1, <4>1, RunIsLongest
    <3> QED BY <1>5, <3>1, <3>2, <3>3
  <2>5. /\ run + 1 \in 0 .. Window
        /\ \A j \in 1 .. run + 1 : j \in 1 .. run \/ j = run + 1
        BY <1>5, <1>12, ConstantTypes
  <2>6. \A j \in 1 .. run + 1 : /\ Stored((p.seq + j) % SeqModulus) # {}
                                /\ j < run + 1 => ~reorder[SlotAfter(p.seq, j)].end
        BY <2>3, <2>4, <2>5
  <2>7. run + 1 <= Run(p.seq)
    <3>1. p.seq \in SeqNumbers
          BY DEF Packets
    <3> HIDE DEF drained, last
    <3> QED BY <2>5, <2>6, <3>1, RunIsLongest
  <2> QED BY <1>5, <2>1, <2>7
<1> HIDE DEF n, last, pieces
<1>13. CASE last /\ Complete(n)
  <2>1. n = Whole(final.call)
        BY <1>8, <1>9, <1>13, NaluSoFar DEF final
  <2> HIDE DEF drained
  <2> QED BY <1>1, <1>2, <1>4, <1>5, <1>7, <1>8, <1>9, <1>10, <1>11, <1>13, <2>1
<1>14. CASE ~last
  <2>1. expected_seq' = NumberOf(k + run + 1)
    <3>1. expected_seq' = (NumberOf(k) + run + 1) % SeqModulus
          BY <1>1, <1>2, <1>14
    <3>2. (NumberOf(k) + (run + 1)) % SeqModulus = NumberOf(k + (run + 1))
          BY <1>5, NumberOfPlus
    <3>3. NumberOf(k) \in Int
          BY NumberOfPlus, ConstantTypes
    <3>4. NumberOf(k) + run + 1 = NumberOf(k) + (run + 1) /\ k + run + 1 = k + (run + 1)
          BY <1>5, <3>3
    <3> QED BY <3>1, <3>2, <3>4
  <2>2. \A i \in 1 .. Window :
          reorder'[i] = IF i \in ToSet(drained) THEN FreeSlot ELSE reorder[i]
        BY <1>1, <1>14
  <2>3. \A i \in 1 .. Window : i \in ToSet(drained) <=> \E j \in 1 .. run : i = drained[j]
    <3>1. DOMAIN drained = 1 .. run
          OBVIOUS
    <3> HIDE DEF drained
    <3> QED BY <3>1 DEF ToSet
  <2> HIDE DEF drained
  <2>4. ~FreeSlot.used
        BY DEF FreeSlot
  <2>5. \A i \in 1 .. Window :
          \/ reorder'[i] = reorder[i]
          \/ /\ ~reorder'[i].used /\ reorder[i].used
             /\ \E j \in 1 .. run : reorder[i].seq = NumberOf(k + j)
        BY <1>11, <2>2, <2>3, <2>4
  <2>6. \A j \in 1 .. run : \E i \in 1 .. Window :
          /\ reorder[i].used /\ reorder[i].seq = NumberOf(k + j) /\ ~reorder'[i].used
        BY <1>11, <2>2, <2>3, <2>4
  <2>7. /\ nalu' = SoFar(final) /\ UNCHANGED <<active, timestamp, expired, written>>
        /\ pending_fragments' = pending_fragments + 1 + run
        BY <1>1, <1>8, <1>14
  <2>8. run < Window => k + run + 1 \notin Kept(past)
        BY <1>12, <1>14
  <2> QED BY <1>1, <1>2, <1>4, <1>5, <1>7, <1>8, <1>9, <1>10, <1>11, <1>14, <2>1, <2>5,
             <2>6, <2>7, <2>8 DEF final
<1> QED BY <1>1, <1>13, <1>14

\* As much of that as the proofs about whole NALUs and their order need
LEMMA ContinueIs ==
    ASSUME NEW past, PastOK(past), FuTypeOK, RecvPast(past),
           NEW p \in Packets, NEW k \in 1 .. Len(past), IsCut(p, past[k], NumberOf(k)), p.fu,
           Continue(p), CutRight(p)
    PROVE  /\ ~p.start /\ active /\ S!IsFu(past[k].call)
           /\ k > 1 /\ expected_seq = NumberOf(k) /\ past[k - 1].call = past[k].call
           /\ \E b \in 1 .. Len(past) :
                /\ past[b].call = past[k].call
                /\ \/ IsFinal(past[b]) /\ Complete(Whole(past[b].call))
                   \/ /\ expected_seq' = NumberOf(b + 1) /\ nalu' = SoFar(past[b])
                      /\ \A i \in 1 .. Window :
                           reorder'[i].used => reorder[i].used /\ reorder'[i] = reorder[i]
                      /\ UNCHANGED <<active, written>>
<1>1. PICK run \in 0 .. Window :
        /\ k + run \in 1 .. Len(past) /\ past[k + run].call = past[k].call
        /\ \/ IsFinal(past[k + run]) /\ Complete(Whole(past[k + run].call))
           \/ /\ expected_seq' = NumberOf(k + run + 1) /\ nalu' = SoFar(past[k + run])
              /\ \A i \in 1 .. Window :
                   reorder'[i].used => reorder[i].used /\ reorder'[i] = reorder[i]
              /\ UNCHANGED <<active, written>>
    BY ContinueRuns
<1>2. ~p.start /\ active /\ S!IsFu(past[k].call)
      /\ k > 1 /\ expected_seq = NumberOf(k) /\ past[k - 1].call = past[k].call
    BY ContinueRuns
<1> QED BY <1>1, <1>2

LEMMA PastContinue ==
    ASSUME NEW past, PastOK(past), FuTypeOK, RecvPast(past),
           NEW p \in Packets, NEW k \in 1 .. Len(past), IsCut(p, past[k], NumberOf(k)), p.fu,
           Continue(p), CutRight(p)
    PROVE  RecvPast(past)'
<1>1. PICK b \in 1 .. Len(past) :
        /\ past[b].call = past[k].call
        /\ \/ IsFinal(past[b]) /\ Complete(Whole(past[b].call))
           \/ /\ expected_seq' = NumberOf(b + 1) /\ nalu' = SoFar(past[b])
              /\ \A i \in 1 .. Window :
                   reorder'[i].used => reorder[i].used /\ reorder'[i] = reorder[i]
              /\ UNCHANGED <<active, written>>
    BY ContinueIs
<1>2. S!IsFu(past[b].call)
    BY <1>1, ContinueIs
<1>3. CASE IsFinal(past[b]) /\ Complete(Whole(past[b].call))
    BY <1>2, <1>3, PastComplete
<1>4. CASE /\ expected_seq' = NumberOf(b + 1) /\ nalu' = SoFar(past[b])
           /\ \A i \in 1 .. Window :
                reorder'[i].used => reorder[i].used /\ reorder'[i] = reorder[i]
           /\ UNCHANGED <<active, written>>
  <2>1. NaluPast(past)'
        BY <1>2, <1>4 DEF NaluPast
  <2>2. SlotPast(past)'
        BY <1>4 DEF RecvPast, SlotPast
  <2>3. AllWhole'
        BY <1>4 DEF RecvPast, AllWhole, FuCalls, Whole, Buffered
  <2> QED BY <2>1, <2>2, <2>3 DEF RecvPast
<1> QED BY <1>1, <1>3, <1>4

LEMMA RecvPastStands ==
    ASSUME NEW past, RecvPast(past), UNCHANGED <<active, expected_seq, nalu, reorder, written>>
    PROVE  RecvPast(past)'
BY DEF RecvPast, SlotPast, NaluPast, AllWhole, FuCalls, Whole, Buffered

\* A fragment is handled, and cut as what it is.
Handled(p) == HandlePacket(p) /\ (Store(p) \/ Continue(p) => CutRight(p))

\* A packet is taken for what it is.
ReadWell(p) == (p.fu /\ Handled(p)) \/ (~p.fu /\ UNCHANGED fuVars)

LEMMA ReceivedWell ==
    ASSUME TypeInv, NEW p \in Packets, Receive(p), misread' = 0
    PROVE  misread = 0 /\ ReadWell(p)
<1>1. Len(written) + 1 # 0
  <2>1. Len(written) \in Nat
        BY DEF TypeInv, FuTypeOK
  <2> QED BY <2>1
<1>2. misread = 0 /\ ~Mistaken(p) /\ ~Miscut(p)
    BY <1>1 DEF Receive
<1>3. p.fu => HandlePacket(p)
    BY <1>2 DEF Receive
<1>4. ~p.fu => UNCHANGED fuVars
    BY <1>2 DEF Receive
<1>5. p.fu /\ (Store(p) \/ Continue(p)) => Cut(p) = p.data
  <2> SUFFICES ASSUME p.fu, Store(p) \/ Continue(p) PROVE Cut(p) = p.data
      OBVIOUS
  <2>1. p.is_h265 = nalu.is_h265
        BY <1>2 DEF Miscut
  <2>2. p.is_h265 \in BOOLEAN
        BY DEF Packets
  <2> QED BY <2>1, <2>2 DEF Cut
<1> QED BY <1>2, <1>3, <1>4, <1>5 DEF ReadWell, Handled, CutRight

\* In a step that misreads nothing, or after nothing was misread, the whole file
\* is trusted; in any other step what is trusted stays.
LEMMA TrustedStep ==
    ASSUME TypeInv, [MediaNext]_mediaVars
    PROVE  \/ misread = 0 /\ misread' = 0 /\ Trusted = written /\ Trusted' = written'
           \/ misread' # 0 /\ Trusted' = Trusted
<1>1. written \in Seq(Nalus) /\ Len(written) \in Nat /\ misread \in 0 .. Len(written) + 1
    BY DEF TypeInv, FuTypeOK
<1>2. UNCHANGED written \/ \E n \in Nalus : written' = Append(written, n)
  <2>0. TypeInv'
        BY TypeInductive
  <2>1. ASSUME NEW i \in Arriving, Receive(wire[i])
        PROVE  UNCHANGED written \/ \E n : written' = Append(written, n)
        BY <2>1, HandlePacketWrites DEF Receive, fuVars
  <2>2. UNCHANGED written \/ \E n : written' = Append(written, n)
        BY <2>1 DEF MediaNext, Send, Arrive, Lose, Delay, Expire, Finished, mediaVars, fuVars
  <2>3. ASSUME NEW n, written' = Append(written, n) PROVE n \in Nalus
    <3>1. written' \in Seq(Nalus) /\ Len(written') = Len(written) + 1
          BY <1>1, <2>0, <2>3 DEF TypeInv, FuTypeOK
    <3>2. written'[Len(written) + 1] = n
          BY <1>1, <2>3
    <3>3. Len(written) + 1 \in 1 .. Len(written')
          BY <1>1, <3>1
    <3> QED BY <3>1, <3>2, <3>3
  <2> QED BY <2>2, <2>3
<1>3. UNCHANGED misread \/ (misread = 0 /\ misread' = Len(written) + 1)
    BY DEF MediaNext, Send, Arrive, Receive, Lose, Delay, Finished, mediaVars
<1>4. ASSUME NEW m \in 0 .. Len(written)
      PROVE  SubSeq(written', 1, m) = SubSeq(written, 1, m)
  <2>1. CASE UNCHANGED written
        BY <2>1
  <2>2. ASSUME NEW n \in Nalus, written' = Append(written, n)
        PROVE  SubSeq(written', 1, m) = SubSeq(written, 1, m)
    <3>1. \A j \in 1 .. m : written'[j] = written[j] /\ j \in 1 .. Len(written)
          BY <1>1, <2>2
    <3>2. /\ SubSeq(written, 1, m) = [j \in 1 .. m |-> written[j]]
          /\ SubSeq(written', 1, m) = [j \in 1 .. m |-> written'[j]]
          BY <1>1, <2>2
    <3> QED BY <3>1, <3>2
  <2> QED BY <1>2, <2>1, <2>2
<1>5. SubSeq(written, 1, Len(written)) = written
    BY <1>1
<1>6. CASE misread = 0 /\ misread' = 0
    BY <1>6 DEF Trusted
<1>7. CASE misread = 0 /\ misread' = Len(written) + 1
  <2>1. misread' # 0 /\ misread' - 1 = Len(written)
        BY <1>1, <1>7
  <2>2. Trusted = written /\ Trusted' = SubSeq(written', 1, Len(written))
        BY <1>7, <2>1 DEF Trusted
  <2> QED BY <1>1, <1>4, <1>5, <2>1, <2>2
<1>8. CASE misread # 0 /\ misread' = misread
  <2>1. misread - 1 \in 0 .. Len(written)
        BY <1>1, <1>8
  <2>2. /\ Trusted = SubSeq(written, 1, misread - 1)
        /\ Trusted' = SubSeq(written', 1, misread - 1)
        BY <1>8 DEF Trusted
  <2> QED BY <1>4, <1>8, <2>1, <2>2
<1> QED BY <1>3, <1>6, <1>7, <1>8

\* Whatever fragment arrives, in whatever order, twice or late.
LEMMA PastHandle ==
    ASSUME NEW past, PastOK(past), FuTypeOK, RecvPast(past),
           NEW p \in Packets, NEW k \in 1 .. Len(past), IsCut(p, past[k], NumberOf(k)), p.fu,
           Handled(p)
    PROVE  RecvPast(past)'
<1>1. CASE Start(p)
    BY <1>1, PastStart
<1>2. CASE MissingStart(p) \/ IgnoreDuplicate(p)
    BY <1>2, RecvPastStands DEF MissingStart, IgnoreDuplicate, fuVars, fuCtx
<1>3. CASE DiscardStale(p) \/ DiscardUnordered(p)
  <2>1. Reset /\ AllWhole'
        BY <1>3 DEF DiscardStale, DiscardUnordered, RecvPast, AllWhole, FuCalls,
                    Whole, Buffered
  <2> QED BY <2>1, PastReset
<1>4. CASE Store(p)
    BY <1>4, PastStore DEF Handled
<1>5. CASE Continue(p)
    BY <1>5, PastContinue DEF Handled
<1> QED BY <1>1, <1>2, <1>3, <1>4, <1>5 DEF Handled, HandlePacket

\* One packet less with every chunk
LEMMA PacketsLeftIs ==
    ASSUME NEW c \in S!Calls, NEW o \in Nat, o < Len(Stream[c].body)
    PROVE  /\ PacketsLeft(c, o) \in Nat \ {0}
           /\ o + Room(c) < Len(Stream[c].body) =>
                PacketsLeft(c, o) = PacketsLeft(c, o + Room(c)) + 1
<1> DEFINE r == Room(c)
           L == Len(Stream[c].body)
           x == L - (o + r) + r - 1
<1>1. r \in Nat \ {0} /\ L \in Nat
    BY StreamIs
<1>2. PacketsLeft(c, o) = (L - o + r - 1) \div r /\ PacketsLeft(c, o + r) = x \div r
    BY DEF PacketsLeft
<1>3. PacketsLeft(c, o) \in Nat \ {0}
  <2>1. L - o + r - 1 \in Nat /\ L - o + r - 1 >= r
        BY <1>1
  <2> HIDE DEF r, L
  <2>2. (L - o + r - 1) \div r \in Nat /\ (L - o + r - 1) \div r >= 1
        BY <1>1, <2>1, DivPos
  <2> QED BY <1>2, <2>2
<1>4. ASSUME o + r < L PROVE PacketsLeft(c, o) = PacketsLeft(c, o + r) + 1
  <2>1. x \in Nat /\ x + r = L - o + r - 1
        BY <1>1, <1>4
  <2> HIDE DEF r, L, x
  <2> QED BY <1>1, <1>2, <2>1, DivStep
<1> QED BY <1>3, <1>4

\* The past with one more packet
LEMMA PastKeeps ==
    ASSUME NEW past, NEW longer, Len(past) \in Nat, Len(longer) \in Nat,
           Len(past) <= Len(longer),
           \A k \in 1 .. Len(past) : longer[k] = past[k]
    PROVE  /\ RecvPast(past) => RecvPast(longer)
           /\ WirePast(past) => WirePast(longer)
<1>1. \A k \in 1 .. Len(past) : k \in 1 .. Len(longer) /\ longer[k] = past[k]
    OBVIOUS
<1>2. SlotPast(past) => SlotPast(longer)
    BY <1>1 DEF SlotPast
<1>3. NaluPast(past) => NaluPast(longer)
    BY <1>1 DEF NaluPast
<1>4. WirePast(past) => WirePast(longer)
  <2> SUFFICES ASSUME WirePast(past), NEW i \in 1 .. Len(wire)
               PROVE  \E k \in 1 .. Len(longer) : IsCut(wire[i], longer[k], NumberOf(k))
      BY DEF WirePast
  <2>1. PICK k \in 1 .. Len(past) : IsCut(wire[i], past[k], NumberOf(k))
        BY DEF WirePast
  <2>2. k \in 1 .. Len(longer) /\ IsCut(wire[i], longer[k], NumberOf(k))
        BY <1>1, <2>1
  <2> QED BY <2>2
<1> QED BY <1>2, <1>3, <1>4 DEF RecvPast

NextCut == [call |-> call, off |-> offset, size |-> S!ChunkSize(call)]

\* What the sender cuts next is one piece more.
LEMMA PastGrows ==
    ASSUME NEW past, NEW left, PastOK(past), SenderType, SenderPast(past, left),
           call \in S!Calls, left[call + 1] \in Nat
    PROVE  /\ PastOK(Append(past, NextCut))
           /\ Len(Append(past, NextCut)) = Len(past) + 1
           /\ \A k \in 1 .. Len(past) : Append(past, NextCut)[k] = past[k]
           /\ Append(past, NextCut)[Len(past) + 1] = NextCut
           /\ IsCut(S!Packet(call), NextCut, NumberOf(Len(past) + 1))
<1> DEFINE longer == Append(past, NextCut)
           b == Stream[call].body
           size == S!ChunkSize(call)
<1>1. /\ offset \in Nat /\ offset < Len(b) /\ Len(b) \in Nat
      /\ size \in 1 .. Len(b) - offset
    BY StreamIs, ChunkIs DEF SenderType
<1>2. NextCut \in Cuts
  <2>1. size \in Nat \ {0}
    <3> HIDE DEF size, b
    <3> QED BY <1>1
  <2> QED BY <1>1, <2>1 DEF NextCut, Cuts
<1>3. past \in Seq(Cuts) /\ Len(past) \in Nat
    BY DEF PastOK
<1>4. /\ longer \in Seq(Cuts) /\ Len(longer) = Len(past) + 1
      /\ \A k \in 1 .. Len(past) : longer[k] = past[k]
      /\ longer[Len(past) + 1] = NextCut
    BY <1>2, <1>3, AppendProperties
<1>5. Until(NextCut) = offset + size /\ BodyOf(NextCut) = b
    BY DEF Until, BodyOf, NextCut
<1>6. Len(past) + 1 <= SeqModulus
  <2>1. PacketsLeft(call, offset) \in Nat \ {0}
        BY <1>1, PacketsLeftIs
  <2> QED BY <1>3, <2>1, ConstantTypes DEF SenderPast
<1>7. PastOK(longer)
  <2> HIDE DEF longer, b, size
  <2>1. ASSUME NEW k \in 1 .. Len(longer) PROVE Until(longer[k]) <= Len(BodyOf(longer[k]))
    <3>1. CASE k \in 1 .. Len(past)
          BY <1>4, <3>1 DEF PastOK
    <3>2. CASE k = Len(past) + 1
          BY <1>1, <1>4, <1>5, <3>2
    <3> QED BY <1>3, <1>4, <3>1, <3>2
  <2>2. ASSUME NEW k \in 1 .. Len(longer), longer[k].off # 0
        PROVE  /\ k > 1 /\ longer[k - 1].call = longer[k].call
               /\ Until(longer[k - 1]) = longer[k].off
    <3>1. CASE k \in 1 .. Len(past)
      <4>1. past[k].off # 0
            BY <1>4, <2>2, <3>1
      <4>2. k > 1 /\ past[k - 1].call = past[k].call /\ Until(past[k - 1]) = past[k].off
            BY <3>1, <4>1 DEF PastOK
      <4>3. k - 1 \in 1 .. Len(past)
            BY <3>1, <4>2
      <4> QED BY <1>4, <3>1, <4>2, <4>3
    <3>2. CASE k = Len(past) + 1
      <4>1. offset # 0 /\ longer[k].off = offset /\ longer[k].call = call
            BY <1>4, <2>2, <3>2 DEF NextCut
      <4>2. Len(past) > 0 /\ past[Len(past)].call = call /\ Until(past[Len(past)]) = offset
            BY <4>1 DEF SenderPast
      <4>3. k - 1 = Len(past) /\ Len(past) \in 1 .. Len(past) /\ k > 1
            BY <1>3, <3>2, <4>2
      <4> QED BY <1>4, <4>1, <4>2, <4>3
    <3> QED BY <1>3, <1>4, <3>1, <3>2
  <2> QED BY <1>4, <1>6, <2>1, <2>2 DEF PastOK
<1>8. IsCut(S!Packet(call), NextCut, NumberOf(Len(past) + 1))
  <2>1. rtp_seq = NumberOf(Len(past) + 1)
        BY DEF SenderPast
  <2>2. S!IsLast(call) <=> IsFinal(NextCut)
        BY <1>5 DEF S!IsLast, IsFinal
  <2>3. Data(NextCut) = SubSeq(b, offset + 1, offset + size)
        BY <1>5 DEF Data, NextCut
  <2>4. NextCut.call = call /\ NextCut.off = offset
        BY DEF NextCut
  <2> QED BY <2>1, <2>2, <2>3, <2>4 DEF S!Packet, IsCut
<1> QED BY <1>4, <1>7, <1>8

-----------------------------------------------------------------------------
(* The invariant.                                                          *)

Past(past, left) ==
    PastOK(past) /\ SenderPast(past, left) /\ WirePast(past) /\ RecvPast(past)

FileInv(left) == TypeInv /\ \E past \in Seq(Cuts) : Past(past, left)

Numbers(left) ==
    /\ left \in [1 .. Len(Stream) + 1 -> Nat]
    /\ \A c \in S!Calls : left[c] = PacketsLeft(c, 0) + left[c + 1]
    /\ left[1] <= SeqModulus

LEMMA NumbersLeft ==
    ASSUME NEW left, Numbers(left), NEW c \in S!Calls
    PROVE  left[c + 1] \in Nat
<1>1. Len(Stream) \in Nat
    BY MediaAssumption
<1>2. c + 1 \in 1 .. Len(Stream) + 1
    BY <1>1 DEF S!Calls
<1> QED BY <1>2 DEF Numbers

\* The numbers last, whether a call goes on, ends or is given up.
LEMMA BudgetStep ==
    ASSUME NEW left, Numbers(left), SenderType, call \in S!Calls,
           NEW n \in Nat, n + PacketsLeft(call, offset) + left[call + 1] <= SeqModulus,
           NEW m \in n .. n + 1,
           \/ S!NextCall
           \/ /\ ~S!IsLast(call) /\ offset' = offset + S!ChunkSize(call) /\ UNCHANGED call
              /\ m = n + 1
    PROVE  call' \in S!Calls => m + PacketsLeft(call', offset') + left[call' + 1] <= SeqModulus
<1>1. /\ offset \in Nat /\ offset < Len(Stream[call].body) /\ Len(Stream[call].body) \in Nat
      /\ SeqModulus \in Nat
    BY StreamIs, ConstantTypes DEF SenderType
<1>2. left[call + 1] \in Nat /\ PacketsLeft(call, offset) \in Nat \ {0}
    BY <1>1, NumbersLeft, PacketsLeftIs
<1>3. CASE S!NextCall
  <2> SUFFICES ASSUME call' \in S!Calls
               PROVE  m + PacketsLeft(call', offset') + left[call' + 1] <= SeqModulus
      OBVIOUS
  <2>1. call' = call + 1 /\ offset' = 0
        BY <1>3 DEF S!NextCall
  <2>2. left[call + 1] = PacketsLeft(call', offset') + left[call' + 1]
        BY <2>1 DEF Numbers
  <2>3. left[call' + 1] \in Nat /\ PacketsLeft(call', offset') \in Nat
    <3>1. left[call' + 1] \in Nat
          BY NumbersLeft
    <3>2. 0 < Len(Stream[call'].body)
          BY StreamIs
    <3> QED BY <2>1, <3>1, <3>2, PacketsLeftIs
  <2>4. m + left[call + 1] <= SeqModulus
        BY <1>1, <1>2
  <2> QED BY <2>2, <2>3, <2>4
<1>4. CASE /\ ~S!IsLast(call) /\ offset' = offset + S!ChunkSize(call) /\ UNCHANGED call
           /\ m = n + 1
  <2>1. /\ S!ChunkSize(call) = Room(call) /\ Room(call) \in Nat
        /\ ~(Len(Stream[call].body) - offset <= Room(call))
        BY <1>1, <1>4, ChunkIs, StreamIs
  <2>2. offset + Room(call) < Len(Stream[call].body)
        BY <1>1, <2>1
  <2>3. PacketsLeft(call, offset) = PacketsLeft(call, offset + Room(call)) + 1
        BY <1>1, <2>2, PacketsLeftIs
  <2>4. PacketsLeft(call, offset + Room(call)) \in Nat
    <3>1. offset + Room(call) \in Nat
          BY <1>1, <2>1
    <3> QED BY <2>2, <3>1, PacketsLeftIs
  <2>5. m + PacketsLeft(call, offset + Room(call)) + left[call + 1] <= SeqModulus
        BY <1>2, <1>4, <2>3, <2>4
  <2> QED BY <1>4, <2>1, <2>5
<1> QED BY <1>3, <1>4

LEMMA CountIsNext ==
    ASSUME NEW n \in Nat, rtp_seq = NumberOf(n + 1), S!Count(call)
    PROVE  rtp_seq' = NumberOf(n + 2)
<1>1. (NumberOf(n + 1) + 1) % SeqModulus = NumberOf((n + 1) + 1)
    BY NumberOfPlus
<1>2. (n + 1) + 1 = n + 2
    OBVIOUS
<1> QED BY <1>1, <1>2 DEF S!Count

\* The sender cuts a piece, whether its packet is sent or not; or gives up
\* before the packet is built.
LEMMA SendKeepsPast ==
    ASSUME NEW left, Numbers(left), TypeInv, NEW past \in Seq(Cuts), Past(past, left), Send
    PROVE  \E longer \in Seq(Cuts) :
             Past(longer, left)' /\ (longer = past \/ longer = Append(past, NextCut))
<1>1. call \in S!Calls /\ SenderType
    BY DEF Send, S!SendChunk, S!SendChunkFails, TypeInv
<1>2. left[call + 1] \in Nat
    BY <1>1, NumbersLeft
<1> DEFINE n == Len(past)
<1>0. PICK longer : longer = Append(past, NextCut)
    OBVIOUS
<1>3. /\ PastOK(longer) /\ Len(longer) = n + 1
      /\ \A k \in 1 .. n : longer[k] = past[k]
      /\ longer[n + 1] = NextCut
      /\ IsCut(S!Packet(call), NextCut, NumberOf(n + 1))
    BY <1>0, <1>1, <1>2, PastGrows DEF Past
<1>4. n \in Nat /\ longer \in Seq(Cuts)
    BY <1>3 DEF PastOK
<1>5. /\ rtp_seq = NumberOf(n + 1)
      /\ n + PacketsLeft(call, offset) + left[call + 1] <= SeqModulus
    BY <1>1 DEF Past, SenderPast
<1>6. RecvPast(past)' /\ UNCHANGED <<active, expected_seq, nalu, reorder, written>>
    BY RecvPastStands DEF Past, Send, fuVars, fuCtx
<1>7. RecvPast(longer)'
  <2>1. RecvPast(longer)
    <3> HIDE DEF n
    <3>1. Len(past) \in Nat /\ Len(longer) \in Nat /\ Len(past) <= Len(longer)
          /\ \A k \in 1 .. Len(past) : longer[k] = past[k]
          BY <1>3, <1>4 DEF n
    <3> QED BY <3>1, PastKeeps DEF Past
  <2> QED BY <1>6, <2>1, RecvPastStands
<1>8. WirePast(longer)
  <2> HIDE DEF n
  <2>1. Len(past) \in Nat /\ Len(longer) \in Nat /\ Len(past) <= Len(longer)
        /\ \A k \in 1 .. Len(past) : longer[k] = past[k]
        BY <1>3, <1>4 DEF n
  <2> QED BY <2>1, PastKeeps DEF Past
<1> HIDE DEF n
<1>9. CASE S!SendChunk /\ wire' = Append(wire, S!Packet(call))
  <2>1. SenderPast(longer, left)'
    <3>1. rtp_seq' = NumberOf(Len(longer) + 1)
      <4>1. rtp_seq' = NumberOf(n + 2) /\ Len(longer) + 1 = n + 2
            BY <1>3, <1>4, <1>5, <1>9, CountIsNext DEF S!SendChunk
      <4> QED BY <4>1
    <3>2. offset' # 0 => /\ call' \in S!Calls /\ Len(longer) > 0
                         /\ longer[Len(longer)].call = call'
                         /\ Until(longer[Len(longer)]) = offset'
          BY <1>1, <1>3, <1>4, <1>9 DEF S!SendChunk, S!NextCall, NextCut, Until
    <3>3. call' \in S!Calls =>
            Len(longer) + PacketsLeft(call', offset') + left[call' + 1] <= SeqModulus
      <4>1. n + 1 \in n .. n + 1
            BY <1>4
      <4> QED BY <1>1, <1>3, <1>4, <1>5, <1>9, <4>1, BudgetStep DEF S!SendChunk
    <3> QED BY <3>1, <3>2, <3>3 DEF SenderPast, PacketsLeft, Room
  <2>2. WirePast(longer)'
    <3>1. wire \in Seq(Packets) /\ Len(wire) \in Nat
          BY DEF TypeInv
    <3>2. S!Packet(call) \in Packets
          BY <1>1, PacketType DEF SenderType
    <3>3. /\ Len(wire') = Len(wire) + 1 /\ wire'[Len(wire) + 1] = S!Packet(call)
          /\ \A i \in 1 .. Len(wire) : wire'[i] = wire[i]
          BY <1>9, <3>1, <3>2, AppendProperties
    <3>4. ASSUME NEW i \in 1 .. Len(wire) + 1
          PROVE  \E k \in 1 .. Len(longer) : IsCut(wire'[i], longer[k], NumberOf(k))
      <4>1. CASE i \in 1 .. Len(wire)
            BY <1>8, <3>3, <4>1 DEF WirePast
      <4>2. CASE i = Len(wire) + 1
        <5>1. n + 1 \in 1 .. Len(longer)
              BY <1>3, <1>4
        <5> QED BY <1>3, <3>3, <4>2, <5>1
      <4> QED BY <3>1, <4>1, <4>2
    <3> QED BY <3>3, <3>4 DEF WirePast
  <2> QED BY <1>0, <1>3, <1>4, <1>7, <2>1, <2>2 DEF Past
<1>10. CASE S!SendChunkFails /\ UNCHANGED wire
  <2>1. CASE S!Count(call)
    <3>1. SenderPast(longer, left)'
      <4>1. rtp_seq' = NumberOf(Len(longer) + 1)
        <5>1. rtp_seq' = NumberOf(n + 2) /\ Len(longer) + 1 = n + 2
              BY <1>3, <1>4, <1>5, <2>1, CountIsNext
        <5> QED BY <5>1
      <4>2. offset' = 0
            BY <1>10 DEF S!SendChunkFails, S!NextCall
      <4>3. call' \in S!Calls =>
              Len(longer) + PacketsLeft(call', offset') + left[call' + 1] <= SeqModulus
        <5>1. n + 1 \in n .. n + 1
              BY <1>4
        <5> QED BY <1>1, <1>3, <1>4, <1>5, <1>10, <5>1, BudgetStep DEF S!SendChunkFails
      <4> QED BY <4>1, <4>2, <4>3 DEF SenderPast, PacketsLeft, Room
    <3>2. WirePast(longer)'
          BY <1>8, <1>10 DEF WirePast
    <3> QED BY <1>0, <1>3, <1>4, <1>7, <3>1, <3>2 DEF Past
  <2>2. CASE UNCHANGED <<rtp_seq, rtp_timestamp>>
    <3>1. SenderPast(past, left)'
      <4>1. rtp_seq' = NumberOf(Len(past) + 1)
            BY <1>5, <2>2 DEF n
      <4>2. offset' = 0
            BY <1>10 DEF S!SendChunkFails, S!NextCall
      <4>3. call' \in S!Calls =>
              Len(past) + PacketsLeft(call', offset') + left[call' + 1] <= SeqModulus
        <5>1. n \in n .. n + 1
              BY <1>4
        <5> QED BY <1>1, <1>4, <1>5, <1>10, <5>1, BudgetStep DEF S!SendChunkFails, n
      <4> QED BY <4>1, <4>2, <4>3 DEF SenderPast, PacketsLeft, Room
    <3>2. WirePast(past)'
          BY <1>10 DEF WirePast, Past
    <3> QED BY <1>6, <3>1, <3>2 DEF Past
  <2> QED BY <1>10, <2>1, <2>2 DEF S!SendChunkFails
<1> QED BY <1>9, <1>10 DEF Send

\* A packet arrives, from anywhere on the wire, and may stay there.
LEMMA ArriveKeepsPast ==
    ASSUME NEW left, TypeInv, NEW past \in Seq(Cuts), Past(past, left), Arrive, misread' = 0
    PROVE  Past(past, left)'
<1>1. wire \in Seq(Packets) /\ Len(wire) \in Nat /\ FuTypeOK
    BY DEF TypeInv
<1>2. PICK i \in Arriving :
        /\ Receive(wire[i])
        /\ wire' = RemoveAt(wire, i) \/ UNCHANGED wire
    BY DEF Arrive
<1>3. i \in 1 .. Len(wire) /\ wire[i] \in Packets /\ ReadWell(wire[i])
  <2>1. i \in 1 .. Len(wire) /\ wire[i] \in Packets
        BY <1>1 DEF Arriving
  <2> QED BY <1>2, <2>1, ReceivedWell
<1>4. RecvPast(past)'
  <2>1. CASE wire[i].fu /\ Handled(wire[i])
    <3>1. PICK k \in 1 .. Len(past) : IsCut(wire[i], past[k], NumberOf(k))
          BY <1>3 DEF Past, WirePast
    <3> QED BY <1>1, <1>3, <2>1, <3>1, PastHandle DEF Past
  <2>2. CASE UNCHANGED fuVars
        BY <2>2, RecvPastStands DEF Past, fuVars, fuCtx
  <2> QED BY <1>3, <2>1, <2>2 DEF ReadWell
<1>5. WirePast(past)'
  <2>1. CASE wire' = RemoveAt(wire, i)
    <3>1. /\ Len(wire') = Len(wire) - 1
          /\ \A j \in 1 .. Len(wire) - 1 : wire'[j] = IF j < i THEN wire[j] ELSE wire[j + 1]
          BY <1>1, <1>3, <2>1, RemoveAtIs
    <3>2. ASSUME NEW j \in 1 .. Len(wire) - 1
          PROVE  \E k \in 1 .. Len(past) : IsCut(wire'[j], past[k], NumberOf(k))
      <4>1. j \in 1 .. Len(wire) /\ j + 1 \in 1 .. Len(wire)
            BY <1>1
      <4>2. wire'[j] = wire[j] \/ wire'[j] = wire[j + 1]
            BY <3>1
      <4> QED BY <4>1, <4>2 DEF Past, WirePast
    <3> QED BY <3>1, <3>2 DEF WirePast
  <2>2. CASE UNCHANGED wire
        BY <2>2 DEF Past, WirePast
  <2> QED BY <1>2, <2>1, <2>2
<1>6. SenderPast(past, left)'
    BY DEF Arrive, Past, SenderPast, PacketsLeft, Room
<1> QED BY <1>4, <1>5, <1>6 DEF Past

LEMMA LoseKeepsPast ==
    ASSUME NEW left, TypeInv, NEW past \in Seq(Cuts), Past(past, left), Lose
    PROVE  Past(past, left)'
<1>1. wire \in Seq(Packets) /\ Len(wire) \in Nat /\ wire # <<>>
    BY DEF TypeInv, Lose
<1>2. /\ Len(wire') = Len(wire) - 1
      /\ \A j \in 1 .. Len(wire') : wire'[j] = wire[j + 1]
    BY <1>1, HeadTailProperties DEF Lose
<1>3. WirePast(past)'
  <2>1. ASSUME NEW j \in 1 .. Len(wire')
        PROVE  \E k \in 1 .. Len(past) : IsCut(wire'[j], past[k], NumberOf(k))
    <3>1. j + 1 \in 1 .. Len(wire)
          BY <1>1, <1>2
    <3> QED BY <1>2, <3>1 DEF Past, WirePast
  <2> QED BY <2>1 DEF WirePast
<1>4. RecvPast(past)'
    BY RecvPastStands DEF Past, Lose, fuVars, fuCtx
<1>5. SenderPast(past, left)'
    BY DEF Lose, Past, SenderPast, PacketsLeft, Room
<1> QED BY <1>3, <1>4, <1>5 DEF Past

LEMMA StandKeepsPast ==
    ASSUME NEW left, NEW past, Past(past, left), Delay \/ UNCHANGED mediaVars
    PROVE  Past(past, left)'
<1>1. RecvPast(past)'
    BY RecvPastStands DEF Past, Delay, Expire, mediaVars, fuVars, fuCtx
<1>2. WirePast(past)' /\ SenderPast(past, left)'
    BY DEF Delay, Expire, mediaVars, Past, WirePast, SenderPast, PacketsLeft, Room
<1> QED BY <1>1, <1>2 DEF Past

LEMMA FileInvInductive ==
    ASSUME NEW left, Numbers(left)
    PROVE  FileInv(left) /\ [MediaNext]_mediaVars /\ misread' = 0 => FileInv(left)'
<1> SUFFICES ASSUME FileInv(left), [MediaNext]_mediaVars, misread' = 0 PROVE FileInv(left)'
    OBVIOUS
<1>1. TypeInv /\ TypeInv'
    BY TypeInductive DEF FileInv
<1>2. PICK past \in Seq(Cuts) : Past(past, left)
    BY DEF FileInv
<1>3. CASE Send
    BY <1>1, <1>2, <1>3, SendKeepsPast DEF FileInv
<1>4. CASE Arrive
    BY <1>1, <1>2, <1>4, ArriveKeepsPast DEF FileInv
<1>5. CASE Lose
    BY <1>1, <1>2, <1>5, LoseKeepsPast DEF FileInv
<1>6. CASE Delay \/ UNCHANGED mediaVars
    BY <1>1, <1>2, <1>6, StandKeepsPast DEF FileInv
<1> QED BY <1>3, <1>4, <1>5, <1>6 DEF MediaNext, Finished

LEMMA FileInvInit ==
    ASSUME NEW left, Numbers(left) PROVE MediaInit => FileInv(left) /\ Past(<<>>, left)
<1> SUFFICES ASSUME MediaInit PROVE FileInv(left) /\ Past(<<>>, left)
    OBVIOUS
<1>1. <<>> \in Seq(Cuts) /\ Len(<<>>) = 0
    OBVIOUS
<1>2. /\ call = 1 /\ offset = 0 /\ rtp_seq = FirstSeq /\ wire = <<>> /\ active = FALSE
      /\ reorder = [i \in 1 .. Window |-> FreeSlot] /\ written = <<>>
    BY DEF MediaInit, FuInit, S!SenderInit
<1>3. PastOK(<<>>)
    BY <1>1, ConstantTypes DEF PastOK
<1>4. SenderPast(<<>>, left)
  <2>1. NumberOf(1) = FirstSeq
    <3>1. FirstSeq \in 0 .. SeqModulus - 1 /\ SeqModulus \in Nat \ {0}
          BY MediaAssumption, ConstantTypes
    <3>2. (FirstSeq + 0) % SeqModulus = FirstSeq /\ 1 - 1 = 0
          BY <3>1, ModStep
    <3> QED BY <3>2 DEF NumberOf
  <2>2. call \in S!Calls => PacketsLeft(call, offset) + left[call + 1] <= SeqModulus
        BY <1>2 DEF Numbers
  <2>3. call \in S!Calls => /\ PacketsLeft(call, offset) \in Nat /\ left[call + 1] \in Nat
    <3> SUFFICES ASSUME call \in S!Calls
                 PROVE  PacketsLeft(call, offset) \in Nat /\ left[call + 1] \in Nat
        OBVIOUS
    <3>1. offset \in Nat /\ offset < Len(Stream[call].body)
          BY <1>2, StreamIs
    <3> QED BY <3>1, PacketsLeftIs, NumbersLeft
  <2> QED BY <1>1, <1>2, <2>1, <2>2, <2>3 DEF SenderPast
<1>5. WirePast(<<>>)
    BY <1>2 DEF WirePast
<1>6. RecvPast(<<>>)
    BY <1>2 DEF RecvPast, SlotPast, NaluPast, AllWhole, FreeSlot, ToSet
<1> QED BY <1>1, <1>3, <1>4, <1>5, <1>6, TypeInit DEF FileInv, Past

\* Of what was written before a packet was misread, this stays true.
WholeInv(left) == TypeInv /\ OnlyWholeNalus /\ (misread = 0 => FileInv(left))

LEMMA WholeIsKept ==
    ASSUME NEW left, Numbers(left) PROVE MediaSpec => []WholeInv(left)
<1>1. MediaInit => WholeInv(left)
  <2> SUFFICES ASSUME MediaInit PROVE WholeInv(left)
      OBVIOUS
  <2>1. FileInv(left) /\ AllWhole /\ misread = 0
        BY FileInvInit DEF Past, RecvPast, MediaInit
  <2> QED BY <2>1, TypeInit DEF WholeInv, OnlyWholeNalus, AllWhole, Trusted
<1>2. WholeInv(left) /\ [MediaNext]_mediaVars => WholeInv(left)'
  <2> SUFFICES ASSUME WholeInv(left), [MediaNext]_mediaVars PROVE WholeInv(left)'
      OBVIOUS
  <2>1. TypeInv /\ TypeInv'
        BY TypeInductive DEF WholeInv
  <2>2. CASE misread' = 0
    <3>1. misread = 0 /\ Trusted' = written'
          BY <2>1, <2>2, TrustedStep
    <3>2. FileInv(left)'
          BY <2>2, <3>1, FileInvInductive DEF WholeInv
    <3>3. OnlyWholeNalus'
          BY <3>1, <3>2 DEF FileInv, Past, RecvPast, AllWhole, OnlyWholeNalus
    <3> QED BY <2>1, <3>2, <3>3 DEF WholeInv
  <2>3. CASE misread' # 0
    <3>1. Trusted' = Trusted
          BY <2>1, <2>3, TrustedStep
    <3>2. OnlyWholeNalus'
          BY <3>1 DEF WholeInv, OnlyWholeNalus, FuCalls, Whole, Buffered
    <3> QED BY <2>1, <2>3, <3>2 DEF WholeInv
  <2> QED BY <2>2, <2>3
<1> QED BY <1>1, <1>2, PTL DEF MediaSpec

\* What reaches the file is a NALU that was sent, from its header to its last
\* fragment, for every window, buffer, fragment limit and stream, whatever is
\* lost, repeated, late, out of order or given up: as long as no two packets
\* of the stream have the same sequence number, up to the first packet that is
\* taken for what it is not (a piece of another payload for a fragment, a
\* fragment for one of the other codec).
THEOREM OnlyWholeNalusReachTheFile ==
    ASSUME NumbersSuffice
    PROVE  MediaSpec => []OnlyWholeNalus
<1>1. PICK left : Numbers(left)
    BY DEF NumbersSuffice, Numbers
<1>2. MediaSpec => []WholeInv(left)
    BY <1>1, WholeIsKept
<1>3. WholeInv(left) => OnlyWholeNalus
    BY DEF WholeInv
<1> QED BY <1>2, <1>3, PTL

-----------------------------------------------------------------------------
(* The order of the file, where packets keep to the order they were sent   *)
(* in but for fragments of one NALU.                                       *)

\* The calls the pieces are of: their last one is gone when the call is over.
PastSent(past) ==
    \A k \in 1 .. Len(past) :
      past[k].call < call \/ (past[k].call = call /\ offset # 0 /\ ~IsFinal(past[k]))

\* The calls of the NALUs in the file
Owned(own) ==
    /\ own \in [1 .. Len(written) -> FuCalls]
    /\ \A i \in 1 .. Len(written) : written[i] = Whole(own[i]) /\ own[i] < call
    /\ \A i, j \in 1 .. Len(written) : i < j =>
         own[i] < own[j] \/ (own[i] = own[j] /\ Fragmented(own[i]) = 1 /\ repeats > 0)

\* A first fragment is the first packet of its call.
WireOrder ==
    /\ \A i, j \in 1 .. Len(wire) : i < j =>
         wire[i].call <= wire[j].call /\ (wire[j].start => wire[i].call # wire[j].call)
    /\ \A i \in 1 .. Len(wire) :
         wire[i].start /\ wire[i].end => Fragmented(wire[i].call) = 1

\* A first fragment on its way is of a NALU that the file does not have yet,
\* or it is the whole NALU and arrived before.
WireNew(own) ==
    \A j \in 1 .. Len(wire) : wire[j].start =>
      \A i \in 1 .. Len(written) :
        own[i] < wire[j].call \/ (own[i] = wire[j].call /\ wire[j].end /\ repeats > 0)

\* The NALU in the buffer is not in the file yet, and its first fragment has
\* arrived for the last time where packets do not repeat.
NaluNew(past, own) ==
    active => \A k \in 1 .. Len(past) : expected_seq = NumberOf(k + 1) =>
                /\ \A i \in 1 .. Len(written) : own[i] < past[k].call
                /\ \/ network = "repeat"
                   \/ \A j \in 1 .. Len(wire) : wire[j].start => wire[j].call # past[k].call

Order(past, own) ==
    PastSent(past) /\ Owned(own) /\ WireOrder /\ WireNew(own) /\ NaluNew(past, own)

\* The number expected says which piece was the last.
LEMMA SameNumber ==
    ASSUME NEW past, PastOK(past), NEW k \in 1 .. Len(past), NEW l \in 1 .. Len(past),
           NumberOf(k + 1) = NumberOf(l + 1)
    PROVE  k = l
<1>1. /\ Len(past) \in Nat /\ Len(past) <= SeqModulus /\ FirstSeq \in Int
      /\ SeqModulus \in Nat \ {0}
    BY MediaAssumption, ConstantTypes DEF PastOK
<1> DEFINE x == FirstSeq + ((k + 1) - 1)
           y == FirstSeq + ((l + 1) - 1)
<1>2. x \in Int /\ y \in Int /\ x - y < SeqModulus /\ y - x < SeqModulus
    BY <1>1
<1>3. x % SeqModulus = y % SeqModulus
    BY DEF NumberOf
<1>4. x = y
  <2> HIDE DEF x, y
  <2> QED BY <1>1, <1>2, <1>3, ModInjective
<1> QED BY <1>1, <1>4

\* A packet less on the wire
LEMMA WireOrderShrinks ==
    ASSUME WireOrder, Len(wire) \in Nat, NEW i \in 1 .. Len(wire),
           Len(wire') = Len(wire) - 1,
           \A j \in 1 .. Len(wire) - 1 : wire'[j] = IF j < i THEN wire[j] ELSE wire[j + 1]
    PROVE  WireOrder'
<1> DEFINE m(j) == IF j < i THEN j ELSE j + 1
<1>1. \A j \in 1 .. Len(wire') : m(j) \in 1 .. Len(wire) /\ wire'[j] = wire[m(j)]
    OBVIOUS
<1>2. \A j, l \in 1 .. Len(wire') : j < l => m(j) < m(l)
    OBVIOUS
<1> HIDE DEF m
<1>3. ASSUME NEW j \in 1 .. Len(wire'), NEW l \in 1 .. Len(wire'), j < l
      PROVE  wire'[j].call <= wire'[l].call /\ (wire'[l].start => wire'[j].call # wire'[l].call)
  <2>1. /\ m(j) \in 1 .. Len(wire) /\ m(l) \in 1 .. Len(wire) /\ m(j) < m(l)
        /\ wire'[j] = wire[m(j)] /\ wire'[l] = wire[m(l)]
        BY <1>1, <1>2, <1>3
  <2>2. /\ wire[m(j)].call <= wire[m(l)].call
        /\ wire[m(l)].start => wire[m(j)].call # wire[m(l)].call
        BY <2>1 DEF WireOrder
  <2> QED BY <2>1, <2>2
<1>4. ASSUME NEW j \in 1 .. Len(wire'), wire'[j].start, wire'[j].end
      PROVE  Fragmented(wire'[j].call) = 1
    BY <1>1, <1>4 DEF WireOrder
<1> QED BY <1>3, <1>4 DEF WireOrder, Fragmented

\* What holds of the NALUs in the file when nothing is written
LEMMA OwnedStands ==
    ASSUME NEW own, Owned(own), call \in Nat, call' \in Nat, call <= call',
           repeats \in Nat, repeats' \in Nat, repeats <= repeats', UNCHANGED written
    PROVE  /\ Owned(own)'
           /\ WireNew(own)
              /\ (\A j \in 1 .. Len(wire') : wire'[j].start =>
                    \E m \in 1 .. Len(wire) : wire'[j] = wire[m])
                => WireNew(own)'
<1>1. \A i \in 1 .. Len(written) : own[i] \in Nat
    BY DEF Owned, FuCalls, S!Calls
<1>2. \A i \in 1 .. Len(written) : written[i] = Whole(own[i]) /\ own[i] < call'
    BY <1>1 DEF Owned
<1>3. \A i, j \in 1 .. Len(written) : i < j =>
        own[i] < own[j] \/ (own[i] = own[j] /\ Fragmented(own[i]) = 1 /\ repeats' > 0)
    BY DEF Owned
<1>4. Owned(own)'
    BY <1>2, <1>3 DEF Owned, FuCalls, Whole, Buffered, Fragmented
<1> QED BY <1>4 DEF WireNew

\* A NALU more in the file, behind those it has, and no first fragment on its
\* way that it must not come before
LEMMA OwnedGrows ==
    ASSUME NEW own, Owned(own), written \in Seq(Nalus), call \in Nat, UNCHANGED call,
           repeats \in Nat, repeats' \in Nat, repeats <= repeats',
           NEW c \in FuCalls, c < call, Whole(c) \in Nalus,
           written' = Append(written, Whole(c)),
           \A i \in 1 .. Len(written) :
             own[i] < c \/ (own[i] = c /\ Fragmented(c) = 1 /\ repeats > 0),
           wire' \in Seq(Packets),
           \A j \in 1 .. Len(wire') : wire'[j].start =>
             \/ c < wire'[j].call
             \/ c = wire'[j].call /\ wire'[j].end /\ repeats' > 0
    PROVE  \E more : Owned(more)' /\ WireNew(more)'
<1> DEFINE n == Len(written)
           more == [i \in 1 .. n + 1 |-> IF i = n + 1 THEN c ELSE own[i]]
<1>1. /\ Len(written') = n + 1 /\ n \in Nat /\ written'[n + 1] = Whole(c)
      /\ \A i \in 1 .. n : written'[i] = written[i]
    BY AppendProperties
<1>2. /\ more \in [1 .. n + 1 -> FuCalls] /\ more[n + 1] = c
      /\ \A i \in 1 .. n : more[i] = own[i]
  <2>1. n \in Nat /\ own \in [1 .. n -> FuCalls] /\ c \in FuCalls
        BY <1>1 DEF Owned
  <2> HIDE DEF n
  <2> QED BY ONLY <2>1
<1>3. \A i \in 1 .. n : own[i] \in Nat /\ c \in Nat /\ own[i] <= c
    BY SMTT(60) DEF Owned, FuCalls, S!Calls
<1>4. PICK f : f = more
    OBVIOUS
<1> HIDE DEF n, more
<1>5. Owned(f)'
  <2>1. (f \in [1 .. Len(written) -> FuCalls])'
        BY <1>1, <1>2, <1>4 DEF FuCalls
  <2>2. ASSUME NEW i \in 1 .. n + 1 PROVE written'[i] = Whole(f[i]) /\ f[i] < call'
    <3>1. i = n + 1 \/ i \in 1 .. n
          BY <1>1
    <3> QED BY <1>1, <1>2, <1>4, <3>1 DEF Owned, n
  <2>3. ASSUME NEW i \in 1 .. n + 1, NEW j \in 1 .. n + 1, i < j
        PROVE  f[i] < f[j] \/ (f[i] = f[j] /\ Fragmented(f[i]) = 1 /\ repeats' > 0)
    <3>1. i \in 1 .. n /\ (j = n + 1 \/ j \in 1 .. n)
          BY <1>1, <2>3
    <3>2. CASE j = n + 1
          BY <1>2, <1>4, <3>1, <3>2 DEF n
    <3>3. CASE j \in 1 .. n
          BY <1>2, <1>4, <2>3, <3>1, <3>3 DEF Owned, n
    <3> QED BY <3>1, <3>2, <3>3
  <2> QED BY <1>1, <2>1, <2>2, <2>3 DEF Owned, Whole, Buffered, Fragmented
<1>6. WireNew(f)'
  <2>1. ASSUME NEW j \in 1 .. Len(wire'), wire'[j].start, NEW i \in 1 .. n + 1
        PROVE  f[i] < wire'[j].call \/ (f[i] = wire'[j].call /\ wire'[j].end /\ repeats' > 0)
    <3>1. f[i] = c \/ f[i] < c
      <4>1. i = n + 1 \/ i \in 1 .. n
            BY <1>1
      <4> QED BY <1>2, <1>3, <1>4, <4>1
    <3>2. c \in Nat /\ f[i] \in Nat
      <4>1. f \in [1 .. n + 1 -> FuCalls]
            BY <1>2, <1>4
      <4>2. f[i] \in FuCalls
            BY <4>1
      <4> QED BY <4>2 DEF FuCalls, S!Calls
    <3>3. c < wire'[j].call \/ (c = wire'[j].call /\ wire'[j].end /\ repeats' > 0)
          BY <2>1
    <3>4. wire'[j].call \in Nat
      <4>1. wire'[j] \in Packets
            OBVIOUS
      <4> QED BY <4>1, SMTT(60) DEF Packets, S!Calls
    <3> QED BY <3>1, <3>2, <3>3, <3>4
  <2> QED BY <1>1, <2>1 DEF WireNew
<1> QED BY <1>5, <1>6

\* When packet i arrives, the other first fragments on their way are of later
\* NALUs, or of the same one in front of it.
LEMMA StartsLeft ==
    ASSUME wire \in Seq(Packets), WireOrder, network # "any", NEW i \in Arriving,
           NEW j \in 1 .. Len(wire), j # i, wire[j].start
    PROVE  \/ wire[i].call < wire[j].call
           \/ network # "repeat" /\ wire[j].call = wire[i].call /\ ~wire[i].start
<1>1. i \in 1 .. Len(wire) /\ Len(wire) \in Nat
    BY DEF Arriving
<1>2. wire[i].call \in Nat /\ wire[j].call \in Nat
  <2>1. wire[i] \in Packets /\ wire[j] \in Packets
        BY <1>1
  <2>2. \A q \in Packets : q.call \in S!Calls
        BY DEF Packets
  <2>3. \A c \in S!Calls : c \in Nat
        BY DEF S!Calls
  <2> QED BY <2>1, <2>2, <2>3
<1>3. CASE i < j
  <2>1. wire[i].call <= wire[j].call /\ wire[i].call # wire[j].call
        BY <1>1, <1>3 DEF WireOrder
  <2> QED BY <1>2, <2>1
<1>4. CASE j < i
  <2>1. SameNalu(i) /\ network # "repeat"
        BY <1>1, <1>4 DEF Arriving
  <2>2. wire[j].call = wire[i].call
        BY <1>1, <1>4, <2>1 DEF SameNalu
  <2>3. ~wire[i].start
        BY <1>1, <1>4, <2>2 DEF WireOrder
  <2> QED BY <2>1, <2>2, <2>3
<1> QED BY <1>1, <1>3, <1>4

\* An arrival: the packet is gone or, repeated, stays in front.
LEMMA Arrived ==
    ASSUME wire \in Seq(Packets), repeats \in Nat, WireOrder, network # "any",
           NEW i \in 1 .. Len(wire),
           \/ wire' = RemoveAt(wire, i) /\ UNCHANGED repeats
           \/ /\ network \in {"repeat", "any"} /\ repeats < MaxRepeats
              /\ repeats' = repeats + 1
              /\ UNCHANGED wire
    PROVE  /\ WireOrder' /\ repeats' \in Nat /\ repeats <= repeats'
           /\ \A j \in 1 .. Len(wire') : \E m \in 1 .. Len(wire) :
                wire'[j] = wire[m] /\ (m # i \/ (network = "repeat" /\ repeats' > 0))
<1>1. Len(wire) \in Nat
    OBVIOUS
<1>2. CASE wire' = RemoveAt(wire, i) /\ UNCHANGED repeats
  <2>1. /\ Len(wire') = Len(wire) - 1
        /\ \A j \in 1 .. Len(wire) - 1 : wire'[j] = IF j < i THEN wire[j] ELSE wire[j + 1]
        BY <1>2, RemoveAtIs
  <2>2. WireOrder'
        BY <1>1, <2>1, WireOrderShrinks
  <2>3. ASSUME NEW j \in 1 .. Len(wire')
        PROVE  \E m \in 1 .. Len(wire) : wire'[j] = wire[m] /\ m # i
    <3>1. CASE j < i
      <4>1. j \in 1 .. Len(wire) /\ wire'[j] = wire[j] /\ j # i
            BY <1>1, <2>1, <3>1
      <4> QED BY <4>1
    <3>2. CASE ~(j < i)
      <4>1. j + 1 \in 1 .. Len(wire) /\ wire'[j] = wire[j + 1] /\ j + 1 # i
            BY <1>1, <2>1, <3>2
      <4> QED BY <4>1
    <3> QED BY <3>1, <3>2
  <2> QED BY <1>2, <2>2, <2>3
<1>3. CASE network = "repeat" /\ repeats' = repeats + 1 /\ UNCHANGED wire
  <2>1. WireOrder'
        BY <1>3 DEF WireOrder, Fragmented
  <2>2. repeats' \in Nat /\ repeats' > 0 /\ repeats <= repeats'
        BY <1>3
  <2> QED BY <1>3, <2>1, <2>2
<1> QED BY <1>2, <1>3

LEMMA ArriveKeepsOrder ==
    ASSUME NEW left, TypeInv, NEW past \in Seq(Cuts), Past(past, left),
           NEW own, Order(past, own), network # "any", Arrive, misread' = 0
    PROVE  \E more : Order(past, more)'
<1>1. /\ wire \in Seq(Packets) /\ Len(wire) \in Nat /\ repeats \in Nat /\ call \in Nat
      /\ FuTypeOK /\ written \in Seq(Nalus) /\ wire' \in Seq(Packets)
  <2>1. /\ wire \in Seq(Packets) /\ repeats \in 0 .. MaxRepeats /\ FuTypeOK
        /\ call \in 1 .. Len(Stream) + 1
        BY DEF TypeInv, SenderType
  <2>2. wire' \in Seq(Packets)
        BY TypeArrive DEF TypeInv
  <2>3. call \in Nat /\ repeats \in Nat
        BY <2>1, MediaAssumption
  <2>4. Len(wire) \in Nat /\ written \in Seq(Nalus)
        BY <2>1 DEF FuTypeOK
  <2> QED BY <2>1, <2>2, <2>3, <2>4
<1>2. PICK i \in Arriving :
        /\ Receive(wire[i])
        /\ \/ wire' = RemoveAt(wire, i) /\ UNCHANGED repeats
           \/ /\ network \in {"repeat", "any"} /\ repeats < MaxRepeats
              /\ repeats' = repeats + 1
              /\ UNCHANGED wire
    BY DEF Arrive
<1>3. i \in 1 .. Len(wire) /\ wire[i] \in Packets /\ ReadWell(wire[i])
  <2>1. i \in 1 .. Len(wire) /\ wire[i] \in Packets
        BY <1>1 DEF Arriving
  <2> QED BY <1>2, <2>1, ReceivedWell
<1>4. UNCHANGED <<call, offset, network>>
    BY DEF Arrive
<1>5. PastSent(past)'
    BY <1>4 DEF Order, PastSent, IsFinal, Until, BodyOf
<1>6. /\ WireOrder' /\ repeats' \in Nat /\ repeats <= repeats'
      /\ \A j \in 1 .. Len(wire') : \E m \in 1 .. Len(wire) :
           wire'[j] = wire[m] /\ (m # i \/ (network = "repeat" /\ repeats' > 0))
    BY <1>1, <1>2, <1>3, Arrived DEF Order
<1>7. PICK k \in 1 .. Len(past) : IsCut(wire[i], past[k], NumberOf(k))
    BY <1>3 DEF Past, WirePast
<1> DEFINE p == wire[i]
           c == past[k].call
<1>8. p.call = c /\ c \in S!Calls /\ PastOK(past) /\ RecvPast(past)
    BY <1>7, CutIs DEF IsCut, Past
<1>9. \A l \in 1 .. Len(past) : IsFinal(past[l]) => past[l].call < call
    BY DEF Order, PastSent
<1>10. ASSUME UNCHANGED written, NaluNew(past, own)' PROVE Order(past, own)'
  <2>1. \A j \in 1 .. Len(wire') : wire'[j].start => \E m \in 1 .. Len(wire) : wire'[j] = wire[m]
        BY <1>6
  <2>2. Owned(own)' /\ WireNew(own)'
    <3>1. call' \in Nat /\ call <= call'
          BY <1>1, <1>4
    <3>2. Owned(own) /\ WireNew(own)
          BY DEF Order
    <3> QED BY <1>1, <1>6, <1>10, <2>1, <3>1, <3>2, OwnedStands
  <2> QED BY <1>5, <1>6, <1>10, <2>2 DEF Order
<1>11. ASSUME NEW b \in 1 .. Len(past), past[b].call = c, S!IsFu(c), IsFinal(past[b]),
              Complete(Whole(past[b].call)),
              \A l \in 1 .. Len(written) :
                own[l] < c \/ (own[l] = c /\ Fragmented(c) = 1 /\ repeats > 0),
              \A j \in 1 .. Len(wire') : wire'[j].start =>
                \/ c < wire'[j].call
                \/ c = wire'[j].call /\ wire'[j].end /\ repeats' > 0
       PROVE  \E more : Order(past, more)'
  <2>1. c \in FuCalls /\ c < call /\ Whole(c) \in Nalus
        BY <1>8, <1>9, <1>11, NaluSoFar DEF FuCalls
  <2>2. written' = Append(written, Whole(c)) /\ active' = FALSE
        BY <1>11 DEF Complete, Reset
  <2>3. PICK more : Owned(more)' /\ WireNew(more)'
        BY <1>1, <1>4, <1>6, <1>11, <2>1, <2>2, OwnedGrows DEF Order
  <2>4. NaluNew(past, more)'
        BY <2>2 DEF NaluNew
  <2> QED BY <1>5, <1>6, <2>3, <2>4 DEF Order
<1>12. ASSUME NEW b \in 1 .. Len(past), past[b].call = c, expected_seq' = NumberOf(b + 1),
              UNCHANGED written, \A l \in 1 .. Len(written) : own[l] < c,
              network = "repeat" \/ \A j \in 1 .. Len(wire') : wire'[j].start => wire'[j].call # c
       PROVE  Order(past, own)'
  <2>1. ASSUME NEW l \in 1 .. Len(past), expected_seq' = NumberOf(l + 1) PROVE l = b
        BY <1>8, <1>12, <2>1, SameNumber
  <2>2. NaluNew(past, own)'
        BY <1>4, <1>12, <2>1 DEF NaluNew, NumberOf
  <2> QED BY <1>10, <1>12, <2>2
<1> HIDE DEF p, c
<1>13. CASE p.fu /\ Start(p)
  <2>1. \A l \in 1 .. Len(written) :
          own[l] < c \/ (own[l] = c /\ p.end /\ Fragmented(c) = 1 /\ repeats > 0)
    <3>1. p.start
          BY <1>13 DEF Start, Begin
    <3>2. p.end => Fragmented(c) = 1
          BY <1>3, <1>8, <3>1 DEF Order, WireOrder, p
    <3> QED BY <1>3, <1>8, <3>1, <3>2 DEF Order, WireNew, p
  <2>2. ASSUME NEW m \in 1 .. Len(wire), m # i, wire[m].start PROVE c < wire[m].call
    <3>1. p.start
          BY <1>13 DEF Start, Begin
    <3> QED BY <1>1, <1>2, <1>8, <2>2, <3>1, StartsLeft DEF Order, p
  <2>3. CASE p.end /\ IsFinal(past[k]) /\ Complete(Whole(past[k].call))
    <3>1. ASSUME NEW j \in 1 .. Len(wire'), wire'[j].start
          PROVE  c < wire'[j].call \/ (c = wire'[j].call /\ wire'[j].end /\ repeats' > 0)
      <4>1. PICK m \in 1 .. Len(wire) :
               wire'[j] = wire[m] /\ (m # i \/ (network = "repeat" /\ repeats' > 0))
            BY <1>6
      <4>2. CASE m # i
            BY <2>2, <3>1, <4>1, <4>2
      <4>3. CASE m = i
            BY <1>8, <2>3, <4>1, <4>3 DEF p
      <4> QED BY <4>2, <4>3
    <3>2. S!IsFu(c)
          BY <1>7, <1>13 DEF IsCut, p, c
    <3>3. past[k].call = c
          BY DEF c
    <3> QED BY <1>11, <2>1, <2>3, <3>1, <3>2, <3>3
  <2>4. CASE /\ ~p.end /\ expected_seq' = NumberOf(k + 1) /\ UNCHANGED written
    <3>1. ASSUME network # "repeat", NEW j \in 1 .. Len(wire'), wire'[j].start
          PROVE  wire'[j].call # c
      <4>1. PICK m \in 1 .. Len(wire) : wire'[j] = wire[m] /\ m # i
            BY <1>6, <3>1
      <4>2. c < wire[m].call /\ c \in Nat /\ wire[m] \in Packets
            BY <1>1, <1>8, <2>2, <3>1, <4>1 DEF S!Calls
      <4> QED BY <4>1, <4>2 DEF Packets, S!Calls
    <3>2. past[k].call = c
          BY DEF c
    <3>3. Order(past, own)'
          BY <1>12, <2>1, <2>4, <3>1, <3>2
    <3> QED BY <3>3
  <2> QED BY <1>3, <1>7, <1>8, <1>13, <2>3, <2>4, StartIs DEF p
<1>14. CASE p.fu /\ Continue(p) /\ CutRight(p)
  <2>1. /\ ~p.start /\ active /\ S!IsFu(c)
        /\ k > 1 /\ expected_seq = NumberOf(k) /\ past[k - 1].call = c
        BY <1>1, <1>3, <1>7, <1>8, <1>14, ContinueIs DEF p, c
  <2>2. /\ \A l \in 1 .. Len(written) : own[l] < c
        /\ \/ network = "repeat"
           \/ \A j \in 1 .. Len(wire) : wire[j].start => wire[j].call # c
    <3>1. k - 1 \in 1 .. Len(past) /\ (k - 1) + 1 = k
          BY <1>8, <2>1 DEF PastOK
    <3> QED BY <2>1, <3>1 DEF Order, NaluNew
  <2>3. ASSUME NEW j \in 1 .. Len(wire'), wire'[j].start PROVE c < wire'[j].call
    <3>1. PICK m \in 1 .. Len(wire) : wire'[j] = wire[m]
          BY <1>6
    <3>2. m # i
          BY <2>1, <2>3, <3>1 DEF p
    <3> QED BY <1>1, <1>2, <1>8, <2>2, <2>3, <3>1, <3>2, StartsLeft DEF Order, p
  <2>4. PICK b \in 1 .. Len(past) :
          /\ past[b].call = c
          /\ \/ IsFinal(past[b]) /\ Complete(Whole(past[b].call))
             \/ expected_seq' = NumberOf(b + 1) /\ UNCHANGED written
        BY <1>1, <1>3, <1>7, <1>8, <1>14, ContinueIs DEF p, c
  <2>5. CASE IsFinal(past[b]) /\ Complete(Whole(past[b].call))
        BY <1>11, <2>1, <2>2, <2>3, <2>4, <2>5
  <2>6. CASE expected_seq' = NumberOf(b + 1) /\ UNCHANGED written
    <3>1. \A j \in 1 .. Len(wire') : wire'[j].start => wire'[j].call # c
      <4> SUFFICES ASSUME NEW j \in 1 .. Len(wire'), wire'[j].start PROVE wire'[j].call # c
          OBVIOUS
      <4>1. c < wire'[j].call /\ c \in Nat /\ wire'[j] \in Packets
            BY <1>1, <1>8, <2>3 DEF S!Calls
      <4> QED BY <4>1 DEF Packets, S!Calls
    <3>2. Order(past, own)'
          BY <1>12, <2>2, <2>4, <2>6, <3>1
    <3> QED BY <3>2
  <2> QED BY <2>4, <2>5, <2>6
<1>15. CASE UNCHANGED written /\ (active' = FALSE \/ UNCHANGED <<active, expected_seq>>)
  <2>1. NaluNew(past, own)'
    <3>1. CASE active' = FALSE
          BY <3>1 DEF NaluNew
    <3>2. CASE UNCHANGED <<active, expected_seq>>
      <4> SUFFICES ASSUME active, NEW l \in 1 .. Len(past), expected_seq = NumberOf(l + 1)
                   PROVE  /\ \A n \in 1 .. Len(written) : own[n] < past[l].call
                          /\ \/ network = "repeat"
                             \/ \A j \in 1 .. Len(wire') :
                                  wire'[j].start => wire'[j].call # past[l].call
          BY <1>4, <1>15, <3>2 DEF NaluNew, NumberOf
      <4>1. /\ \A n \in 1 .. Len(written) : own[n] < past[l].call
            /\ \/ network = "repeat"
               \/ \A j \in 1 .. Len(wire) : wire[j].start => wire[j].call # past[l].call
            BY DEF Order, NaluNew
      <4> QED BY <1>6, <4>1
    <3> QED BY <1>15, <3>1, <3>2
  <2>2. Order(past, own)'
        BY <1>10, <1>15, <2>1
  <2> QED BY <2>2
<1> QED BY <1>3, <1>13, <1>14, <1>15
    DEF ReadWell, Handled, HandlePacket, MissingStart, DiscardStale, IgnoreDuplicate, Store,
        DiscardUnordered, Reset, fuVars, fuCtx, p

\* A NALU whose first fragment is the last one has one fragment.
LEMMA OneFragment ==
    ASSUME NEW c \in S!Calls, S!IsFu(c), offset = 0, S!IsLast(c)
    PROVE  Fragmented(c) = 1
<1> DEFINE L == Len(Stream[c].body)
           r == Room(c)
           x == L - 1
<1>1. L \in Nat \ {0} /\ r \in Nat \ {0}
    BY StreamIs
<1>2. L <= r
  <2>1. offset \in Nat /\ offset < L
        BY <1>1
  <2>2. L - offset <= r
        BY <2>1, ChunkIs
  <2> QED BY <1>1, <2>2
<1>3. Fragmented(c) = (L + r - 1) \div r
    BY DEF Fragmented, Room, S!IsFu
<1>4. x \in 0 .. r - 1 /\ x \in Nat /\ L + r - 1 = x + r
    BY <1>1, <1>2
<1> HIDE DEF L, r, x
<1>5. (x + r) \div r = (x \div r) + 1
    BY <1>1, <1>4, DivStep
<1>6. x \div r = 0
    BY <1>1, <1>4
<1> QED BY <1>3, <1>4, <1>5, <1>6

\* What the sender cuts next goes to the end of the wire.
LEMMA SendKeepsOrder ==
    ASSUME NEW left, TypeInv, NEW past \in Seq(Cuts), Past(past, left),
           NEW longer \in Seq(Cuts), longer = past \/ longer = Append(past, NextCut),
           Past(longer, left)', NEW own, Order(past, own), Send
    PROVE  Order(longer, own)'
<1>1. /\ call \in S!Calls /\ call \in Nat /\ offset \in Nat /\ offset < Len(Stream[call].body)
      /\ wire \in Seq(Packets) /\ Len(wire) \in Nat /\ repeats \in Nat
  <2>1. call \in S!Calls /\ wire \in Seq(Packets) /\ repeats \in 0 .. MaxRepeats
        BY DEF Send, S!SendChunk, S!SendChunkFails, TypeInv
  <2>2. offset \in Nat /\ offset < Len(Stream[call].body)
        BY <2>1 DEF TypeInv, SenderType
  <2> QED BY <2>1, <2>2, MediaAssumption DEF S!Calls
<1>2. /\ UNCHANGED <<written, active, expected_seq, repeats, network>>
      /\ wire' = wire \/ wire' = Append(wire, S!Packet(call))
    BY DEF Send, fuVars, fuCtx
<1>3. \/ call' = call + 1 /\ offset' = 0
      \/ call' = call /\ offset' # 0 /\ ~S!IsLast(call)
  <2>1. offset + S!ChunkSize(call) # 0
    <3>1. S!ChunkSize(call) \in 1 .. Len(Stream[call].body) - offset
          BY <1>1, ChunkIs
    <3> QED BY <1>1, <3>1
  <2> QED BY <2>1 DEF Send, S!SendChunk, S!SendChunkFails, S!NextCall
<1>4. /\ Len(past) \in Nat /\ Len(longer) \in Nat /\ Len(past) <= Len(longer)
      /\ \A k \in 1 .. Len(past) : longer[k] = past[k]
      /\ \A k \in 1 .. Len(longer) : k \in 1 .. Len(past) \/ longer[k] = NextCut
  <2>1. CASE longer = past
        BY <2>1
  <2>2. CASE longer = Append(past, NextCut)
    <3>1. Len(past) \in Nat /\ Len(longer) = Len(past) + 1
          BY <2>2
    <3>2. /\ \A k \in 1 .. Len(past) : longer[k] = past[k]
          /\ longer[Len(past) + 1] = NextCut
          BY <2>2
    <3> QED BY <3>1, <3>2
  <2> QED BY <2>1, <2>2
<1>5. \A k \in 1 .. Len(past) : past[k].call \in Nat
    BY CutIs DEF Past, S!Calls
<1>6. PastSent(longer)'
  <2>1. ASSUME NEW k \in 1 .. Len(longer)
        PROVE  \/ longer[k].call < call'
               \/ longer[k].call = call' /\ offset' # 0 /\ ~IsFinal(longer[k])
    <3>1. CASE k \in 1 .. Len(past)
          BY <1>1, <1>3, <1>4, <1>5, <3>1, SMTT(60) DEF Order, PastSent
    <3>2. CASE longer[k] = NextCut
      <4>1. IsFinal(NextCut) <=> S!IsLast(call)
            BY DEF NextCut, IsFinal, Until, BodyOf, S!IsLast
      <4>2. longer[k].call = call
            BY <3>2 DEF NextCut
      <4> QED BY <1>1, <1>3, <3>2, <4>1, <4>2
    <3> QED BY <1>4, <3>1, <3>2
  <2> QED BY <2>1 DEF PastSent, IsFinal, Until, BodyOf
<1>7. Owned(own)'
  <2>1. call' \in Nat /\ call <= call'
        BY <1>1, <1>3
  <2> QED BY <1>1, <1>2, <2>1, OwnedStands DEF Order
<1>8. \A i \in 1 .. Len(wire) :
        /\ wire[i].call \in Nat
        /\ wire[i].call < call \/ (wire[i].call = call /\ offset # 0)
  <2> SUFFICES ASSUME NEW i \in 1 .. Len(wire)
               PROVE  /\ wire[i].call \in Nat
                      /\ wire[i].call < call \/ (wire[i].call = call /\ offset # 0)
      OBVIOUS
  <2>1. PICK k \in 1 .. Len(past) : IsCut(wire[i], past[k], NumberOf(k))
        BY DEF Past, WirePast
  <2>2. wire[i].call = past[k].call
        BY <2>1 DEF IsCut
  <2> QED BY <1>5, <2>2 DEF Order, PastSent
<1> DEFINE q == S!Packet(call)
<1>9. /\ q.call = call /\ (q.start => offset = 0 /\ S!IsFu(call))
      /\ q.end => S!IsLast(call)
    BY DEF S!Packet
<1>10. q.start /\ q.end => Fragmented(call) = 1
    BY <1>1, <1>9, OneFragment
<1>11. /\ Len(wire') \in Nat
       /\ \A i \in 1 .. Len(wire') :
            \/ i \in 1 .. Len(wire) /\ wire'[i] = wire[i]
            \/ i = Len(wire) + 1 /\ wire'[i] = q
  <2>1. CASE wire' = wire
        BY <1>1, <2>1
  <2>2. CASE wire' = Append(wire, q)
    <3>1. q \in Packets
          BY <1>1, PacketType DEF TypeInv, SenderType
    <3> HIDE DEF q
    <3> QED BY <1>1, <2>2, <3>1, AppendProperties
  <2> QED BY <1>2, <2>1, <2>2
<1> HIDE DEF q
<1>12. WireOrder'
  <2>1. ASSUME NEW i \in 1 .. Len(wire'), NEW j \in 1 .. Len(wire'), i < j
        PROVE  /\ wire'[i].call <= wire'[j].call
               /\ wire'[j].start => wire'[i].call # wire'[j].call
    <3>1. i \in 1 .. Len(wire) /\ wire'[i] = wire[i]
          BY <1>1, <1>11, <2>1
    <3>2. CASE j \in 1 .. Len(wire) /\ wire'[j] = wire[j]
          BY <2>1, <3>1, <3>2 DEF Order, WireOrder
    <3>3. CASE wire'[j] = q
          BY <1>1, <1>8, <1>9, <3>1, <3>3
    <3> QED BY <1>11, <3>2, <3>3
  <2>2. ASSUME NEW i \in 1 .. Len(wire'), wire'[i].start, wire'[i].end
        PROVE  Fragmented(wire'[i].call) = 1
    <3>1. CASE i \in 1 .. Len(wire) /\ wire'[i] = wire[i]
          BY <2>2, <3>1 DEF Order, WireOrder
    <3>2. CASE wire'[i] = q
          BY <1>9, <1>10, <2>2, <3>2
    <3> QED BY <1>11, <3>1, <3>2
  <2> QED BY <2>1, <2>2 DEF WireOrder, Fragmented
<1>13. WireNew(own)'
  <2>1. ASSUME NEW j \in 1 .. Len(wire'), wire'[j].start, NEW i \in 1 .. Len(written)
        PROVE  own[i] < wire'[j].call \/ (own[i] = wire'[j].call /\ wire'[j].end /\ repeats > 0)
    <3>1. CASE j \in 1 .. Len(wire) /\ wire'[j] = wire[j]
          BY <2>1, <3>1 DEF Order, WireNew
    <3>2. CASE wire'[j] = q
          BY <1>9, <3>2 DEF Order, Owned
    <3> QED BY <1>11, <3>1, <3>2
  <2> QED BY <1>2, <2>1 DEF WireNew
<1>14. NaluNew(longer, own)'
  <2> SUFFICES ASSUME active, NEW k \in 1 .. Len(longer), expected_seq = NumberOf(k + 1)
               PROVE  /\ \A i \in 1 .. Len(written) : own[i] < longer[k].call
                      /\ \/ network = "repeat"
                         \/ \A j \in 1 .. Len(wire') :
                              wire'[j].start => wire'[j].call # longer[k].call
      BY <1>2 DEF NaluNew, NumberOf
  <2>1. PICK l \in 1 .. Len(past) : expected_seq = NumberOf(l + 1)
        BY DEF Past, RecvPast, NaluPast
  <2>2. PastOK(longer)
        BY DEF Past, PastOK, Until, BodyOf
  <2>3. k = l
    <3>1. l \in 1 .. Len(longer)
          BY <1>4, <2>1
    <3> QED BY <2>1, <2>2, <3>1, SameNumber
  <2>4. longer[k] = past[k] /\ k \in 1 .. Len(past)
        BY <1>4, <2>3
  <2>5. /\ \A i \in 1 .. Len(written) : own[i] < past[k].call
        /\ \/ network = "repeat"
           \/ \A j \in 1 .. Len(wire) : wire[j].start => wire[j].call # past[k].call
        BY <2>4 DEF Order, NaluNew
  <2>6. q.start => q.call # past[k].call
        BY <1>1, <1>5, <1>9, <2>4 DEF Order, PastSent
  <2>7. ASSUME network # "repeat", NEW j \in 1 .. Len(wire'), wire'[j].start
        PROVE  wire'[j].call # past[k].call
        BY <1>11, <2>5, <2>6, <2>7
  <2> QED BY <2>4, <2>5, <2>7
<1> QED BY <1>6, <1>7, <1>12, <1>13, <1>14 DEF Order

LEMMA LoseKeepsOrder ==
    ASSUME TypeInv, NEW past \in Seq(Cuts), NEW own, Order(past, own), Lose
    PROVE  Order(past, own)'
<1>1. wire \in Seq(Packets) /\ Len(wire) \in Nat /\ wire # <<>>
    BY DEF TypeInv, Lose
<1>2. /\ 1 \in 1 .. Len(wire) /\ Len(wire') = Len(wire) - 1
      /\ \A j \in 1 .. Len(wire) - 1 : wire'[j] = wire[j + 1]
    BY <1>1, HeadTailProperties DEF Lose
<1>3. WireOrder'
    BY <1>1, <1>2, WireOrderShrinks DEF Order
<1>4. \A j \in 1 .. Len(wire') : \E m \in 1 .. Len(wire) : wire'[j] = wire[m]
  <2> SUFFICES ASSUME NEW j \in 1 .. Len(wire')
               PROVE  \E m \in 1 .. Len(wire) : wire'[j] = wire[m]
      OBVIOUS
  <2>1. j + 1 \in 1 .. Len(wire) /\ wire'[j] = wire[j + 1]
        BY <1>1, <1>2
  <2> QED BY <2>1
<1>5. UNCHANGED <<call, offset, written, active, expected_seq, repeats, network>>
    BY DEF Lose, fuVars, fuCtx
<1>6. Owned(own)' /\ WireNew(own)'
  <2>1. call \in Nat /\ repeats \in Nat
    <3>1. call \in 1 .. Len(Stream) + 1 /\ repeats \in 0 .. MaxRepeats
          BY DEF TypeInv, SenderType
    <3> QED BY <3>1, MediaAssumption
  <2>2. call' \in Nat /\ call <= call' /\ repeats' \in Nat /\ repeats <= repeats'
        /\ UNCHANGED written
        BY <1>5, <2>1
  <2>3. Owned(own) /\ WireNew(own)
        BY DEF Order
  <2> QED BY <1>4, <2>1, <2>2, <2>3, OwnedStands
<1>7. NaluNew(past, own)'
    BY <1>4, <1>5 DEF Order, NaluNew, NumberOf
<1>8. PastSent(past)'
    BY <1>5 DEF Order, PastSent, IsFinal, Until, BodyOf
<1> QED BY <1>3, <1>6, <1>7, <1>8 DEF Order

\* The invariant of the file's order
OrderInv(left) ==
    /\ TypeInv
    /\ \E past \in Seq(Cuts) :
         Past(past, left) /\ (network = "any" \/ \E own : Order(past, own))

LEMMA OrderInvInductive ==
    ASSUME NEW left, Numbers(left)
    PROVE  OrderInv(left) /\ [MediaNext]_mediaVars /\ misread' = 0 => OrderInv(left)'
<1> SUFFICES ASSUME OrderInv(left), [MediaNext]_mediaVars, misread' = 0 PROVE OrderInv(left)'
    OBVIOUS
<1>1. TypeInv /\ TypeInv'
    BY TypeInductive DEF OrderInv
<1>2. PICK past \in Seq(Cuts) :
        Past(past, left) /\ (network = "any" \/ \E own : Order(past, own))
    BY DEF OrderInv
<1>3. network' = network
    BY DEF MediaNext, Send, Arrive, Lose, Delay, Finished, mediaVars
<1>4. CASE Send
  <2>1. PICK longer \in Seq(Cuts) :
          Past(longer, left)' /\ (longer = past \/ longer = Append(past, NextCut))
        BY <1>1, <1>2, <1>4, SendKeepsPast
  <2>2. CASE network = "any"
        BY <1>1, <1>3, <2>1, <2>2 DEF OrderInv
  <2>3. CASE network # "any"
    <3>1. PICK own : Order(past, own)
          BY <1>2, <2>3
    <3>2. Order(longer, own)'
          BY <1>1, <1>2, <1>4, <2>1, <3>1, SendKeepsOrder
    <3> QED BY <1>1, <2>1, <3>2 DEF OrderInv
  <2> QED BY <2>2, <2>3
<1>5. CASE Arrive
  <2>1. Past(past, left)'
        BY <1>1, <1>2, <1>5, ArriveKeepsPast
  <2>2. CASE network = "any"
        BY <1>1, <1>2, <1>3, <2>1, <2>2 DEF OrderInv
  <2>3. CASE network # "any"
    <3>1. PICK own : Order(past, own)
          BY <1>2, <2>3
    <3>2. PICK more : Order(past, more)'
          BY <1>1, <1>2, <1>5, <2>3, <3>1, ArriveKeepsOrder
    <3> QED BY <1>1, <1>2, <2>1, <3>2 DEF OrderInv
  <2> QED BY <2>2, <2>3
<1>6. CASE Lose
  <2>1. Past(past, left)'
        BY <1>1, <1>2, <1>6, LoseKeepsPast
  <2>2. ASSUME NEW own, Order(past, own) PROVE Order(past, own)'
        BY <1>1, <1>6, <2>2, LoseKeepsOrder
  <2> QED BY <1>1, <1>2, <1>3, <2>1, <2>2 DEF OrderInv
<1>7. CASE Delay
    BY <1>1, <1>2, <1>3, <1>7, StandKeepsPast DEF OrderInv, Delay
<1>8. CASE UNCHANGED mediaVars
  <2>1. Past(past, left)'
        BY <1>2, <1>8, StandKeepsPast
  <2>2. ASSUME NEW own, Order(past, own) PROVE Order(past, own)'
    <3>1. UNCHANGED <<call, offset, wire, repeats, written, active, expected_seq, network>>
          BY <1>8 DEF mediaVars, fuVars, fuCtx
    <3>2. PastSent(past)' /\ WireOrder'
          BY <2>2, <3>1 DEF Order, PastSent, WireOrder, Fragmented, IsFinal, Until, BodyOf
    <3>3. Owned(own)'
          BY <2>2, <3>1 DEF Order, Owned, FuCalls, Whole, Buffered, Fragmented
    <3>4. WireNew(own)' /\ NaluNew(past, own)'
          BY <2>2, <3>1 DEF Order, WireNew, NaluNew, NumberOf
    <3> QED BY <3>2, <3>3, <3>4 DEF Order
  <2> QED BY <1>1, <1>2, <1>3, <2>1, <2>2 DEF OrderInv
<1> QED BY <1>4, <1>5, <1>6, <1>7, <1>8 DEF MediaNext, Finished

LEMMA OrderInvInit ==
    ASSUME NEW left, Numbers(left) PROVE MediaInit => OrderInv(left)
<1> SUFFICES ASSUME MediaInit PROVE OrderInv(left)
    OBVIOUS
<1>1. PICK past \in Seq(Cuts) : past = <<>> /\ Past(past, left)
  <2>1. Past(<<>>, left)
        BY FileInvInit
  <2>2. <<>> \in Seq(Cuts)
        OBVIOUS
  <2> QED BY <2>1, <2>2, Zenon
<1>2. active = FALSE /\ written = <<>> /\ wire = <<>> /\ TypeInv
    BY TypeInit DEF MediaInit, FuInit
<1>3. PICK own : own = [i \in 1 .. 0 |-> 1]
    OBVIOUS
<1>4. Order(past, own)
    BY <1>1, <1>2, <1>3 DEF Order, PastSent, Owned, WireOrder, WireNew, NaluNew
<1> QED BY <1>1, <1>2, <1>4 DEF OrderInv

\* As long as no packet was misread, of the whole file
AllInOrder ==
    network # "any" =>
      \A i, j \in DOMAIN written :
        i < j => \E c, d \in FuCalls :
                   /\ written[i] = Whole(c) /\ written[j] = Whole(d)
                   /\ c < d \/ (c = d /\ Fragmented(c) = 1 /\ repeats > 0)

LEMMA OrderIs ==
    ASSUME NEW left
    PROVE  OrderInv(left) => AllInOrder /\ (Trusted = written => InOrder)
<1> SUFFICES ASSUME OrderInv(left)
             PROVE  AllInOrder /\ (Trusted = written => InOrder)
    OBVIOUS
<1>1. DOMAIN written = 1 .. Len(written)
    BY DEF OrderInv, TypeInv, FuTypeOK
<1>2. AllInOrder
  <2> SUFFICES ASSUME network # "any",
                      NEW i \in 1 .. Len(written), NEW j \in 1 .. Len(written), i < j
               PROVE  \E c, d \in FuCalls :
                        /\ written[i] = Whole(c) /\ written[j] = Whole(d)
                        /\ c < d \/ (c = d /\ Fragmented(c) = 1 /\ repeats > 0)
      BY <1>1 DEF AllInOrder
  <2>1. PICK own : Owned(own)
        BY DEF OrderInv, Order
  <2>2. own[i] \in FuCalls /\ own[j] \in FuCalls
        BY <2>1 DEF Owned
  <2>3. /\ written[i] = Whole(own[i]) /\ written[j] = Whole(own[j])
        /\ own[i] < own[j] \/ (own[i] = own[j] /\ Fragmented(own[i]) = 1 /\ repeats > 0)
        BY <2>1 DEF Owned
  <2> QED BY <2>2, <2>3
<1> QED BY <1>1, <1>2 DEF AllInOrder, InOrder

OrderedInv(left) == TypeInv /\ InOrder /\ (misread = 0 => OrderInv(left))

LEMMA OrderIsKept ==
    ASSUME NEW left, Numbers(left) PROVE MediaSpec => []OrderedInv(left)
<1>1. MediaInit => OrderedInv(left)
  <2> SUFFICES ASSUME MediaInit PROVE OrderedInv(left)
      OBVIOUS
  <2>1. OrderInv(left) /\ misread = 0
        BY OrderInvInit DEF MediaInit
  <2>2. InOrder
        BY <2>1, OrderIs DEF Trusted
  <2> QED BY <2>1, <2>2 DEF OrderedInv, OrderInv
<1>2. OrderInv(left) => (Trusted = written => InOrder)
    BY OrderIs
<1>3. (OrderInv(left) => (Trusted = written => InOrder))'
    BY <1>2, PTL
<1>4. OrderedInv(left) /\ [MediaNext]_mediaVars => OrderedInv(left)'
  <2> SUFFICES ASSUME OrderedInv(left), [MediaNext]_mediaVars PROVE OrderedInv(left)'
      OBVIOUS
  <2>1. TypeInv /\ TypeInv'
        BY TypeInductive DEF OrderedInv
  <2>2. CASE misread' = 0
    <3>1. misread = 0 /\ Trusted' = written'
          BY <2>1, <2>2, TrustedStep
    <3>2. OrderInv(left)'
          BY <2>2, <3>1, OrderInvInductive DEF OrderedInv
    <3>3. InOrder'
          BY <1>3, <3>1, <3>2
    <3> QED BY <2>1, <3>2, <3>3 DEF OrderedInv
  <2>3. CASE misread' # 0
    <3>1. Trusted' = Trusted /\ network' = network
          BY <2>1, <2>3, TrustedStep
          DEF MediaNext, Send, Arrive, Lose, Delay, Finished, mediaVars
    <3>2. repeats > 0 => repeats' > 0
      <4>1. repeats \in Nat
            BY <2>1, MediaAssumption DEF TypeInv
      <4>2. repeats' = repeats \/ repeats' = repeats + 1
            BY DEF MediaNext, Send, Arrive, Lose, Delay, Finished, mediaVars
      <4> QED BY <4>1, <4>2
    <3>3. InOrder'
      <4>1. FuCalls' = FuCalls /\ \A x : Whole(x)' = Whole(x) /\ Fragmented(x)' = Fragmented(x)
            BY DEF FuCalls, Whole, Buffered, Fragmented
      <4>2. InOrder
            BY DEF OrderedInv
      <4> SUFFICES ASSUME network' # "any", NEW i \in DOMAIN Trusted', NEW j \in DOMAIN Trusted',
                          i < j
                   PROVE  \E c, d \in FuCalls' :
                            /\ Trusted'[i] = Whole(c)' /\ Trusted'[j] = Whole(d)'
                            /\ \/ c < d
                               \/ c = d /\ Fragmented(c)' = 1 /\ repeats' > 0
          BY DEF InOrder
      <4>3. PICK c \in FuCalls, d \in FuCalls :
              /\ Trusted[i] = Whole(c) /\ Trusted[j] = Whole(d)
              /\ c < d \/ (c = d /\ Fragmented(c) = 1 /\ repeats > 0)
            BY <3>1, <4>2 DEF InOrder
      <4> QED BY <3>1, <3>2, <4>1, <4>3
    <3> QED BY <2>1, <2>3, <3>3 DEF OrderedInv
  <2> QED BY <2>2, <2>3
<1> QED BY <1>1, <1>4, PTL DEF MediaSpec

\* The file has the NALUs in the order they were sent, and a NALU twice only
\* where a repeated packet was the whole of it, up to the first packet that is
\* taken for what it is not: on every network that reorders no more than the
\* fragments of one NALU.
THEOREM FileIsInOrder ==
    ASSUME NumbersSuffice
    PROVE  MediaSpec => []InOrder
<1>1. PICK left : Numbers(left)
    BY DEF NumbersSuffice, Numbers
<1>2. MediaSpec => []OrderedInv(left)
    BY <1>1, OrderIsKept
<1>3. OrderedInv(left) => InOrder
    BY DEF OrderedInv
<1> QED BY <1>2, <1>3, PTL

-----------------------------------------------------------------------------
(* What a loss costs: what is known of every piece until its NALU is in    *)
(* the file, or has no chance to be.                                       *)

\* The pieces on their way
OnWire(past) == {k \in 1 .. Len(past) : \E i \in 1 .. Len(wire) : wire[i].seq = NumberOf(k)}
\* The last pieces of calls given up
Unsent(past) == {k \in 1 .. Len(past) :
                   /\ past[k].call \in damaged /\ past[k].call < call
                   /\ \A l \in k + 1 .. Len(past) : past[l].call # past[k].call}

\* The pieces that may yet get into a NALU
Around(past) == OnWire(past) \cup Kept(past)

\* Calls are made one after the other, and a call's pieces are its body's.
CallsRise(past) ==
    \A k, l \in 1 .. Len(past) : k < l =>
      /\ past[k].call <= past[l].call
      /\ past[k].call = past[l].call => past[l].off # 0 /\ ~IsFinal(past[k])

\* All pieces of a call but the last are as long as a packet has room for.
Sized(past) == \A k \in 1 .. Len(past) : ~IsFinal(past[k]) => past[k].size = Room(past[k].call)

\* A call that no loss hit has all its pieces, or is being made.
GoesOn(past) ==
    \A k \in 1 .. Len(past) : ~IsFinal(past[k]) /\ past[k].call \notin damaged =>
      \/ k < Len(past) /\ past[k + 1].call = past[k].call
      \/ k = Len(past) /\ past[k].call = call

\* Packets are on their way in the order in which they were sent.
WireRises(past) ==
    \A i, j \in 1 .. Len(wire) : i < j =>
      \A k, l \in 1 .. Len(past) :
        wire[i].seq = NumberOf(k) /\ wire[j].seq = NumberOf(l) => k < l

\* The packets of a call have the timestamp of their call.
Timed ==
    \A i \in 1 .. Len(wire) :
      /\ wire[i].call = call => wire[i].timestamp = rtp_timestamp
      /\ \A j \in 1 .. Len(wire) : wire[i].call = wire[j].call =>
           wire[i].timestamp = wire[j].timestamp

\* A loss hits no call of which nothing was sent.
DamagedBefore == \A c \in damaged : c < call \/ (c = call /\ offset # 0)

\* Call c lacks a piece from b on, or its last one: it cannot be completed.
Doomed(past, c, b) ==
    \/ \E k \in b .. Len(past) : past[k].call = c /\ k \notin Around(past)
    \/ /\ c < call
       /\ \A k \in 1 .. Len(past) : past[k].call = c /\ IsFinal(past[k]) =>
            k \notin Around(past)

\* The buffer holds a NALU up to piece a.  What is on its way is behind it; if
\* no loss hit the NALU, all that is to follow is there, and the window has
\* only what overtook the piece that is waited for; if one did, it is doomed.
Held(past, a) ==
    /\ ~IsFinal(past[a])
    /\ \A k \in OnWire(past) : k > a \/ (k = a /\ network = "repeat")
    /\ network = "shuffle" \/ past[a].call \notin damaged =>
         /\ \A k \in Kept(past) : k > a /\ past[k].call = past[a].call =>
              network = "shuffle" /\ k \notin OnWire(past) /\ k \in a + 2 .. a + 1 + Window
         /\ \A k \in a + 1 .. Len(past) :
              past[k].call = past[a].call \/ (network = "shuffle" /\ S!IsFu(past[k].call)) =>
                k \in Around(past) \cup Unsent(past)
    /\ past[a].call \in damaged => Doomed(past, past[a].call, a + 1)

\* And piece a is that before the number the receiver waits for.
HeldOK(past) ==
    active => \A a \in 1 .. Len(past) : expected_seq = NumberOf(a + 1) => Held(past, a)

\* Where fragments are shuffled the window has pieces of the NALU in the
\* buffer, each of them once.
WindowOK(past) ==
    network = "shuffle" =>
      /\ \A k \in Kept(past) :
           active /\ \A a \in 1 .. Len(past) : expected_seq = NumberOf(a + 1) =>
                       k > a + 1 /\ past[k].call = past[a].call
      /\ \A i, j \in 1 .. Window :
           reorder[i].used /\ reorder[j].used /\ reorder[i].seq = reorder[j].seq => i = j

\* Elsewhere what the window has came before all that is on its way.
KeptBehind(past) ==
    network # "shuffle" => \A k \in Kept(past), l \in OnWire(past) : k <= l

\* A NALU whose first fragment is on its way has all the rest on its way too,
\* or was hit and is doomed.
Unstarted(past) ==
    \A s \in OnWire(past) : S!IsFu(past[s].call) /\ past[s].off = 0 =>
      /\ \A l \in s .. Len(past) :
           /\ l \notin Kept(past)
           /\ S!IsFu(past[l].call) /\ (network = "shuffle" \/ past[l].call \notin damaged) =>
                l \in OnWire(past) \cup Unsent(past)
      /\ past[s].call \in damaged => Doomed(past, past[s].call, s)

\* The buffer holds the NALU of call c as far as it came, and what has been
\* counted of it and what is to come make up the whole.
Progress(past, c) ==
    active /\ \E a \in 1 .. Len(past) :
      /\ past[a].call = c /\ expected_seq = NumberOf(a + 1)
      /\ pending_fragments + PacketsLeft(c, Until(past[a])) = Fragmented(c)
      /\ \A i \in 1 .. Len(wire) : wire[i].call = c => wire[i].timestamp = timestamp
      /\ c = call => timestamp = rtp_timestamp

\* A NALU that no loss hit, and of which something was sent, is in the file,
\* about to start, or in the buffer.
Fate(past) ==
    \A c \in FuCalls \ damaged :
      (c < call \/ (c = call /\ offset # 0)) /\ Fragmented(c) <= MaxFragments =>
        \/ Whole(c) \in ToSet(written)
        \/ \E s \in OnWire(past) : past[s].call = c /\ past[s].off = 0
        \/ Progress(past, c)

Loss(past) ==
    /\ ~expired /\ CallsRise(past) /\ Sized(past) /\ GoesOn(past) /\ WireRises(past)
    /\ Timed /\ DamagedBefore /\ HeldOK(past) /\ WindowOK(past) /\ KeptBehind(past)
    /\ Unstarted(past) /\ Fate(past)

\* No NALU in the file was hit, or can still be.
Spared(past) ==
    \A c \in FuCalls : Whole(c) \in ToSet(written) =>
      /\ c \notin damaged /\ c < call
      /\ network = "lossy" => \A k \in OnWire(past) : c < past[k].call

\* The NALUs of the stream differ, as far as the receiver's buffer holds them.
DistinctNalus == \A c, d \in FuCalls : Whole(c) = Whole(d) => c = d

-----------------------------------------------------------------------------
(* Numbers and what they say of the packets on their way.                  *)

\* Numbers less than SeqModulus apart are those of the same piece.
LEMMA NumbersDiffer ==
    ASSUME NEW k \in Int, NEW l \in Int, NumberOf(k) = NumberOf(l),
           k - l < SeqModulus, l - k < SeqModulus
    PROVE  k = l
<1>1. FirstSeq \in Int /\ SeqModulus \in Nat \ {0}
    BY MediaAssumption, ConstantTypes
<1> DEFINE x == FirstSeq + (k - 1)
           y == FirstSeq + (l - 1)
<1>2. x \in Int /\ y \in Int /\ x - y < SeqModulus /\ y - x < SeqModulus
    BY <1>1
<1>3. x % SeqModulus = y % SeqModulus
    BY DEF NumberOf
<1>4. x = y
  <2> HIDE DEF x, y
  <2> QED BY <1>1, <1>2, <1>3, ModInjective
<1> QED BY <1>1, <1>4

\* No two pieces of the past have the same number.
LEMMA PiecesDiffer ==
    ASSUME NEW past, PastOK(past), NEW k \in 1 .. Len(past), NEW l \in 1 .. Len(past),
           NumberOf(k) = NumberOf(l)
    PROVE  k = l
<1>1. Len(past) \in Nat /\ Len(past) <= SeqModulus
    BY DEF PastOK
<1>2. k \in Int /\ l \in Int /\ k - l < SeqModulus /\ l - k < SeqModulus
    BY <1>1, ConstantTypes
<1> QED BY <1>2, NumbersDiffer

\* How far one number is ahead of another
LEMMA NumberGap ==
    ASSUME NEW k \in Int, NEW l \in Int, k <= l, l - k < SeqModulus
    PROVE  (NumberOf(l) - NumberOf(k)) % SeqModulus = l - k
<1>1. SeqModulus \in Nat \ {0} /\ NumberOf(k) \in Int /\ NumberOf(l) \in Int
  <2>1. NumberOf(k) \in SeqNumbers /\ NumberOf(l) \in SeqNumbers
        BY NumberOfPlus
  <2> QED BY <2>1, ConstantTypes
<1> DEFINE d == l - k
           x == NumberOf(k) + d
           y == 0 - NumberOf(k)
<1>2. d \in 0 .. SeqModulus - 1 /\ x \in Int /\ y \in Int /\ x + y = d
    BY <1>1
<1>3. NumberOf(l) = x % SeqModulus
  <2>1. (NumberOf(k) + d) % SeqModulus = NumberOf(k + d)
        BY <1>2, NumberOfPlus
  <2>2. k + d = l
        OBVIOUS
  <2> QED BY <2>1, <2>2
<1>4. ((x % SeqModulus) + y) % SeqModulus = d % SeqModulus
  <2> HIDE DEF x, y, d
  <2> QED BY <1>1, <1>2, ModPlus
<1>5. d % SeqModulus = d
  <2> HIDE DEF d
  <2> QED BY <1>1, <1>2
<1>6. NumberOf(l) - NumberOf(k) = (x % SeqModulus) + y
    BY <1>1, <1>3
<1> QED BY <1>4, <1>5, <1>6

\* A packet on its way and its piece
LEMMA OnWireIs ==
    ASSUME NEW past, PastOK(past), WirePast(past)
    PROVE  /\ \A i \in 1 .. Len(wire) : \E k \in OnWire(past) : IsCut(wire[i], past[k], NumberOf(k))
           /\ \A k \in OnWire(past) : \E i \in 1 .. Len(wire) : IsCut(wire[i], past[k], NumberOf(k))
           /\ \A i \in 1 .. Len(wire), k, l \in 1 .. Len(past) :
                wire[i].seq = NumberOf(k) /\ wire[i].seq = NumberOf(l) => k = l
           /\ OnWire(past) \subseteq 1 .. Len(past)
<1>1. \A i \in 1 .. Len(wire) : \E k \in 1 .. Len(past) : IsCut(wire[i], past[k], NumberOf(k))
    BY DEF WirePast
<1>2. \A i \in 1 .. Len(wire), k \in 1 .. Len(past) :
        IsCut(wire[i], past[k], NumberOf(k)) => wire[i].seq = NumberOf(k)
    BY DEF IsCut
<1>3. \A i \in 1 .. Len(wire), k, l \in 1 .. Len(past) :
        wire[i].seq = NumberOf(k) /\ wire[i].seq = NumberOf(l) => k = l
    BY PiecesDiffer
<1>4. \A i \in 1 .. Len(wire) : \E k \in OnWire(past) : IsCut(wire[i], past[k], NumberOf(k))
    BY <1>1, <1>2 DEF OnWire
<1>5. ASSUME NEW k \in OnWire(past)
      PROVE  \E i \in 1 .. Len(wire) : IsCut(wire[i], past[k], NumberOf(k))
  <2>1. PICK i \in 1 .. Len(wire) : wire[i].seq = NumberOf(k) /\ k \in 1 .. Len(past)
        BY DEF OnWire
  <2>2. PICK l \in 1 .. Len(past) : IsCut(wire[i], past[l], NumberOf(l))
        BY <1>1
  <2>3. k = l
        BY <1>2, <1>3, <2>1, <2>2
  <2> QED BY <2>2, <2>3
<1> QED BY <1>3, <1>4, <1>5 DEF OnWire

\* The packet at place i, with piece k, is no longer on its way.
LEMMA WireLoses ==
    ASSUME NEW past, PastOK(past), WirePast(past), WireRises(past), wire \in Seq(Packets),
           NEW i \in 1 .. Len(wire), NEW k \in 1 .. Len(past), wire[i].seq = NumberOf(k),
           Len(wire') = Len(wire) - 1,
           \A j \in 1 .. Len(wire) - 1 : wire'[j] = IF j < i THEN wire[j] ELSE wire[j + 1]
    PROVE  OnWire(past)' = OnWire(past) \ {k} /\ WireRises(past)'
           /\ \A j \in 1 .. Len(wire') : \E m \in 1 .. Len(wire) : wire'[j] = wire[m]
<1> DEFINE m(j) == IF j < i THEN j ELSE j + 1
<1>1. /\ Len(wire) \in Nat /\ Len(wire') = Len(wire) - 1
      /\ \A j \in 1 .. Len(wire) - 1 : wire'[j] = IF j < i THEN wire[j] ELSE wire[j + 1]
    OBVIOUS
<1>2. /\ \A j \in 1 .. Len(wire') : m(j) \in 1 .. Len(wire) /\ m(j) # i /\ wire'[j] = wire[m(j)]
      /\ \A j, l \in 1 .. Len(wire') : j < l => m(j) < m(l)
    BY <1>1
<1>3. ASSUME NEW n \in 1 .. Len(wire), n # i
      PROVE  \E j \in 1 .. Len(wire') : m(j) = n
  <2>1. CASE n < i
    <3>1. n \in 1 .. Len(wire') /\ m(n) = n
          BY <1>1, <2>1
    <3> QED BY <3>1
  <2>2. CASE n > i
    <3>1. n - 1 \in 1 .. Len(wire') /\ m(n - 1) = n
          BY <1>1, <2>2
    <3> QED BY <3>1
  <2> QED BY <1>3, <2>1, <2>2
<1> HIDE DEF m
<1>4. WireRises(past)'
  <2> SUFFICES ASSUME NEW j \in 1 .. Len(wire'), NEW l \in 1 .. Len(wire'), j < l,
                      NEW a \in 1 .. Len(past), NEW b \in 1 .. Len(past),
                      wire'[j].seq = NumberOf(a), wire'[l].seq = NumberOf(b)
               PROVE  a < b
      BY DEF WireRises, NumberOf
  <2>1. /\ m(j) \in 1 .. Len(wire) /\ m(l) \in 1 .. Len(wire) /\ m(j) < m(l)
        /\ wire'[j] = wire[m(j)] /\ wire'[l] = wire[m(l)]
        BY <1>2
  <2> QED BY <2>1 DEF WireRises
<1>5. ASSUME NEW l \in OnWire(past)' PROVE l \in OnWire(past) \ {k}
  <2>1. PICK j \in 1 .. Len(wire') : wire'[j].seq = NumberOf(l) /\ l \in 1 .. Len(past)
        BY DEF OnWire, NumberOf
  <2>2. wire[m(j)].seq = NumberOf(l) /\ m(j) \in 1 .. Len(wire) /\ m(j) # i
        BY <1>2, <2>1
  <2>3. l # k
    <3>1. m(j) < i \/ i < m(j)
          BY <1>1, <2>2
    <3>2. l < k \/ k < l
          BY <2>1, <2>2, <3>1 DEF WireRises
    <3> QED BY <1>1, <2>1, <3>2
  <2> QED BY <2>1, <2>2, <2>3 DEF OnWire
<1>6. ASSUME NEW l \in OnWire(past), l # k PROVE l \in OnWire(past)'
  <2>1. PICK n \in 1 .. Len(wire) : wire[n].seq = NumberOf(l) /\ l \in 1 .. Len(past)
        BY DEF OnWire
  <2>2. n # i
        BY <1>6, <2>1, PiecesDiffer
  <2>3. PICK j \in 1 .. Len(wire') : m(j) = n
        BY <1>3, <2>2
  <2>4. wire'[j].seq = NumberOf(l)
        BY <1>2, <2>1, <2>3
  <2> QED BY <2>1, <2>4 DEF OnWire, NumberOf
<1> QED BY <1>2, <1>4, <1>5, <1>6

\* The packet at place i, with piece k, arrives: the first of those on their
\* way or, where they are shuffled, a fragment of the same NALU that is no more
\* than the window ahead of it.
Arrives(past, i, k) ==
    /\ i \in 1 .. Len(wire) /\ wire[i] \in Packets
    /\ k \in OnWire(past) /\ IsCut(wire[i], past[k], NumberOf(k))
    /\ \E m \in OnWire(past) :
         /\ \A l \in OnWire(past) : m <= l
         /\ past[m].call = past[k].call
         /\ \/ k = m
            \/ /\ network = "shuffle" /\ S!IsFu(past[k].call) /\ past[m].off # 0
               /\ k - m <= Window
    /\ \/ OnWire(past)' = OnWire(past) \ {k}
       \/ network = "repeat" /\ OnWire(past)' = OnWire(past)
    /\ \A j \in 1 .. Len(wire') : \E n \in 1 .. Len(wire) : wire'[j] = wire[n]
    /\ UNCHANGED <<call, offset, rtp_seq, rtp_timestamp, network, damaged>>

\* The first packet has the first piece.
LEMMA FirstIsFirst ==
    ASSUME NEW past, PastOK(past), WirePast(past), WireRises(past), Len(wire) \in Nat,
           NEW m \in 1 .. Len(past), 1 \in 1 .. Len(wire), wire[1].seq = NumberOf(m)
    PROVE  m \in OnWire(past) /\ \A l \in OnWire(past) : m <= l
<1>1. ASSUME NEW l \in OnWire(past) PROVE m <= l
  <2>1. PICK j \in 1 .. Len(wire) : wire[j].seq = NumberOf(l) /\ l \in 1 .. Len(past)
        BY DEF OnWire
  <2>2. CASE j = 1
    <3>1. l = m
          BY <2>1, <2>2, PiecesDiffer
    <3> QED BY <3>1
  <2>3. CASE j # 1
    <3>1. 1 < j
          BY <2>3
    <3>2. m < l
          BY <2>1, <3>1 DEF WireRises
    <3> QED BY <2>1, <3>2
  <2> QED BY <2>2, <2>3
<1> QED BY <1>1 DEF OnWire

\* Every packet that arrives on such a network arrives like that.
LEMMA ArrivesIs ==
    ASSUME TypeInv, NEW past, PastOK(past), WirePast(past), WireRises(past), Tame, Arrive,
           misread' = 0
    PROVE  \E i, k : Arrives(past, i, k) /\ ReadWell(wire[i]) /\ WireRises(past)'
<1>1. wire \in Seq(Packets) /\ Len(wire) \in Nat
    BY DEF TypeInv
<1>2. PICK i \in Arriving :
        /\ Receive(wire[i])
        /\ \/ wire' = RemoveAt(wire, i) /\ UNCHANGED repeats
           \/ /\ network \in {"repeat", "any"} /\ repeats < MaxRepeats
              /\ repeats' = repeats + 1
              /\ UNCHANGED wire
        /\ UNCHANGED <<call, offset, rtp_seq, rtp_timestamp, network, damaged>>
    BY DEF Arrive
<1>3. /\ i \in 1 .. Len(wire) /\ wire[i] \in Packets /\ 1 \in 1 .. Len(wire)
      /\ ReadWell(wire[i])
  <2>1. i \in 1 .. Len(wire) /\ wire[i] \in Packets /\ 1 \in 1 .. Len(wire)
        BY <1>1 DEF Arriving
  <2> QED BY <1>2, <2>1, ReceivedWell
<1>4. PICK k \in OnWire(past) : IsCut(wire[i], past[k], NumberOf(k))
    BY <1>3, OnWireIs
<1>5. PICK m \in OnWire(past) : IsCut(wire[1], past[m], NumberOf(m))
    BY <1>3, OnWireIs
<1>6. /\ k \in 1 .. Len(past) /\ m \in 1 .. Len(past)
      /\ wire[i].seq = NumberOf(k) /\ wire[1].seq = NumberOf(m)
      /\ wire[i].call = past[k].call /\ wire[1].call = past[m].call
    BY <1>4, <1>5, OnWireIs DEF IsCut
<1>7. \A l \in OnWire(past) : m <= l
    BY <1>1, <1>3, <1>6, FirstIsFirst
<1>8. /\ past[m].call = past[k].call
      /\ \/ k = m
         \/ /\ network = "shuffle" /\ S!IsFu(past[k].call) /\ past[m].off # 0
            /\ k - m <= Window
  <2>1. CASE i = 1
    <3>1. k = m
          BY <1>6, <2>1, PiecesDiffer
    <3> QED BY <3>1
  <2>2. CASE i # 1
    <3>1. network = "shuffle" /\ SameNalu(i) /\ Near(i) /\ ~wire[1].start
          BY <1>2, <2>2 DEF Arriving, Tame
    <3>2. wire[1].call = wire[i].call /\ wire[1].fu /\ wire[i].fu
          BY <1>3, <3>1 DEF SameNalu
    <3>3. past[m].off # 0 /\ S!IsFu(past[k].call) /\ past[m].call = past[k].call
          BY <1>4, <1>5, <1>6, <3>1, <3>2 DEF IsCut
    <3>4. k - m <= Window
      <4>1. k \in Int /\ m \in Int /\ m <= k /\ k - m < SeqModulus
            BY <1>4, <1>6, <1>7, ConstantTypes DEF PastOK
      <4>2. (NumberOf(k) - NumberOf(m)) % SeqModulus = k - m
            BY <4>1, NumberGap
      <4> QED BY <1>6, <3>1, <4>2 DEF Near
    <3> QED BY <3>1, <3>3, <3>4
  <2> QED BY <2>1, <2>2
<1>9. CASE wire' = RemoveAt(wire, i)
  <2>1. /\ OnWire(past)' = OnWire(past) \ {k} /\ WireRises(past)'
        /\ \A j \in 1 .. Len(wire') : \E n \in 1 .. Len(wire) : wire'[j] = wire[n]
    <3>1. /\ Len(wire') = Len(wire) - 1
          /\ \A j \in 1 .. Len(wire) - 1 : wire'[j] = IF j < i THEN wire[j] ELSE wire[j + 1]
          BY <1>1, <1>3, <1>9, RemoveAtIs
    <3> QED BY <1>1, <1>3, <1>6, <3>1, WireLoses
  <2>2. Arrives(past, i, k)
        BY <1>2, <1>3, <1>4, <1>5, <1>7, <1>8, <2>1 DEF Arrives
  <2> QED BY <1>3, <2>1, <2>2
<1>10. CASE network = "repeat" /\ UNCHANGED wire
  <2>1. OnWire(past)' = OnWire(past) /\ WireRises(past)'
        BY <1>10 DEF OnWire, WireRises, NumberOf
  <2>2. \A j \in 1 .. Len(wire') : \E n \in 1 .. Len(wire) : wire'[j] = wire[n]
        BY <1>10
  <2>3. Arrives(past, i, k)
        BY <1>2, <1>3, <1>4, <1>5, <1>7, <1>8, <1>10, <2>1, <2>2 DEF Arrives
  <2> QED BY <1>3, <2>1, <2>3
<1> QED BY <1>2, <1>9, <1>10 DEF Tame

-----------------------------------------------------------------------------
(* The window and what a run lets out of it.                               *)

\* A used slot holds a piece that is in the window.
LEMMA KeptIs ==
    ASSUME NEW past, SlotPast(past), NEW i \in 1 .. Window, reorder[i].used
    PROVE  \E k \in Kept(past) :
             /\ k \in 1 .. Len(past) /\ reorder[i].seq = NumberOf(k)
             /\ S!IsFu(past[k].call) /\ past[k].off # 0
BY DEF SlotPast, Kept

\* A reset empties the window.
LEMMA NoneKept ==
    ASSUME NEW past, Reset PROVE Kept(past)' = {} /\ ~active' /\ ~expired'
<1>1. \A i \in 1 .. Window : ~reorder'[i].used
    BY DEF Reset, FreeSlot
<1> QED BY <1>1 DEF Reset, Kept

-----------------------------------------------------------------------------
(* Which piece arrives.                                                    *)

\* A call has its pieces one behind the other.
LEMMA Between ==
    ASSUME NEW past, PastOK(past), CallsRise(past),
           NEW a \in 1 .. Len(past), NEW b \in 1 .. Len(past), NEW c \in 1 .. Len(past),
           a <= b, b <= c, past[a].call = past[c].call
    PROVE  past[b].call = past[a].call
<1>1. past[a].call \in Int /\ past[b].call \in Int /\ Len(past) \in Nat
  <2>1. past[a].call \in S!Calls /\ past[b].call \in S!Calls
        BY CutIs
  <2>2. S!Calls \subseteq Int /\ Len(past) \in Nat
        BY DEF S!Calls, PastOK
  <2> QED BY <2>1, <2>2
<1>2. a < b => past[a].call <= past[b].call
    BY DEF CallsRise
<1>3. b < c => past[b].call <= past[c].call
    BY DEF CallsRise
<1> QED BY <1>1, <1>2, <1>3

\* A first fragment on its way lets none behind it arrive.
LEMMA StartBlocks ==
    ASSUME NEW past, PastOK(past), CallsRise(past), NEW i, NEW k, Arrives(past, i, k),
           NEW s \in OnWire(past), past[s].off = 0, s <= k
    PROVE  k = s
<1>1. PICK m \in OnWire(past) :
         /\ \A l \in OnWire(past) : m <= l
         /\ past[m].call = past[k].call
         /\ k = m \/ past[m].off # 0
    BY DEF Arrives
<1>2. /\ k \in 1 .. Len(past) /\ m \in 1 .. Len(past) /\ s \in 1 .. Len(past) /\ m <= s
      /\ Len(past) \in Nat
  <2>1. k \in OnWire(past) /\ m <= s
        BY <1>1 DEF Arrives
  <2> QED BY <2>1 DEF OnWire, PastOK
<1>3. past[s].call = past[m].call
    BY <1>1, <1>2, Between
<1>4. m = s
  <2>1. m < s => past[s].off # 0
        BY <1>2, <1>3 DEF CallsRise
  <2> QED BY <1>2, <2>1
<1> QED BY <1>1, <1>4

\* The piece that is waited for
LEMMA WaitsFor ==
    ASSUME NEW past, PastOK(past), NaluPast(past), HeldOK(past), active
    PROVE  \E a \in 1 .. Len(past) :
             /\ S!IsFu(past[a].call) /\ expected_seq = NumberOf(a + 1) /\ Held(past, a)
             /\ \A b \in 1 .. Len(past) : expected_seq = NumberOf(b + 1) => b = a
<1>1. PICK a \in 1 .. Len(past) : S!IsFu(past[a].call) /\ expected_seq = NumberOf(a + 1)
    BY DEF NaluPast
<1>2. \A b \in 1 .. Len(past) : expected_seq = NumberOf(b + 1) => b = a
    BY <1>1, SameNumber
<1> QED BY <1>1, <1>2 DEF HeldOK

\* Only one piece is before the number waited for.
LEMMA HeldIsEnough ==
    ASSUME NEW past, PastOK(past), NEW a \in 1 .. Len(past),
           expected_seq' = NumberOf(a + 1), Held(past, a)'
    PROVE  HeldOK(past)'
<1>1. \A b \in 1 .. Len(past) : expected_seq' = NumberOf(b + 1) => b = a
    BY SameNumber
<1> QED BY <1>1 DEF HeldOK

\* While a NALU that lost nothing is being put together, what arrives is its
\* next fragment, or its last one again, or one ahead in the window.
LEMMA SameCallArrives ==
    ASSUME NEW past, PastOK(past), CallsRise(past), GoesOn(past), NEW i, NEW k, Arrives(past, i, k),
           NEW a \in 1 .. Len(past), Held(past, a), past[a].call \notin damaged
    PROVE  /\ past[k].call = past[a].call /\ k >= a
           /\ k > a + 1 => network = "shuffle" /\ k <= a + 1 + Window
           /\ k = a => network = "repeat"
<1>1. PICK m \in OnWire(past) :
         /\ \A l \in OnWire(past) : m <= l
         /\ past[m].call = past[k].call
         /\ k = m \/ (network = "shuffle" /\ k - m <= Window)
    BY DEF Arrives
<1>2. /\ k \in OnWire(past) /\ k \in 1 .. Len(past) /\ m \in 1 .. Len(past)
      /\ Len(past) \in Nat /\ Window \in Nat
    BY <1>1, WindowAssumption DEF Arrives, OnWire, PastOK
<1>3. /\ k > a \/ (k = a /\ network = "repeat")
      /\ m > a \/ (m = a /\ network = "repeat")
    BY <1>1, <1>2 DEF Held
<1>4. CASE a < Len(past)
  <2>1. a + 1 \in 1 .. Len(past) /\ past[a + 1].call = past[a].call
        BY <1>2, <1>4 DEF GoesOn, Held
  <2>2. a + 1 \in Around(past) \cup Unsent(past)
        BY <1>2, <2>1 DEF Held
  <2>3. a + 1 \notin Unsent(past)
        BY <2>1 DEF Unsent
  <2>4. a + 1 \notin Kept(past)
    <3>1. \A l \in Kept(past) : l > a /\ past[l].call = past[a].call => l \in a + 2 .. a + 1 + Window
          BY DEF Held
    <3> QED BY <1>2, <2>1, <3>1
  <2>5. m <= a + 1
        BY <1>1, <2>2, <2>3, <2>4 DEF Around
  <2>6. past[m].call = past[a].call
        BY <1>2, <1>3, <2>1, <2>5
  <2> QED BY <1>1, <1>2, <1>3, <2>5, <2>6
<1>5. CASE a = Len(past)
    BY <1>2, <1>3, <1>5
<1> QED BY <1>2, <1>4, <1>5

\* Where fragments are shuffled this is so whatever was given up.
LEMMA SameCallShuffled ==
    ASSUME NEW past, PastOK(past), CallsRise(past), WindowOK(past), active,
           NEW i, NEW k, Arrives(past, i, k), network = "shuffle",
           NEW a \in 1 .. Len(past), expected_seq = NumberOf(a + 1), Held(past, a),
           S!IsFu(past[k].call), past[k].off # 0
    PROVE  /\ past[k].call = past[a].call /\ k \in a + 1 .. a + 1 + Window
<1>1. PICK m \in OnWire(past) :
         /\ \A l \in OnWire(past) : m <= l
         /\ past[m].call = past[k].call
         /\ k = m \/ (past[m].off # 0 /\ k - m <= Window)
    BY DEF Arrives
<1>2. /\ k \in OnWire(past) /\ k \in 1 .. Len(past) /\ m \in 1 .. Len(past)
      /\ Len(past) \in Nat /\ Window \in Nat
    BY <1>1, WindowAssumption DEF Arrives, OnWire, PastOK
<1>3. m > a /\ k >= m
    BY <1>1, <1>2 DEF Held
<1>4. m > 1 /\ past[m - 1].call = past[m].call
    BY <1>1, <1>2 DEF PastOK
<1>5. /\ \A l \in a + 1 .. Len(past) : S!IsFu(past[l].call) \/ past[l].call = past[a].call =>
           l \in OnWire(past) \/ l \in Kept(past) \/ l \in Unsent(past)
      /\ \A l \in Kept(past) : l > a + 1 /\ past[l].call = past[a].call
    BY DEF Held, WindowOK, Around
<1>6. ASSUME NEW l \in a + 1 .. m - 1, past[l].call = past[m].call \/ past[l].call = past[a].call
      PROVE  l \in Kept(past) \/ l \in Unsent(past)
  <2>1. l \in 1 .. Len(past) /\ l < m /\ l \in a + 1 .. Len(past)
        BY <1>2, <1>6
  <2>2. l \notin OnWire(past)
        BY <1>1, <1>2, <2>1
  <2>3. S!IsFu(past[l].call) \/ past[l].call = past[a].call
        BY <1>1, <1>6
  <2> QED BY <1>5, <2>1, <2>2, <2>3
<1>7. m = a + 1
  <2> SUFFICES ASSUME m - 1 \in a + 1 .. m - 1 PROVE FALSE
      BY <1>2, <1>3
  <2>1. m - 1 \in 1 .. Len(past) /\ m \in (m - 1) + 1 .. Len(past) /\ a + 1 \in 1 .. Len(past)
        BY <1>2
  <2>2. m - 1 \notin Unsent(past)
        BY <1>4, <2>1 DEF Unsent
  <2>3. m - 1 > a + 1 /\ past[m - 1].call = past[a].call
        BY <1>4, <1>5, <1>6, <2>2
  <2>4. past[a + 1].call = past[a].call
        BY <1>2, <2>1, <2>3, Between
  <2>5. a + 1 \notin Unsent(past)
    <3>1. m - 1 \in (a + 1) + 1 .. Len(past)
          BY <1>2, <2>1, <2>3
    <3> QED BY <2>3, <2>4, <3>1 DEF Unsent
  <2>6. a + 1 \in Kept(past)
        BY <1>2, <1>3, <1>6, <2>3, <2>4, <2>5
  <2> QED BY <1>2, <1>5, <2>6
<1>8. past[m].call = past[a].call
    BY <1>4, <1>7
<1> QED BY <1>1, <1>2, <1>3, <1>7, <1>8

\* A call of which no more arrives than before stays doomed.
LEMMA DoomedStands ==
    ASSUME NEW past, NEW c, NEW b, Doomed(past, c, b), Around(past)' \subseteq Around(past),
           UNCHANGED call
    PROVE  Doomed(past, c, b)'
BY DEF Doomed

\* A call that is doomed does not come to its end.
LEMMA DoomedEnds ==
    ASSUME NEW past, PastOK(past), CallsRise(past), NEW b \in Int, NEW k \in 1 .. Len(past), 
           \A l \in b .. k : l \in Around(past), k \in Around(past), IsFinal(past[k])
    PROVE  ~Doomed(past, past[k].call, b)
<1>1. Len(past) \in Nat
    BY DEF PastOK
<1>2. ASSUME NEW l \in b .. Len(past), l \in 1 .. Len(past), past[l].call = past[k].call
      PROVE  l \in Around(past)
  <2>1. l <= k
        BY <1>1, <1>2 DEF CallsRise
  <2> QED BY <1>1, <2>1
<1> QED BY <1>2 DEF Doomed

-----------------------------------------------------------------------------
(* What is counted of a NALU, and room for what is ahead.                  *)

\* Every fragment but the last one leaves one packet less.
LEMMA RunPackets ==
    ASSUME NEW past, PastOK(past), CallsRise(past), Sized(past), NEW a \in 1 .. Len(past), NEW run \in Nat,
           Chain(past, a, run), a + run \in 1 .. Len(past), past[a + run].call = past[a].call,
           ~IsFinal(past[a + run])
    PROVE  PacketsLeft(past[a].call, Until(past[a]))
             = PacketsLeft(past[a].call, Until(past[a + run])) + run
<1> DEFINE c == past[a].call
           left(n) == PacketsLeft(c, Until(past[a + n]))
           T == {n \in Nat : n <= run => left(0) = left(n) + n /\ left(n) \in Nat}
<1>1. /\ c \in S!Calls /\ Len(past) \in Nat /\ Room(c) \in Nat \ {0} /\ Len(Stream[c].body) \in Nat
      /\ a \in Int
  <2>1. c \in S!Calls
        BY CutIs
  <2> QED BY <2>1, StreamIs DEF PastOK
<1>2. ASSUME NEW n \in Nat, n <= run
      PROVE  /\ a + n \in 1 .. Len(past) /\ past[a + n].call = c
             /\ Until(past[a + n]) \in Nat /\ Until(past[a + n]) < Len(Stream[c].body)
             /\ past[a + n].size = Room(c) /\ Until(past[a + n]) = past[a + n].off + Room(c)
  <2>1. a + n \in 1 .. Len(past) /\ past[a + n].call = c
    <3>1. CASE n = 0
          BY <1>1, <3>1
    <3>2. CASE n # 0
          BY <1>1, <1>2, <3>2 DEF Chain
    <3> QED BY <3>1, <3>2
  <2>2. ~IsFinal(past[a + n])
    <3>1. CASE n = run
          BY <3>1
    <3>2. CASE n # run
      <4>1. a + n < a + run
            BY <1>1, <1>2, <3>2
      <4> QED BY <2>1, <4>1 DEF CallsRise
    <3> QED BY <3>1, <3>2
  <2>3. Until(past[a + n]) \in Nat /\ past[a + n].off \in Nat
    <3>1. past[a + n].off \in Nat /\ Len(BodyOf(past[a + n])) \in Nat
          /\ Until(past[a + n]) \in past[a + n].off + 1 .. Len(BodyOf(past[a + n]))
          BY <2>1, CutIs
    <3> QED BY <3>1
  <2>4. past[a + n].size = Room(c)
        BY <2>1, <2>2 DEF Sized
  <2>5. Until(past[a + n]) < Len(Stream[c].body)
        BY <1>1, <2>1, <2>2, <2>3 DEF IsFinal, BodyOf
  <2>6. Until(past[a + n]) = past[a + n].off + Room(c)
        BY <2>4 DEF Until
  <2> QED BY <2>1, <2>3, <2>4, <2>5, <2>6
<1>3. \A n \in Nat : n <= run => left(n) \in Nat
  <2> SUFFICES ASSUME NEW n \in Nat, n <= run PROVE left(n) \in Nat
      OBVIOUS
  <2>1. Until(past[a + n]) \in Nat /\ Until(past[a + n]) < Len(Stream[c].body)
        BY <1>2
  <2> HIDE DEF c
  <2> QED BY <1>1, <2>1, PacketsLeftIs
<1>4. 0 \in T
  <2> HIDE DEF left
  <2>1. 0 \in Nat /\ 0 <= run
        OBVIOUS
  <2>2. left(0) \in Nat
        BY <1>3, <2>1
  <2> QED BY <2>1, <2>2
<1>5. ASSUME NEW n \in Nat, n \in T PROVE n + 1 \in T
  <2>0. n + 1 <= run => left(n + 1) \in Nat
    <3>1. n + 1 \in Nat
          OBVIOUS
    <3> HIDE DEF left
    <3> QED BY <1>3, <3>1
  <2> SUFFICES ASSUME n + 1 <= run PROVE left(0) = left(n + 1) + (n + 1)
    <3> HIDE DEF left
    <3> QED BY <2>0
  <2>1. left(0) = left(n) + n /\ left(n) \in Nat
        BY <1>5
  <2>2. past[a + (n + 1)].off = Until(past[a + n])
    <3>1. n + 1 \in 1 .. run
          OBVIOUS
    <3>2. past[a + (n + 1)].off = Until(past[a + ((n + 1) - 1)])
          BY <3>1 DEF Chain
    <3>3. (n + 1) - 1 = n
          OBVIOUS
    <3> QED BY <3>2, <3>3
  <2>3. Until(past[a + (n + 1)]) = Until(past[a + n]) + Room(c)
        /\ Until(past[a + (n + 1)]) < Len(Stream[c].body)
    <3>1. n + 1 \in Nat
          OBVIOUS
    <3> HIDE DEF c
    <3> QED BY <1>2, <2>2, <3>1
  <2>4. Until(past[a + n]) \in Nat /\ Until(past[a + n]) < Len(Stream[c].body)
    <3>1. n <= run
          OBVIOUS
    <3> QED BY <1>2, <3>1
  <2>5. left(n) = left(n + 1) + 1
    <3> HIDE DEF c
    <3> QED BY <1>1, <2>3, <2>4, PacketsLeftIs
  <2>6. left(n + 1) \in Nat
        BY <2>0
  <2> HIDE DEF left
  <2> QED BY <2>1, <2>5, <2>6
<1>6. run \in T
  <2> HIDE DEF T
  <2>1. Nat \subseteq T
        BY <1>4, <1>5, Induction
  <2> QED BY <2>1
<1>7. left(0) = left(run) + run
    BY <1>6
<1>8. a + 0 = a
    BY <1>1
<1> QED BY <1>7, <1>8

\* Fragmented counts the packets from the first byte on.
LEMMA FragmentedIs ==
    ASSUME NEW c \in FuCalls PROVE Fragmented(c) = PacketsLeft(c, 0) /\ c \in S!Calls
<1>1. /\ c \in S!Calls /\ Stream[c].function # "rtp_packet"
      /\ Room(c) = MaxPayload - S!Overhead(Stream[c].function)
    BY DEF FuCalls, S!IsFu, Room
<1>2. Len(Stream[c].body) \in Nat /\ Room(c) \in Nat
    BY <1>1, StreamIs
<1>3. Len(Stream[c].body) - 0 = Len(Stream[c].body)
    BY <1>2
<1> QED BY <1>1, <1>3 DEF Fragmented, PacketsLeft

\* The first fragment is the first of as many as the NALU has.
LEMMA StartPackets ==
    ASSUME NEW past, PastOK(past), Sized(past), NEW k \in 1 .. Len(past),
           S!IsFu(past[k].call), past[k].off = 0, ~IsFinal(past[k])
    PROVE  1 + PacketsLeft(past[k].call, Until(past[k])) = Fragmented(past[k].call)
<1> DEFINE c == past[k].call
<1>1. c \in S!Calls /\ Until(past[k]) \in Nat
  <2>1. c \in S!Calls /\ Len(BodyOf(past[k])) \in Nat
        /\ Until(past[k]) \in 0 + 1 .. Len(BodyOf(past[k]))
        BY CutIs
  <2> QED BY <2>1
<1>2. Fragmented(c) = PacketsLeft(c, 0)
    BY <1>1, FragmentedIs DEF FuCalls
<1>3. Room(c) \in Nat /\ Len(Stream[c].body) \in Nat
    BY <1>1, StreamIs
<1>4. Until(past[k]) = 0 + Room(c)
    BY DEF Sized, Until
<1>5. 0 + Room(c) < Len(Stream[c].body)
    BY <1>1, <1>3, <1>4 DEF IsFinal, BodyOf
<1>6. PacketsLeft(c, 0) = PacketsLeft(c, 0 + Room(c)) + 1 /\ PacketsLeft(c, 0 + Room(c)) \in Nat
  <2> HIDE DEF c
  <2>1. 0 \in Nat /\ 0 < Len(Stream[c].body) /\ 0 + Room(c) \in Nat
        BY <1>3, <1>5
  <2> QED BY <1>1, <1>5, <2>1, PacketsLeftIs
<1> QED BY <1>2, <1>4, <1>6

\* The window has as many slots as there are numbers that fit in it: there is
\* one for a fragment that is on its way.
LEMMA SlotForIt ==
    ASSUME NEW past, PastOK(past), SlotPast(past), WindowOK(past), active, network = "shuffle",
           NEW a \in 1 .. Len(past), expected_seq = NumberOf(a + 1), Held(past, a),
           NEW k \in OnWire(past), k \in a + 2 .. a + 1 + Window
    PROVE  FreeSlots # {}
<1> SUFFICES ASSUME FreeSlots = {} PROVE FALSE
    OBVIOUS
<1>1. Window \in Nat \ {0} /\ a \in Int
    BY WindowAssumption
<1>2. \A i \in 1 .. Window : reorder[i].used
    BY DEF FreeSlots
<1> DEFINE B == a + 2 .. a + 1 + Window
           f == [i \in 1 .. Window |-> CHOOSE l \in B \ {k} : reorder[i].seq = NumberOf(l)]
<1>3. ASSUME NEW i \in 1 .. Window
      PROVE  f[i] \in B \ {k} /\ reorder[i].seq = NumberOf(f[i])
  <2>1. PICK l \in Kept(past) : reorder[i].seq = NumberOf(l)
        BY <1>2, KeptIs
  <2>2. l > a + 1 /\ past[l].call = past[a].call /\ a < l
        BY <1>1, <2>1 DEF WindowOK, Kept
  <2>3. l \in B /\ l \notin OnWire(past)
        BY <2>1, <2>2 DEF Held
  <2>4. \E x \in B \ {k} : reorder[i].seq = NumberOf(x)
        BY <2>1, <2>3
  <2>5. f[i] = CHOOSE x \in B \ {k} : reorder[i].seq = NumberOf(x)
        OBVIOUS
  <2> HIDE DEF f, B
  <2> QED BY <2>4, <2>5
<1>4. f \in [1 .. Window -> B \ {k}]
  <2>1. f = [i \in 1 .. Window |-> f[i]]
        OBVIOUS
  <2> HIDE DEF f, B
  <2> QED BY <1>3, <2>1
<1>5. /\ IsFiniteSet(1 .. Window) /\ Cardinality(1 .. Window) = Window
      /\ IsFiniteSet(B \ {k}) /\ Cardinality(B \ {k}) = Window - 1
  <2>1. IsFiniteSet(1 .. Window) /\ Cardinality(1 .. Window) = Window
    <3>1. 1 \in Int /\ Window \in Int
          BY <1>1
    <3>2. /\ IsFiniteSet(1 .. Window)
          /\ Cardinality(1 .. Window) = IF 1 > Window THEN 0 ELSE Window - 1 + 1
          BY <3>1, FS_Interval, Zenon
    <3> QED BY <1>1, <3>2
  <2>2. IsFiniteSet(B) /\ Cardinality(B) = Window
    <3>1. /\ IsFiniteSet(B)
          /\ Cardinality(B) = IF a + 2 > a + 1 + Window THEN 0 ELSE (a + 1 + Window) - (a + 2) + 1
      <4>1. a + 2 \in Int /\ a + 1 + Window \in Int
            BY <1>1
      <4> QED BY <4>1, FS_Interval, Zenon
    <3> QED BY <1>1, <3>1
  <2>3. k \in B
        OBVIOUS
  <2> HIDE DEF B
  <2> QED BY <2>1, <2>2, <2>3, FS_RemoveElement
<1> HIDE DEF f, B
<1>6. PICK i \in 1 .. Window, j \in 1 .. Window : i # j /\ f[i] = f[j]
  <2>1. Cardinality(B \ {k}) < Cardinality(1 .. Window)
        BY <1>1, <1>5
  <2> QED BY <1>4, <1>5, <2>1, FS_PigeonHole
<1>7. reorder[i].seq = reorder[j].seq
    BY <1>3, <1>6
<1> QED BY <1>2, <1>6, <1>7 DEF WindowOK

-----------------------------------------------------------------------------
(* A packet arrives.                                                       *)

\* All that is known of the pieces where the network is one of those
Known(past) ==
    /\ PastOK(past) /\ WirePast(past) /\ RecvPast(past) /\ PastSent(past)
    /\ Tame /\ Loss(past)

\* What a packet leaves behind that puts no first fragment into the window
LEMMA ArrivesLeaves ==
    ASSUME NEW past, Known(past), NEW i, NEW k, Arrives(past, i, k),
           Kept(past)' \subseteq Kept(past) \cup {k},
           k \in Kept(past)' => k \in Kept(past) \/ past[k].off # 0
    PROVE  /\ Around(past)' \subseteq Around(past) /\ OnWire(past)' \subseteq OnWire(past)
           /\ Unsent(past)' = Unsent(past)
           /\ KeptBehind(past)' /\ Unstarted(past)'
<1>1. /\ PastOK(past) /\ CallsRise(past) /\ KeptBehind(past) /\ Unstarted(past)
      /\ Len(past) \in Nat
  <2>1. PastOK(past) /\ CallsRise(past) /\ KeptBehind(past) /\ Unstarted(past)
        BY DEF Known, Loss
  <2> QED BY <2>1 DEF PastOK
<1>2. k \in OnWire(past) /\ OnWire(past)' \subseteq OnWire(past)
      /\ UNCHANGED <<call, network, damaged>>
      /\ \A l \in OnWire(past) : l \in OnWire(past)' \/ (l = k /\ OnWire(past)' = OnWire(past) \ {k})
    BY DEF Arrives
<1>3. Around(past)' \subseteq Around(past) /\ Unsent(past)' = Unsent(past)
    BY <1>2 DEF Around, Unsent
<1>4. KeptBehind(past)'
  <2> SUFFICES ASSUME network # "shuffle", NEW x \in Kept(past)', NEW l \in OnWire(past)'
               PROVE  x <= l
      BY <1>2 DEF KeptBehind
  <2>1. \A y \in OnWire(past) : k <= y
        BY DEF Arrives
  <2> QED BY <1>1, <1>2, <2>1 DEF KeptBehind
<1>5. Unstarted(past)'
  <2> SUFFICES ASSUME NEW s \in OnWire(past)', S!IsFu(past[s].call), past[s].off = 0
               PROVE  /\ \A l \in s .. Len(past) :
                           /\ l \notin Kept(past)'
                           /\ S!IsFu(past[l].call) /\ (network = "shuffle" \/ past[l].call \notin damaged) =>
                                l \in OnWire(past)' \/ l \in Unsent(past)
                      /\ past[s].call \in damaged => Doomed(past, past[s].call, s)'
      BY <1>2, <1>3 DEF Unstarted
  <2>1. s \in OnWire(past) /\ s \in 1 .. Len(past) /\ k \in 1 .. Len(past)
        BY <1>2 DEF OnWire
  <2>2. /\ \A l \in s .. Len(past) :
             /\ l \notin Kept(past)
             /\ S!IsFu(past[l].call) /\ (network = "shuffle" \/ past[l].call \notin damaged) =>
                  l \in OnWire(past) \/ l \in Unsent(past)
        /\ past[s].call \in damaged => Doomed(past, past[s].call, s)
        BY <1>1, <2>1 DEF Unstarted
  <2>3. s <= k => k = s
        BY <1>1, <2>1, StartBlocks
  <2>4. k = s => OnWire(past)' = OnWire(past)
        BY <1>2
  <2>5. \A l \in s .. Len(past) : l \in OnWire(past) => l \in OnWire(past)'
        BY <1>1, <1>2, <2>1, <2>3, <2>4
  <2>6. ASSUME NEW l \in s .. Len(past) PROVE l \notin Kept(past)'
    <3>1. l = k => k = s
          BY <2>1, <2>3
    <3>2. k \notin Kept(past) \/ k # s
          BY <1>1, <2>1, <2>2
    <3> QED BY <2>2, <3>1, <3>2
  <2>7. past[s].call \in damaged => Doomed(past, past[s].call, s)'
        BY <1>2, <1>3, <2>2, DoomedStands
  <2> QED BY <2>2, <2>5, <2>6, <2>7
<1> QED BY <1>2, <1>3, <1>4, <1>5

\* What the fate of every NALU comes down to
LEMMA FateArrives ==
    ASSUME NEW past, Fate(past), NEW i, NEW k, Arrives(past, i, k),
           \A n \in ToSet(written) : n \in ToSet(written'),
           S!IsFu(past[k].call) /\ past[k].off = 0 =>
             \/ Whole(past[k].call) \in ToSet(written') \/ past[k].call \in damaged
             \/ Progress(past, past[k].call)',
           \A c \in FuCalls \ damaged : Fragmented(c) <= MaxFragments /\ Progress(past, c) =>
             Whole(c) \in ToSet(written') \/ Progress(past, c)'
    PROVE  Fate(past)'
<1> SUFFICES ASSUME NEW c \in FuCalls \ damaged, c < call \/ (c = call /\ offset # 0),
                    Fragmented(c) <= MaxFragments
             PROVE  \/ Whole(c) \in ToSet(written')
                    \/ \E s \in OnWire(past)' : past[s].call = c /\ past[s].off = 0
                    \/ Progress(past, c)'
    BY DEF Fate, Arrives, FuCalls, Whole, Buffered, Fragmented
<1>1. CASE Whole(c) \in ToSet(written)
    BY <1>1
<1>2. CASE Progress(past, c)
    BY <1>2
<1>3. ASSUME NEW s \in OnWire(past), past[s].call = c, past[s].off = 0
      PROVE  \/ Whole(c) \in ToSet(written') \/ s \in OnWire(past)'
             \/ Progress(past, c)'
  <2>1. s \in OnWire(past)' \/ s = k
        BY DEF Arrives
  <2>2. S!IsFu(past[s].call)
        BY <1>3 DEF FuCalls
  <2> QED BY <1>3, <2>1, <2>2
<1> QED BY <1>1, <1>2, <1>3 DEF Fate

\* Nothing has changed for the NALU in the buffer.
LEMMA ProgressStands ==
    ASSUME NEW past, NEW i, NEW k, Arrives(past, i, k), NEW c, Progress(past, c),
           UNCHANGED <<active, timestamp, expected_seq, pending_fragments>>
    PROVE  Progress(past, c)'
<1>1. PICK a \in 1 .. Len(past) :
        /\ past[a].call = c /\ expected_seq = NumberOf(a + 1)
        /\ pending_fragments + PacketsLeft(c, Until(past[a])) = Fragmented(c)
        /\ \A j \in 1 .. Len(wire) : wire[j].call = c => wire[j].timestamp = timestamp
        /\ c = call => timestamp = rtp_timestamp
    BY DEF Progress
<1>2. \A j \in 1 .. Len(wire') : wire'[j].call = c => wire'[j].timestamp = timestamp
    BY <1>1 DEF Arrives
<1>3. active /\ UNCHANGED <<call, rtp_timestamp>>
    BY DEF Arrives, Progress
<1> QED BY <1>1, <1>2, <1>3 DEF Progress, PacketsLeft, Room, Fragmented

\* A packet the reassembly does nothing with
LEMMA ArrivesIgnored ==
    ASSUME NEW past, Known(past), NEW i, NEW k, Arrives(past, i, k), UNCHANGED fuVars,
           S!IsFu(past[k].call) => past[k].off # 0 /\ (active => expected_seq = NumberOf(k + 1))
    PROVE  HeldOK(past)' /\ WindowOK(past)' /\ Fate(past)' /\ Kept(past)' = Kept(past)
<1>1. /\ PastOK(past) /\ NaluPast(past) /\ HeldOK(past) /\ WindowOK(past) /\ Fate(past)
      /\ CallsRise(past)
    BY DEF Known, Loss, RecvPast
<1>2. UNCHANGED <<active, timestamp, expected_seq, pending_fragments, reorder, written>>
    BY DEF fuVars, fuCtx
<1>3. Kept(past)' = Kept(past)
    BY <1>2 DEF Kept
<1>4. /\ OnWire(past)' \subseteq OnWire(past) /\ k \in 1 .. Len(past)
      /\ \A l \in OnWire(past) : l \in OnWire(past)' \/ l = k
      /\ UNCHANGED <<call, network, damaged>>
    BY DEF Arrives, OnWire
<1>5. HeldOK(past)'
  <2> SUFFICES ASSUME active PROVE HeldOK(past)'
      BY <1>2 DEF HeldOK
  <2>1. PICK a \in 1 .. Len(past) :
          /\ S!IsFu(past[a].call) /\ expected_seq = NumberOf(a + 1) /\ Held(past, a)
          /\ \A b \in 1 .. Len(past) : expected_seq = NumberOf(b + 1) => b = a
        BY <1>1, WaitsFor
  <2>2. ASSUME NEW l \in a + 1 .. Len(past), S!IsFu(past[l].call) PROVE l # k
        BY <1>4, <2>1, <2>2
  <2>3. Around(past)' \subseteq Around(past) /\ Unsent(past)' = Unsent(past)
        BY <1>3, <1>4 DEF Around, Unsent
  <2>4. Held(past, a)'
    <3>1. past[a].call \in damaged => Doomed(past, past[a].call, a + 1)'
          BY <1>4, <2>1, <2>3, DoomedStands DEF Held
    <3>2. ASSUME network = "shuffle" \/ past[a].call \notin damaged,
                 NEW l \in a + 1 .. Len(past),
                 past[l].call = past[a].call \/ (network = "shuffle" /\ S!IsFu(past[l].call))
          PROVE  l \in Around(past)' \cup Unsent(past)
      <4>1. l \in Around(past) \cup Unsent(past)
            BY <2>1, <3>2 DEF Held
      <4>2. l # k
            BY <2>1, <2>2, <3>2
      <4> QED BY <1>3, <1>4, <4>1, <4>2 DEF Around
    <3>3. \A l \in OnWire(past)' : l > a \/ (l = a /\ network = "repeat")
          BY <1>4, <2>1 DEF Held
    <3>4. ASSUME network = "shuffle" \/ past[a].call \notin damaged,
                 NEW l \in Kept(past), l > a, past[l].call = past[a].call
          PROVE  network = "shuffle" /\ l \notin OnWire(past)' /\ l \in a + 2 .. a + 1 + Window
          BY <1>4, <2>1, <3>4 DEF Held
    <3>5. ~IsFinal(past[a])
          BY <2>1 DEF Held
    <3> QED BY <1>3, <1>4, <2>3, <3>1, <3>2, <3>3, <3>4, <3>5 DEF Held
  <2> QED BY <1>1, <1>2, <2>1, <2>4, HeldIsEnough
<1>6. WindowOK(past)'
    BY <1>1, <1>2, <1>3, <1>4 DEF WindowOK
<1>7. Fate(past)'
    BY <1>1, <1>2, FateArrives, ProgressStands
<1> QED BY <1>3, <1>5, <1>6, <1>7

\* A fragment that a NALU with nothing lost waits for, or that is ahead of the
\* one it waits for, is not thrown away with it.
LEMMA DueIsTaken ==
    ASSUME NEW past, Known(past), FuTypeOK, NEW i, NEW k, Arrives(past, i, k),
           NEW c, Progress(past, c), c \notin damaged, Fragmented(c) <= MaxFragments
    PROVE  ~DiscardStale(wire[i]) /\ ~DiscardUnordered(wire[i])
<1> DEFINE p == wire[i]
<1>1. /\ PastOK(past) /\ NaluPast(past) /\ HeldOK(past) /\ WindowOK(past) /\ CallsRise(past)
      /\ GoesOn(past) /\ SlotPast(past) /\ ~expired
    BY DEF Known, Loss, RecvPast
<1>2. PICK a \in 1 .. Len(past) :
        /\ past[a].call = c /\ expected_seq = NumberOf(a + 1)
        /\ pending_fragments + PacketsLeft(c, Until(past[a])) = Fragmented(c)
        /\ \A j \in 1 .. Len(wire) : wire[j].call = c => wire[j].timestamp = timestamp
    BY DEF Progress
<1>3. active /\ Held(past, a)
    BY <1>1, <1>2 DEF Progress, HeldOK
<1>4. /\ i \in 1 .. Len(wire) /\ k \in OnWire(past) /\ k \in 1 .. Len(past)
      /\ p.call = past[k].call /\ p.seq = NumberOf(k)
    BY DEF Arrives, OnWire, IsCut
<1>5. /\ past[k].call = c /\ k >= a
      /\ k > a + 1 => network = "shuffle" /\ k <= a + 1 + Window
    BY <1>1, <1>2, <1>3, SameCallArrives
<1>6. pending_fragments < MaxFragments
  <2>1. PacketsLeft(c, Until(past[a])) \in Nat \ {0}
    <3>1. c \in S!Calls /\ Len(BodyOf(past[a])) \in Nat /\ past[a].off \in Nat
          /\ Until(past[a]) \in past[a].off + 1 .. Len(BodyOf(past[a]))
          BY <1>1, <1>2, CutIs
    <3>2. Until(past[a]) \in Nat /\ Until(past[a]) < Len(Stream[c].body)
          BY <1>2, <1>3, <3>1 DEF Held, IsFinal, BodyOf
    <3> QED BY <3>1, <3>2, PacketsLeftIs
  <2>2. pending_fragments \in Int /\ MaxFragments \in Int
        BY WindowAssumption DEF FuTypeOK
  <2> QED BY <1>2, <2>1, <2>2
<1>7. p.timestamp = timestamp
    BY <1>2, <1>4, <1>5
<1>8. ~Stale(p)
  <2>1. pending_fragments \in Int /\ MaxFragments \in Int
        BY WindowAssumption DEF FuTypeOK
  <2> QED BY <1>1, <1>6, <1>7, <2>1 DEF Stale
<1>9. ASSUME ~Duplicate(p), p.seq # expected_seq
      PROVE  InWindow(p) /\ FreeSlots # {}
  <2>1. k # a
    <3>1. (NumberOf(k) + 1) % SeqModulus = NumberOf(k + 1)
      <4>1. k \in Int
            BY <1>4
      <4> QED BY <4>1, NumberOfPlus
    <3> QED BY <1>2, <1>4, <1>9, <3>1 DEF Duplicate, SeqAfter
  <2>2. k # a + 1
        BY <1>2, <1>4, <1>9
  <2>3. network = "shuffle" /\ k \in a + 2 .. a + 1 + Window
        BY <1>4, <1>5, <2>1, <2>2, ConstantTypes
  <2>4. Ahead(p.seq) = k - (a + 1)
    <3>1. k \in Int /\ a + 1 \in Int /\ a + 1 <= k
          BY <1>4, <2>3
    <3>2. k - (a + 1) < SeqModulus
      <4>1. Window \in Nat /\ SeqModulus \in Nat /\ SeqModulus > 2 * Window + 1
            BY WindowAssumption
      <4> QED BY <2>3, <4>1
    <3>3. (NumberOf(k) - NumberOf(a + 1)) % SeqModulus = k - (a + 1)
          BY <3>1, <3>2, NumberGap
    <3> QED BY <1>2, <1>4, <3>3 DEF Ahead
  <2>5. InWindow(p)
        BY <1>4, <2>3, <2>4, ConstantTypes DEF InWindow
  <2>6. FreeSlots # {}
        BY <1>1, <1>2, <1>3, <1>4, <2>3, SlotForIt
  <2> QED BY <2>5, <2>6
<1> QED BY <1>8, <1>9 DEF DiscardStale, DiscardUnordered

\* A NALU is thrown away: it had lost something.
LEMMA ArrivesDiscards ==
    ASSUME NEW past, Known(past), FuTypeOK, NEW i, NEW k, Arrives(past, i, k),
           DiscardStale(wire[i]) \/ DiscardUnordered(wire[i]), S!IsFu(past[k].call)
    PROVE  HeldOK(past)' /\ WindowOK(past)' /\ Fate(past)' /\ Kept(past)' = {}
<1>1. Reset /\ UNCHANGED written /\ ~wire[i].start
    BY DEF DiscardStale, DiscardUnordered, Continues
<1>2. ~active' /\ Kept(past)' = {} /\ \A j \in 1 .. Window : ~reorder'[j].used
    BY <1>1, NoneKept DEF Reset, FreeSlot
<1>3. HeldOK(past)' /\ WindowOK(past)'
    BY <1>2 DEF HeldOK, WindowOK
<1>4. past[k].off # 0
    BY <1>1 DEF Arrives, IsCut
<1>5. Fate(past)'
    BY <1>1, <1>4, FateArrives, DueIsTaken DEF Known, Loss
<1> QED BY <1>2, <1>3, <1>5

\* A fragment ahead of its turn is kept.
LEMMA StoredIs ==
    ASSUME FuTypeOK, NEW p, Store(p), CutRight(p)
    PROVE  \E f \in 1 .. Window :
             /\ ~reorder[f].used /\ reorder'[f].used /\ reorder'[f].seq = p.seq
             /\ \A j \in 1 .. Window : j # f => reorder'[j] = reorder[j]
<1> DEFINE s == [used |-> TRUE, seq |-> p.seq, end |-> p.end, data |-> p.data]
           f == Min(FreeSlots)
<1>1. FreeSlots # {} /\ reorder' = [reorder EXCEPT ![f] = s]
    BY DEF Store, CutRight
<1>2. f \in 1 .. Window /\ ~reorder[f].used
  <2>1. f \in FreeSlots
        BY <1>1, FreeSlotIs
  <2> HIDE DEF f
  <2> QED BY <2>1 DEF FreeSlots
<1>3. reorder \in [1 .. Window -> Slots]
    BY DEF FuTypeOK, Slots
<1>4. s.used /\ s.seq = p.seq
    OBVIOUS
<1> HIDE DEF s, f
<1>5. reorder'[f] = s /\ \A j \in 1 .. Window : j # f => reorder'[j] = reorder[j]
    BY <1>1, <1>2, <1>3
<1> QED BY <1>2, <1>4, <1>5

\* A fragment ahead of the one waited for goes into the window.
LEMMA ArrivesAhead ==
    ASSUME NEW past, Known(past), FuTypeOK, NEW i, NEW k, Arrives(past, i, k),
           Store(wire[i]), CutRight(wire[i]), S!IsFu(past[k].call)
    PROVE  /\ HeldOK(past)' /\ WindowOK(past)' /\ Fate(past)'
           /\ Kept(past)' = Kept(past) \cup {k} /\ past[k].off # 0
<1> DEFINE p == wire[i]
<1>1. /\ PastOK(past) /\ NaluPast(past) /\ HeldOK(past) /\ WindowOK(past) /\ CallsRise(past)
      /\ GoesOn(past) /\ SlotPast(past) /\ Fate(past) /\ Len(past) \in Nat
  <2>1. PastOK(past)
        BY DEF Known
  <2>2. Len(past) \in Nat
        BY <2>1 DEF PastOK
  <2> QED BY <2>1, <2>2 DEF Known, Loss, RecvPast
<1>2. /\ k \in OnWire(past) /\ k \in 1 .. Len(past) /\ p.seq = NumberOf(k)
      /\ OnWire(past)' \subseteq OnWire(past)
      /\ network = "shuffle" => OnWire(past)' = OnWire(past) \ {k}
      /\ \A l \in OnWire(past) : l \in OnWire(past)' \/ l = k
      /\ UNCHANGED <<call, network, damaged>>
    BY DEF Arrives, OnWire, IsCut
<1>3. /\ active /\ ~p.start /\ InWindow(p)
      /\ UNCHANGED <<active, timestamp, expected_seq, pending_fragments, written>>
    BY DEF Store, Continues
<1>4. past[k].off # 0
    BY <1>3 DEF Arrives, IsCut
<1>5. PICK f \in 1 .. Window :
        /\ ~reorder[f].used /\ reorder'[f].used /\ reorder'[f].seq = p.seq
        /\ \A j \in 1 .. Window : j # f => reorder'[j] = reorder[j]
    BY StoredIs
<1>6. Kept(past)' = Kept(past) \cup {k}
  <2>1. ASSUME NEW l \in Kept(past)' PROVE l \in Kept(past) \cup {k}
    <3>1. PICK j \in 1 .. Window : reorder'[j].used /\ reorder'[j].seq = NumberOf(l)
                                   /\ l \in 1 .. Len(past)
          BY DEF Kept
    <3>2. CASE j = f
      <4>1. NumberOf(l) = NumberOf(k)
            BY <1>2, <1>5, <3>1, <3>2
      <4>2. l = k
            BY <1>1, <1>2, <3>1, <4>1, PiecesDiffer
      <4> QED BY <4>2
    <3>3. CASE j # f
          BY <1>5, <3>1, <3>3 DEF Kept
    <3> QED BY <3>2, <3>3
  <2>2. k \in Kept(past)'
        BY <1>2, <1>5 DEF Kept
  <2>3. ASSUME NEW l \in Kept(past) PROVE l \in Kept(past)'
    <3>1. PICK j \in 1 .. Window : reorder[j].used /\ reorder[j].seq = NumberOf(l)
                                   /\ l \in 1 .. Len(past)
          BY DEF Kept
    <3>2. j # f
          BY <1>5, <3>1
    <3> QED BY <1>5, <3>1, <3>2 DEF Kept
  <2> QED BY <2>1, <2>2, <2>3
<1>7. PICK a \in 1 .. Len(past) :
        /\ expected_seq = NumberOf(a + 1) /\ Held(past, a)
        /\ \A b \in 1 .. Len(past) : expected_seq = NumberOf(b + 1) => b = a
    BY <1>1, <1>3, WaitsFor
<1>8. k # a + 1
  <2> SUFFICES ASSUME k = a + 1 PROVE FALSE
      OBVIOUS
  <2>1. NumberOf(k) \in SeqNumbers /\ Ahead(p.seq) = (NumberOf(k) - NumberOf(k)) % SeqModulus
        BY <1>2, <1>7, NumberOfPlus DEF Ahead
  <2>2. NumberOf(k) \in Int /\ SeqModulus \in Nat \ {0}
        BY <2>1, ConstantTypes
  <2>3. NumberOf(k) - NumberOf(k) = 0 /\ 0 % SeqModulus = 0
        BY <2>2
  <2>4. Ahead(p.seq) = 0
        BY <2>1, <2>3
  <2> QED BY <1>3, <2>4 DEF InWindow
<1>9. k > a
  <2>1. k > a \/ (k = a /\ network = "repeat")
        BY <1>2, <1>7 DEF Held
  <2>2. k # a
    <3>1. (NumberOf(k) + 1) % SeqModulus = NumberOf(k + 1)
          BY <1>2, NumberOfPlus
    <3> QED BY <1>2, <1>7, <3>1 DEF Store, Duplicate, SeqAfter
  <2> QED BY <2>1, <2>2
<1>10. network = "shuffle" => past[k].call = past[a].call /\ k \in a + 1 .. a + 1 + Window
    BY <1>1, <1>3, <1>4, <1>7, SameCallShuffled
<1>11. network # "shuffle" => past[a].call \in damaged
  <2> SUFFICES ASSUME network # "shuffle", past[a].call \notin damaged PROVE FALSE
      OBVIOUS
  <2>1. k <= a + 1
        BY <1>1, <1>2, <1>7, SameCallArrives
  <2> QED BY <1>2, <1>8, <1>9, <2>1
<1>12. Around(past)' \subseteq Around(past) /\ Unsent(past)' = Unsent(past)
       /\ \A l \in Around(past) : l \in Around(past)'
    BY <1>2, <1>6 DEF Around, Unsent
<1>13. Held(past, a)'
  <2>1. \A l \in OnWire(past)' : l > a \/ (l = a /\ network = "repeat")
        BY <1>2, <1>7 DEF Held
  <2>2. past[a].call \in damaged => Doomed(past, past[a].call, a + 1)'
        BY <1>2, <1>7, <1>12, DoomedStands DEF Held
  <2>3. ASSUME network = "shuffle", NEW l \in Kept(past)', l > a, past[l].call = past[a].call
        PROVE  l \notin OnWire(past)' /\ l \in a + 2 .. a + 1 + Window
    <3>1. CASE l \in Kept(past)
          BY <1>2, <1>7, <2>3, <3>1 DEF Held
    <3>2. CASE l = k
          BY <1>2, <1>8, <1>10, <2>3, <3>2, ConstantTypes
    <3> QED BY <1>6, <3>1, <3>2
  <2>4. ASSUME network = "shuffle" \/ past[a].call \notin damaged,
               NEW l \in a + 1 .. Len(past),
               past[l].call = past[a].call \/ (network = "shuffle" /\ S!IsFu(past[l].call))
        PROVE  l \in Around(past)' \cup Unsent(past)
        BY <1>7, <1>12, <2>4 DEF Held
  <2>5. ~IsFinal(past[a])
        BY <1>7 DEF Held
  <2> QED BY <1>2, <1>11, <1>12, <2>1, <2>2, <2>3, <2>4, <2>5 DEF Held
<1>14. HeldOK(past)'
    BY <1>1, <1>3, <1>7, <1>13, HeldIsEnough
<1>15. WindowOK(past)'
  <2> SUFFICES ASSUME network = "shuffle"
               PROVE  /\ \A l \in Kept(past)' : l > a + 1 /\ past[l].call = past[a].call
                      /\ \A j, n \in 1 .. Window :
                           reorder'[j].used /\ reorder'[n].used /\ reorder'[j].seq = reorder'[n].seq
                             => j = n
      BY <1>2, <1>3, <1>7 DEF WindowOK
  <2>1. \A l \in Kept(past) : l > a + 1 /\ past[l].call = past[a].call /\ l \notin OnWire(past)
    <3> SUFFICES ASSUME NEW l \in Kept(past)
                 PROVE  l > a + 1 /\ past[l].call = past[a].call /\ l \notin OnWire(past)
        OBVIOUS
    <3>1. l > a + 1 /\ past[l].call = past[a].call /\ l \in Int
          BY <1>7 DEF WindowOK, Known, Loss, Kept
    <3>2. l > a
          BY <3>1
    <3> QED BY <1>7, <3>1, <3>2 DEF Held
  <2>2. k > a + 1 /\ past[k].call = past[a].call
        BY <1>2, <1>8, <1>9, <1>10
  <2>3. ASSUME NEW j \in 1 .. Window, reorder[j].used PROVE reorder[j].seq # p.seq
    <3>1. PICK l \in Kept(past) : reorder[j].seq = NumberOf(l) /\ l \in 1 .. Len(past)
          BY <1>1, <2>3, KeptIs
    <3>2. l # k
          BY <1>2, <2>1
    <3>3. NumberOf(l) # NumberOf(k)
          BY <1>1, <1>2, <3>1, <3>2, PiecesDiffer
    <3> QED BY <1>2, <3>1, <3>3
  <2>4. \A j, n \in 1 .. Window :
          reorder[j].used /\ reorder[n].used /\ reorder[j].seq = reorder[n].seq => j = n
        BY <1>1 DEF WindowOK
  <2>5. \A j, n \in 1 .. Window :
           reorder'[j].used /\ reorder'[n].used /\ reorder'[j].seq = reorder'[n].seq => j = n
        BY <1>5, <2>3, <2>4
  <2> QED BY <1>6, <2>1, <2>2, <2>5
<1>16. Fate(past)'
    BY <1>1, <1>3, <1>4, FateArrives, ProgressStands
<1> QED BY <1>4, <1>6, <1>14, <1>15, <1>16

\* A NALU reaches the file, and nothing of it was lost.
Writes(past, k) ==
    /\ written' = Append(written, Whole(past[k].call)) /\ Whole(past[k].call) \in Nalus
    /\ past[k].call \in FuCalls \ damaged /\ past[k].call < call
    /\ network = "lossy" => \A l \in OnWire(past)' : past[k].call < past[l].call

\* What a NALU more makes of the file
LEMMA GrownFile ==
    ASSUME NEW n \in Nalus, written \in Seq(Nalus), written' = Append(written, n)
    PROVE  /\ n \in ToSet(written') /\ \A x \in ToSet(written) : x \in ToSet(written')
           /\ \A x \in ToSet(written') : x = n \/ x \in ToSet(written)
<1>1. /\ Len(written) \in Nat /\ Len(written') = Len(written) + 1
      /\ written'[Len(written) + 1] = n
      /\ \A i \in 1 .. Len(written) : written'[i] = written[i]
      /\ written' \in Seq(Nalus)
    BY AppendProperties
<1>2. /\ ToSet(written) = {written[i] : i \in 1 .. Len(written)}
      /\ ToSet(written') = {written'[i] : i \in 1 .. Len(written')}
    BY <1>1 DEF ToSet
<1>3. Len(written) + 1 \in 1 .. Len(written')
    BY <1>1
<1>4. \A i \in 1 .. Len(written) : i \in 1 .. Len(written')
    BY <1>1
<1>5. \A i \in 1 .. Len(written') : i \in 1 .. Len(written) \/ i = Len(written) + 1
    BY <1>1
<1> QED BY <1>1, <1>2, <1>3, <1>4, <1>5, Zenon

\* The fragments that go into the buffer are out of the network.
LEMMA RunIsOut ==
    ASSUME NEW past, Known(past), NEW i, NEW k, Arrives(past, i, k), active,
           k > 1, expected_seq = NumberOf(k), past[k - 1].call = past[k].call,
           NEW run \in 0 .. Window, k + run \in 1 .. Len(past), Chain(past, k, run),
           \A j \in 1 .. run : k + j \in Kept(past)
    PROVE  /\ Held(past, k - 1)
           /\ network # "shuffle" => run = 0
           /\ \A l \in OnWire(past) : l # k => l > k + run
           /\ \A l \in k .. k + run : l \in Around(past)
<1>1. /\ k \in OnWire(past) /\ k \in 1 .. Len(past) /\ Len(past) \in Nat /\ run \in Nat
      /\ network # "shuffle" => \A l \in OnWire(past) : k <= l
  <2>1. k \in OnWire(past) /\ network # "shuffle" => \A l \in OnWire(past) : k <= l
        BY DEF Arrives
  <2>2. PastOK(past)
        BY DEF Known
  <2> QED BY <2>1, <2>2, ConstantTypes DEF PastOK, OnWire, Arrives
<1>2. k - 1 \in 1 .. Len(past) /\ (k - 1) + 1 = k
    BY <1>1
<1>3. Held(past, k - 1)
  <2>1. expected_seq = NumberOf((k - 1) + 1)
        BY <1>2
  <2> QED BY <1>2, <2>1 DEF Known, Loss, HeldOK
<1>4. network # "shuffle" => run = 0
  <2> SUFFICES ASSUME network # "shuffle", run # 0 PROVE FALSE
      OBVIOUS
  <2>1. 1 \in 1 .. run
        BY <1>1
  <2>2. k + 1 \in Kept(past)
        BY <2>1
  <2>3. k + 1 <= k
        BY <1>1, <2>2 DEF Known, Loss, KeptBehind
  <2> QED BY <1>1, <2>3
<1>5. ASSUME NEW l \in OnWire(past), l # k PROVE l > k + run
  <2>1. l \in 1 .. Len(past)
        BY DEF OnWire
  <2>2. CASE network # "shuffle"
        BY <1>1, <1>4, <1>5, <2>1, <2>2
  <2>3. CASE network = "shuffle"
    <3>1. l > k - 1
          BY <1>3, <2>3 DEF Held
    <3>2. ASSUME NEW j \in 1 .. run PROVE l # k + j
      <4>1. k + j \in Kept(past) /\ k + j > k - 1 /\ past[k + j].call = past[k - 1].call
        <5>1. past[k + j].call = past[k].call
              BY <3>2 DEF Chain
        <5>2. k + j > k - 1
              BY <1>1
        <5>3. k + j \in Kept(past)
              OBVIOUS
        <5> QED BY <5>1, <5>2, <5>3
      <4>2. k + j \notin OnWire(past)
            BY <1>3, <2>3, <4>1 DEF Held
      <4> QED BY <4>2
    <3>3. ~(l <= k + run)
      <4> SUFFICES ASSUME l <= k + run PROVE FALSE
          OBVIOUS
      <4>1. l - k \in 1 .. run /\ k + (l - k) = l
            BY <1>1, <1>5, <2>1, <3>1
      <4> QED BY <3>2, <4>1
    <3> QED BY <1>1, <2>1, <3>3
  <2> QED BY <2>2, <2>3
<1>6. ASSUME NEW l \in k .. k + run PROVE l \in Around(past)
  <2>1. CASE l = k
        BY <1>1, <2>1 DEF Around
  <2>2. CASE l # k
    <3>1. l - k \in 1 .. run /\ k + (l - k) = l
          BY <1>1, <2>2
    <3>2. l \in Kept(past)
          BY <3>1
    <3> QED BY <3>2 DEF Around
  <2> QED BY <2>1, <2>2
<1> QED BY <1>3, <1>4, <1>5, <1>6

\* The last fragment arrives, or lets it out of the window.
LEMMA ArrivesLast ==
    ASSUME NEW past, Known(past), FuTypeOK, NEW i, NEW k, Arrives(past, i, k),
           S!IsFu(past[k].call), past[k].off # 0, active,
           k > 1, expected_seq = NumberOf(k), past[k - 1].call = past[k].call,
           NEW run \in 0 .. Window, k + run \in 1 .. Len(past), Chain(past, k, run),
           past[k + run].call = past[k].call,
           \A j \in 1 .. run : k + j \in Kept(past),
           IsFinal(past[k + run]), Complete(Whole(past[k + run].call))
    PROVE  HeldOK(past)' /\ WindowOK(past)' /\ Fate(past)' /\ Kept(past)' = {} /\ Writes(past, k)
<1> DEFINE c == past[k].call
<1>1. /\ PastOK(past) /\ CallsRise(past) /\ PastSent(past) /\ Fate(past) /\ Len(past) \in Nat
  <2>1. PastOK(past) /\ CallsRise(past) /\ PastSent(past) /\ Fate(past)
        BY DEF Known, Loss
  <2> QED BY <2>1 DEF PastOK
<1>2. /\ Held(past, k - 1)
      /\ network # "shuffle" => run = 0
      /\ \A l \in OnWire(past) : l # k => l > k + run
      /\ \A l \in k .. k + run : l \in Around(past)
    BY RunIsOut
<1>3. Reset /\ written' = Append(written, Whole(c))
    BY DEF Complete
<1>4. ~active' /\ Kept(past)' = {} /\ \A j \in 1 .. Window : ~reorder'[j].used
    BY <1>3, NoneKept DEF Reset, FreeSlot
<1>5. HeldOK(past)' /\ WindowOK(past)'
    BY <1>4 DEF HeldOK, WindowOK
<1>6. k \in OnWire(past) /\ k \in 1 .. Len(past) /\ run \in Nat /\ k + run \in k .. k + run
  <2>1. k \in OnWire(past) /\ k \in 1 .. Len(past)
        BY DEF Arrives, OnWire
  <2> QED BY <2>1, ConstantTypes
<1>7. c \notin damaged
  <2>1. k + run \in Around(past)
        BY <1>2, <1>6
  <2>2. ~Doomed(past, c, k)
    <3>1. k \in Int
          BY <1>6
    <3> QED BY <1>1, <1>2, <2>1, <3>1, DoomedEnds
  <2>3. (k - 1) + 1 = k
        BY <1>6
  <2> QED BY <1>2, <2>2, <2>3 DEF Held
<1>8. c \in FuCalls
    BY <1>1, <1>6, CutIs DEF FuCalls
<1>9. c < call
    BY DEF Known, PastSent
<1>10. ASSUME network = "lossy", NEW l \in OnWire(past)' PROVE c < past[l].call
  <2>1. l \in OnWire(past) /\ l # k /\ l \in 1 .. Len(past)
        BY <1>10 DEF Arrives, OnWire
  <2>2. run = 0 /\ l > k /\ IsFinal(past[k])
        BY <1>2, <1>6, <1>10, <2>1
  <2>3. c <= past[l].call /\ c # past[l].call
        BY <1>1, <1>6, <2>1, <2>2 DEF CallsRise
  <2>4. c \in Int /\ past[l].call \in Int
    <3>1. c \in S!Calls /\ past[l].call \in S!Calls
          BY <1>1, <1>6, <2>1, CutIs
    <3> QED BY <3>1 DEF S!Calls
  <2> QED BY <2>3, <2>4
<1>13. Whole(c) \in Nalus
    BY <1>1, <1>6, NaluSoFar
<1>11. Writes(past, k)
    BY <1>3, <1>7, <1>8, <1>9, <1>10, <1>13 DEF Writes
<1>12. Fate(past)'
  <2>1. Whole(c) \in ToSet(written') /\ \A n \in ToSet(written) : n \in ToSet(written')
    <3>1. written \in Seq(Nalus)
          BY DEF FuTypeOK
    <3> QED BY <1>3, <1>13, <3>1, GrownFile
  <2>2. ASSUME NEW d, Progress(past, d) PROVE d = c
    <3>1. PICK a \in 1 .. Len(past) : past[a].call = d /\ expected_seq = NumberOf(a + 1)
          BY <2>2 DEF Progress
    <3>2. k = a + 1 /\ past[k].call = past[a].call
      <4>1. NumberOf(k) = NumberOf(a + 1)
            BY <3>1
      <4> QED BY <1>1, <1>6, <4>1, Successor
    <3> QED BY <3>1, <3>2
  <2> QED BY <1>1, <2>1, <2>2, FateArrives
<1> QED BY <1>4, <1>5, <1>11, <1>12

\* The fragment expected, or those it lets out of the window, and more to come
LEMMA ArrivesInTurn ==
    ASSUME NEW past, Known(past), FuTypeOK, NEW i, NEW k, Arrives(past, i, k),
           S!IsFu(past[k].call), past[k].off # 0, active,
           k > 1, expected_seq = NumberOf(k), past[k - 1].call = past[k].call,
           NEW run \in 0 .. Window, k + run \in 1 .. Len(past), Chain(past, k, run),
           past[k + run].call = past[k].call,
           \A j \in 1 .. run : k + j \in Kept(past),
           ~IsFinal(past[k + run]), run < Window => k + run + 1 \notin Kept(past),
           expected_seq' = NumberOf(k + run + 1),
           pending_fragments' = pending_fragments + 1 + run,
           \A n \in 1 .. Window :
             \/ reorder'[n] = reorder[n]
             \/ /\ ~reorder'[n].used /\ reorder[n].used
                /\ \E j \in 1 .. run : reorder[n].seq = NumberOf(k + j),
           \A j \in 1 .. run : \E n \in 1 .. Window :
             reorder[n].used /\ reorder[n].seq = NumberOf(k + j) /\ ~reorder'[n].used,
           UNCHANGED <<active, timestamp, expired, written>>
    PROVE  HeldOK(past)' /\ WindowOK(past)' /\ Fate(past)' /\ Kept(past)' \subseteq Kept(past)
<1> DEFINE c == past[k].call
           b == k + run
<1>1. /\ PastOK(past) /\ CallsRise(past) /\ Sized(past) /\ WindowOK(past) /\ Fate(past)
      /\ Len(past) \in Nat
  <2>1. PastOK(past) /\ CallsRise(past) /\ Sized(past) /\ WindowOK(past) /\ Fate(past)
        BY DEF Known, Loss
  <2>2. Len(past) \in Nat
        BY <2>1 DEF PastOK
  <2> QED BY <2>1, <2>2
<1>2. /\ Held(past, k - 1)
      /\ network # "shuffle" => run = 0
      /\ \A l \in OnWire(past) : l # k => l > k + run
      /\ \A l \in k .. k + run : l \in Around(past)
    BY RunIsOut
<1>3. /\ k \in OnWire(past) /\ k \in 1 .. Len(past)
      /\ OnWire(past)' \subseteq OnWire(past)
      /\ network = "repeat" \/ OnWire(past)' = OnWire(past) \ {k}
      /\ \A l \in OnWire(past) : l \in OnWire(past)' \/ l = k
      /\ UNCHANGED <<call, network, damaged>>
    BY DEF Arrives, OnWire
<1>4. run \in Nat /\ Window \in Nat /\ run <= Window /\ k \in Int /\ b \in 1 .. Len(past)
      /\ (k - 1) + 1 = k /\ k - 1 \in 1 .. Len(past) /\ b = k + run
  <2>1. run \in Nat /\ Window \in Nat /\ run <= Window
        BY ConstantTypes
  <2>2. k \in Int /\ (k - 1) + 1 = k /\ k - 1 \in 1 .. Len(past)
        BY <1>1, <1>3
  <2> QED BY <2>1, <2>2
<1>7. c = past[b].call /\ c = past[k - 1].call /\ ~IsFinal(past[b])
      /\ (run < Window => b + 1 \notin Kept(past)) /\ expected_seq' = NumberOf(b + 1)
    OBVIOUS
<1> HIDE DEF b
<1>5. /\ Kept(past)' \subseteq Kept(past)
      /\ \A l \in Kept(past) : l \in Kept(past)' \/ l \in k + 1 .. b
  <2>1. ASSUME NEW l \in Kept(past)' PROVE l \in Kept(past)
    <3>1. PICK n \in 1 .. Window : reorder'[n].used /\ reorder'[n].seq = NumberOf(l)
                                   /\ l \in 1 .. Len(past)
          BY DEF Kept
    <3>2. reorder'[n] = reorder[n]
          BY <3>1
    <3> QED BY <3>1, <3>2 DEF Kept
  <2>2. ASSUME NEW l \in Kept(past), l \notin Kept(past)' PROVE l \in k + 1 .. b
    <3>1. PICK n \in 1 .. Window : reorder[n].used /\ reorder[n].seq = NumberOf(l)
                                   /\ l \in 1 .. Len(past)
          BY DEF Kept
    <3>2. reorder'[n] # reorder[n]
      <4> SUFFICES ASSUME reorder'[n] = reorder[n] PROVE FALSE
          OBVIOUS
      <4>1. reorder'[n].used /\ reorder'[n].seq = NumberOf(l)
            BY <3>1
      <4>2. l \in Kept(past)'
            BY <3>1, <4>1 DEF Kept
      <4> QED BY <2>2, <4>2
    <3>3. PICK j \in 1 .. run : reorder[n].seq = NumberOf(k + j)
          BY <3>2
    <3>4. k + j \in 1 .. Len(past)
          BY DEF Chain
    <3>5. NumberOf(l) = NumberOf(k + j) /\ l \in 1 .. Len(past)
          BY <3>1, <3>3
    <3>6. l = k + j
          BY <1>1, <3>4, <3>5, PiecesDiffer, Zenon
    <3> QED BY <1>4, <3>6
  <2> QED BY <2>1, <2>2
<1>6. Around(past)' \subseteq Around(past) /\ Unsent(past)' = Unsent(past)
    BY <1>3, <1>5 DEF Around, Unsent
<1> HIDE DEF c
<1>8. Held(past, b)'
  <2>1. ~IsFinal(past[b])
        BY <1>7
  <2>2. ASSUME NEW l \in OnWire(past)' PROVE l > b \/ (l = b /\ network = "repeat")
    <3>1. CASE l = k
      <4>1. network = "repeat"
            BY <1>3, <3>1
      <4>2. run = 0
            BY <1>2, <4>1
      <4> QED BY <1>4, <3>1, <4>1, <4>2
    <3>2. CASE l # k
          BY <1>2, <1>3, <1>4, <3>2
    <3> QED BY <3>1, <3>2
  <2>3. ASSUME network = "shuffle" \/ c \notin damaged, NEW l \in Kept(past)', l > b,
               past[l].call = c
        PROVE  network = "shuffle" /\ l \notin OnWire(past)' /\ l \in b + 2 .. b + 1 + Window
    <3>1. l \in Kept(past) /\ l \in 1 .. Len(past) /\ l > k - 1
      <4>1. l \in Kept(past)
            BY <1>5, <2>3
      <4>2. l \in 1 .. Len(past)
            BY <4>1 DEF Kept
      <4> QED BY <1>4, <2>3, <4>1, <4>2
    <3>2. network = "shuffle" /\ l \notin OnWire(past) /\ l \in (k - 1) + 2 .. (k - 1) + 1 + Window
          BY <1>2, <1>7, <2>3, <3>1 DEF Held
    <3>3. l # b + 1
      <4>1. CASE run < Window
            BY <1>7, <3>1, <4>1
      <4>2. CASE run = Window
            BY <1>4, <3>1, <3>2, <4>2
      <4> QED BY <1>4, <4>1, <4>2
    <3>4. l \notin OnWire(past)' /\ network = "shuffle"
          BY <1>3, <3>2
    <3>5. l \in b + 2 .. b + 1 + Window
      <4>1. l \in Int /\ k \in Int /\ run \in Nat /\ b = k + run /\ Window \in Nat
            BY <1>4, <3>1, ConstantTypes
      <4>2. l > b /\ l # b + 1 /\ l <= k + Window
            BY <2>3, <3>2, <3>3, <4>1
      <4> HIDE DEF b
      <4> QED BY <4>1, <4>2
    <3> QED BY <3>4, <3>5
  <2>4. ASSUME network = "shuffle" \/ c \notin damaged, NEW l \in b + 1 .. Len(past),
               past[l].call = c \/ (network = "shuffle" /\ S!IsFu(past[l].call))
        PROVE  l \in Around(past)' \cup Unsent(past)
    <3>1. l \in (k - 1) + 1 .. Len(past) /\ l # k /\ l \notin k + 1 .. b
          BY <1>1, <1>4
    <3>2. l \in Around(past) \cup Unsent(past)
          BY <1>2, <1>7, <2>4, <3>1 DEF Held
    <3> QED BY <1>3, <1>5, <3>1, <3>2 DEF Around
  <2>5. ASSUME c \in damaged PROVE Doomed(past, c, b + 1)'
    <3>1. Doomed(past, c, k)
          BY <1>2, <1>4, <1>7, <2>5 DEF Held
    <3>2. Doomed(past, c, b + 1)
      <4>1. ASSUME NEW l \in k .. Len(past), l \notin Around(past)
            PROVE  l \in b + 1 .. Len(past)
            BY <1>1, <1>2, <1>4, <4>1
      <4> QED BY <3>1, <4>1 DEF Doomed
    <3> QED BY <1>3, <1>6, <3>2, DoomedStands
  <2> QED BY <1>3, <1>6, <1>7, <2>1, <2>2, <2>3, <2>4, <2>5 DEF Held
<1>9. HeldOK(past)'
    BY <1>1, <1>4, <1>7, <1>8, HeldIsEnough
<1>10. ASSUME network = "shuffle", NEW l \in Kept(past)'
       PROVE  l > b + 1 /\ past[l].call = c
  <2>1. l \in Kept(past) /\ l \in 1 .. Len(past)
        BY <1>5 DEF Kept
  <2>2. expected_seq = NumberOf((k - 1) + 1)
        BY <1>4
  <2>3. l > (k - 1) + 1 /\ past[l].call = c
        BY <1>1, <1>4, <1>7, <1>10, <2>1, <2>2 DEF WindowOK
  <2>4. l \in (k - 1) + 2 .. (k - 1) + 1 + Window
    <3>1. l > k - 1
          BY <1>4, <2>1, <2>3
    <3> QED BY <1>2, <1>7, <1>10, <2>1, <2>3, <3>1 DEF Held
  <2>5. l \notin k + 1 .. b
    <3> SUFFICES ASSUME l \in k + 1 .. b PROVE FALSE
        OBVIOUS
    <3>1. l - k \in 1 .. run /\ k + (l - k) = l
          BY <1>4, <2>1
    <3>2. PICK n \in 1 .. Window :
            reorder[n].used /\ reorder[n].seq = NumberOf(l) /\ ~reorder'[n].used
          BY <3>1
    <3>3. PICK m \in 1 .. Window : reorder'[m].used /\ reorder'[m].seq = NumberOf(l)
          BY DEF Kept
    <3>4. reorder[m].used /\ reorder[m].seq = NumberOf(l)
          BY <3>3
    <3>5. m = n
          BY <1>1, <1>10, <3>2, <3>4 DEF WindowOK
    <3> QED BY <3>2, <3>3, <3>5
  <2>6. l # b + 1
    <3>1. CASE run < Window
          BY <1>7, <2>1, <3>1
    <3>2. CASE run = Window
          BY <1>4, <2>4, <3>2
    <3> QED BY <1>4, <3>1, <3>2
  <2>7. l \in Int /\ b \in Int /\ l > k
        BY <1>4, <2>1, <2>3
  <2>8. l > b
        BY <1>4, <2>5, <2>7
  <2>9. l > b + 1
        BY <2>6, <2>7, <2>8
  <2> QED BY <2>3, <2>9
<1>11. WindowOK(past)'
  <2>1. \A x \in 1 .. Len(past) : expected_seq' = NumberOf(x + 1) => x = b
        BY <1>1, <1>4, <1>7, SameNumber
  <2>2. ASSUME network = "shuffle", NEW m \in 1 .. Window, NEW n \in 1 .. Window,
               reorder'[m].used, reorder'[n].used, reorder'[m].seq = reorder'[n].seq
        PROVE  m = n
    <3>1. reorder'[m] = reorder[m] /\ reorder'[n] = reorder[n]
          BY <2>2
    <3> QED BY <1>1, <2>2, <3>1 DEF WindowOK
  <2> QED BY <1>3, <1>7, <1>10, <2>1, <2>2 DEF WindowOK
<1>12. Fate(past)'
  <2>1. ASSUME NEW d, Progress(past, d) PROVE Progress(past, d)'
    <3>1. PICK a \in 1 .. Len(past) :
            /\ past[a].call = d /\ expected_seq = NumberOf(a + 1)
            /\ pending_fragments + PacketsLeft(d, Until(past[a])) = Fragmented(d)
            /\ \A j \in 1 .. Len(wire) : wire[j].call = d => wire[j].timestamp = timestamp
            /\ d = call => timestamp = rtp_timestamp
          BY <2>1 DEF Progress
    <3>2. k = a + 1 /\ past[k].call = past[a].call /\ past[k].off = Until(past[a])
      <4>1. NumberOf(k) = NumberOf(a + 1)
            BY <3>1
      <4> QED BY <1>1, <1>3, <4>1, Successor
    <3>3. d = c
          BY <3>1, <3>2 DEF c
    <3>4. pending_fragments' + PacketsLeft(d, Until(past[b])) = Fragmented(d)
      <4>1. /\ PacketsLeft(d, Until(past[a])) = PacketsLeft(d, Until(past[b])) + (run + 1)
            /\ PacketsLeft(d, Until(past[b])) \in Int
        <5>1. a + (run + 1) = b
              BY <1>4, <3>2
        <5>2. Chain(past, a, run + 1)
          <6> SUFFICES ASSUME NEW j \in 1 .. run + 1
                       PROVE  /\ a + j \in 1 .. Len(past) /\ past[a + j].call = past[a].call
                              /\ past[a + j].off = Until(past[a + (j - 1)])
              BY DEF Chain
          <6>1. CASE j = 1
            <7>1. a + j = k /\ a + (j - 1) = a
                  BY <1>4, <3>2, <6>1
            <7> QED BY <1>3, <3>2, <7>1
          <6>2. CASE j # 1
            <7>1. /\ j - 1 \in 1 .. run /\ k + (j - 1) = a + j
                  /\ k + ((j - 1) - 1) = a + (j - 1)
                  BY <1>4, <3>2, <6>2
            <7>2. /\ k + (j - 1) \in 1 .. Len(past) /\ past[k + (j - 1)].call = past[k].call
                  /\ past[k + (j - 1)].off = Until(past[k + ((j - 1) - 1)])
                  BY <7>1 DEF Chain
            <7> QED BY <3>2, <7>1, <7>2
          <6> QED BY <6>1, <6>2
        <5>3. past[b].call = past[a].call
              BY <1>7, <3>1, <3>3
        <5>4. run + 1 \in Nat
              BY <1>4
        <5>5. PacketsLeft(past[a].call, Until(past[a]))
                = PacketsLeft(past[a].call, Until(past[a + (run + 1)])) + (run + 1)
              BY <1>1, <1>4, <5>1, <5>2, <5>3, <5>4, RunPackets
        <5>6. PacketsLeft(d, Until(past[b])) \in Int
          <6>1. d \in S!Calls /\ Until(past[b]) \in Nat /\ Until(past[b]) < Len(Stream[d].body)
            <7>1. past[b].call \in S!Calls /\ Len(BodyOf(past[b])) \in Nat /\ past[b].off \in Nat
                  /\ Until(past[b]) \in past[b].off + 1 .. Len(BodyOf(past[b]))
                  BY <1>1, <1>4, CutIs
            <7>2. BodyOf(past[b]) = Stream[d].body /\ past[b].call = d
                  BY <1>7, <3>3 DEF BodyOf
            <7>3. ~(Until(past[b]) >= Len(BodyOf(past[b])))
                  BY <1>7 DEF IsFinal
            <7>4. d \in S!Calls /\ Len(Stream[d].body) \in Nat /\ past[b].off \in Nat
                  /\ Until(past[b]) \in past[b].off + 1 .. Len(Stream[d].body)
                  /\ ~(Until(past[b]) >= Len(Stream[d].body))
                  BY <7>1, <7>2, <7>3
            <7> DEFINE u == Until(past[b])
                       o == past[b].off
                       n == Len(Stream[d].body)
            <7>5. n \in Nat /\ o \in Nat /\ u \in o + 1 .. n /\ ~(u >= n)
                  BY <7>4
            <7>6. u \in Nat /\ u < n
              <8> HIDE DEF u, o, n
              <8> QED BY <7>5
            <7> QED BY <7>4, <7>6
          <6> QED BY <6>1, PacketsLeftIs
        <5> QED BY <3>1, <5>1, <5>5, <5>6
      <4>2. pending_fragments \in Int
            BY DEF FuTypeOK
      <4> QED BY <1>4, <3>1, <4>1, <4>2
    <3>5. \A j \in 1 .. Len(wire') : wire'[j].call = d => wire'[j].timestamp = timestamp
      <4>1. \A j \in 1 .. Len(wire') : \E n \in 1 .. Len(wire) : wire'[j] = wire[n]
            BY DEF Arrives
      <4>2. \A j \in 1 .. Len(wire) : wire[j].call = d => wire[j].timestamp = timestamp
            BY <3>1
      <4> SUFFICES ASSUME NEW j \in 1 .. Len(wire'), wire'[j].call = d
                   PROVE  wire'[j].timestamp = timestamp
          OBVIOUS
      <4>4. PICK n \in 1 .. Len(wire) : wire'[j] = wire[n]
            BY <4>1
      <4>5. wire[n].call = d
            BY <4>4
      <4> QED BY <4>2, <4>4, <4>5
    <3>6. active /\ UNCHANGED <<call, rtp_timestamp>>
          BY DEF Arrives
    <3>7. past[b].call = d /\ expected_seq' = NumberOf(b + 1)
          BY <1>7, <3>3
    <3> QED BY <1>4, <3>1, <3>4, <3>5, <3>6, <3>7 DEF Progress, PacketsLeft, Room, Fragmented
  <2> QED BY <1>1, <2>1, FateArrives
<1> QED BY <1>5, <1>9, <1>11, <1>12

\* A first fragment that is the whole NALU
LEMMA ArrivesWhole ==
    ASSUME NEW past, Known(past), FuTypeOK, NEW i, NEW k, Arrives(past, i, k),
           S!IsFu(past[k].call), past[k].off = 0,
           IsFinal(past[k]), Complete(Whole(past[k].call))
    PROVE  HeldOK(past)' /\ WindowOK(past)' /\ Fate(past)' /\ Kept(past)' = {} /\ Writes(past, k)
<1> DEFINE c == past[k].call
<1>1. /\ PastOK(past) /\ CallsRise(past) /\ GoesOn(past) /\ HeldOK(past) /\ Unstarted(past) /\ Fate(past)
      /\ Len(past) \in Nat
  <2>1. /\ PastOK(past) /\ CallsRise(past) /\ GoesOn(past) /\ HeldOK(past)
        /\ Unstarted(past) /\ Fate(past)
        BY DEF Known, Loss
  <2> QED BY <2>1 DEF PastOK
<1>2. k \in OnWire(past) /\ k \in 1 .. Len(past)
    BY DEF Arrives, OnWire
<1>3. Reset /\ written' = Append(written, Whole(c))
    BY DEF Complete
<1>4. ~active' /\ Kept(past)' = {} /\ \A j \in 1 .. Window : ~reorder'[j].used
    BY <1>3, NoneKept DEF Reset, FreeSlot
<1>5. HeldOK(past)' /\ WindowOK(past)'
    BY <1>4 DEF HeldOK, WindowOK
<1>6. c \notin damaged
  <2>1. \A l \in k .. k : l \in Around(past)
        BY <1>2 DEF Around
  <2>2. k \in Int /\ k \in Around(past)
        BY <1>2 DEF Around
  <2>3. ~Doomed(past, c, k)
        BY <1>1, <1>2, <2>1, <2>2, DoomedEnds
  <2> QED BY <1>1, <1>2, <2>3 DEF Unstarted
<1>7. c \in FuCalls
    BY <1>1, <1>2, CutIs DEF FuCalls
<1>8. c < call
    BY <1>2 DEF Known, PastSent
<1>9. ASSUME network = "lossy", NEW l \in OnWire(past)' PROVE c < past[l].call
  <2>1. l \in OnWire(past) /\ l # k /\ l \in 1 .. Len(past)
        BY <1>9 DEF Arrives, OnWire
  <2>2. l > k
    <3>1. k <= l
          BY <1>9, <2>1 DEF Arrives
    <3> QED BY <1>2, <2>1, <3>1
  <2>3. c <= past[l].call /\ c # past[l].call
        BY <1>1, <1>2, <2>1, <2>2 DEF CallsRise
  <2>4. c \in Int /\ past[l].call \in Int
    <3>1. c \in S!Calls /\ past[l].call \in S!Calls
          BY <1>1, <1>2, <2>1, CutIs
    <3> QED BY <3>1 DEF S!Calls
  <2> QED BY <2>3, <2>4
<1>12. Whole(c) \in Nalus
    BY <1>1, <1>2, NaluSoFar
<1>10. Writes(past, k)
    BY <1>3, <1>6, <1>7, <1>8, <1>9, <1>12 DEF Writes
<1>11. Fate(past)'
  <2>1. Whole(c) \in ToSet(written') /\ \A n \in ToSet(written) : n \in ToSet(written')
    <3>1. written \in Seq(Nalus)
          BY DEF FuTypeOK
    <3> QED BY <1>3, <1>12, <3>1, GrownFile
  <2>2. ASSUME NEW d \in FuCalls \ damaged, Progress(past, d) PROVE d = c
    <3>1. PICK a \in 1 .. Len(past) : past[a].call = d /\ expected_seq = NumberOf(a + 1) /\ active
          BY <2>2 DEF Progress
    <3>2. Held(past, a)
          BY <1>1, <3>1 DEF HeldOK
    <3> QED BY <1>1, <3>1, <3>2, SameCallArrives
  <2> QED BY <1>1, <2>1, <2>2, FateArrives
<1> QED BY <1>4, <1>5, <1>10, <1>11

\* A first fragment, and more to come: nothing of the NALU before is left in
\* the window.
LEMMA ArrivesFirst ==
    ASSUME NEW past, Known(past), FuTypeOK, NEW i, NEW k, Arrives(past, i, k),
           S!IsFu(past[k].call), past[k].off = 0, ~IsFinal(past[k]),
           active' = TRUE, timestamp' = wire[i].timestamp, expected_seq' = NumberOf(k + 1),
           pending_fragments' = 1, UNCHANGED <<reorder, written>>
    PROVE  HeldOK(past)' /\ WindowOK(past)' /\ Fate(past)' /\ Kept(past)' = Kept(past)
<1> DEFINE c == past[k].call
<1>1. /\ PastOK(past) /\ CallsRise(past) /\ GoesOn(past) /\ HeldOK(past) /\ Unstarted(past)
      /\ WindowOK(past) /\ NaluPast(past) /\ SlotPast(past) /\ Sized(past) /\ Timed /\ Fate(past)
      /\ Len(past) \in Nat
  <2>1. /\ PastOK(past) /\ CallsRise(past) /\ GoesOn(past) /\ HeldOK(past)
        /\ Unstarted(past) /\ WindowOK(past) /\ NaluPast(past) /\ SlotPast(past) /\ Sized(past)
        /\ Timed /\ Fate(past)
        BY DEF Known, Loss, RecvPast
  <2> QED BY <2>1 DEF PastOK
<1>2. /\ k \in OnWire(past) /\ k \in 1 .. Len(past)
      /\ OnWire(past)' \subseteq OnWire(past)
      /\ network = "repeat" \/ OnWire(past)' = OnWire(past) \ {k}
      /\ \A l \in OnWire(past) : l \in OnWire(past)' \/ l = k
      /\ UNCHANGED <<call, network, damaged>>
    BY DEF Arrives, OnWire
<1>3. \A l \in OnWire(past) : k <= l
  <2>1. PICK m \in OnWire(past) :
          /\ \A l \in OnWire(past) : m <= l
          /\ past[m].call = past[k].call
          /\ k = m \/ past[m].off # 0
        BY DEF Arrives
  <2>2. m <= k /\ m \in 1 .. Len(past)
        BY <1>2, <2>1 DEF OnWire
  <2>3. m < k => past[k].off # 0
        BY <1>1, <1>2, <2>1, <2>2 DEF CallsRise
  <2>4. m = k
        BY <1>2, <2>2, <2>3
  <2> QED BY <2>1, <2>4
<1>4. Kept(past)' = Kept(past)
    BY DEF Kept
<1>5. Around(past)' \subseteq Around(past) /\ Unsent(past)' = Unsent(past)
    BY <1>2, <1>4 DEF Around, Unsent
<1>6. /\ \A l \in k .. Len(past) :
           /\ l \notin Kept(past)
           /\ S!IsFu(past[l].call) /\ (network = "shuffle" \/ past[l].call \notin damaged) =>
                l \in OnWire(past) \cup Unsent(past)
      /\ c \in damaged => Doomed(past, c, k)
    BY <1>1, <1>2 DEF Unstarted
<1>7. Held(past, k)'
  <2>1. \A l \in OnWire(past)' : l > k \/ (l = k /\ network = "repeat")
    <3> SUFFICES ASSUME NEW l \in OnWire(past)' PROVE l > k \/ (l = k /\ network = "repeat")
        OBVIOUS
    <3>1. k <= l /\ l \in 1 .. Len(past) /\ (l = k => network = "repeat")
          BY <1>2, <1>3 DEF OnWire
    <3> QED BY <1>2, <3>1
  <2>2. \A l \in Kept(past) : ~(l > k)
    <3> SUFFICES ASSUME NEW l \in Kept(past), l > k PROVE FALSE
        OBVIOUS
    <3>1. l \in 1 .. Len(past)
          BY DEF Kept
    <3>2. l \in k .. Len(past)
          BY <1>1, <1>2, <3>1
    <3> QED BY <1>6, <3>2
  <2>3. ASSUME network = "shuffle" \/ c \notin damaged, NEW l \in k + 1 .. Len(past),
               past[l].call = c \/ (network = "shuffle" /\ S!IsFu(past[l].call))
        PROVE  l \in Around(past)' \cup Unsent(past)
    <3>1. l \in k .. Len(past) /\ l # k
          BY <1>1, <1>2
    <3>2. l \in OnWire(past) \cup Unsent(past)
          BY <1>6, <2>3, <3>1
    <3> QED BY <1>2, <3>1, <3>2 DEF Around
  <2>4. ASSUME c \in damaged PROVE Doomed(past, c, k + 1)'
    <3>1. Doomed(past, c, k + 1)
      <4>1. k \in Around(past)
            BY <1>2 DEF Around
      <4>2. \A l \in k .. Len(past) : l \notin Around(past) => l \in k + 1 .. Len(past)
            BY <1>1, <1>2, <4>1
      <4> QED BY <1>6, <2>4, <4>2 DEF Doomed
    <3> QED BY <1>2, <1>5, <3>1, DoomedStands
  <2> QED BY <1>2, <1>4, <1>5, <2>1, <2>2, <2>3, <2>4 DEF Held
<1>8. HeldOK(past)'
    BY <1>1, <1>2, <1>7, HeldIsEnough
<1>9. network = "shuffle" => Kept(past) = {}
  <2> SUFFICES ASSUME network = "shuffle", NEW l \in Kept(past) PROVE FALSE
      OBVIOUS
  <2>1. active /\ l \in 1 .. Len(past)
        BY <1>1 DEF WindowOK, Kept
  <2>2. PICK a \in 1 .. Len(past) : expected_seq = NumberOf(a + 1) /\ Held(past, a)
        BY <1>1, <2>1, WaitsFor
  <2>3. l > a + 1 /\ past[l].call = past[a].call
        BY <1>1, <2>2 DEF WindowOK
  <2>4. l < k
    <3>1. l \notin k .. Len(past)
          BY <1>6
    <3> QED BY <1>1, <1>2, <2>1, <3>1
  <2>5. a + 1 \in 1 .. Len(past) /\ a + 1 \in a + 1 .. Len(past) /\ a <= a + 1 /\ a + 1 <= l
        BY <2>1, <2>3
  <2>6. past[a + 1].call = past[a].call
        BY <1>1, <2>1, <2>3, <2>5, Between
  <2>7. a + 1 \in Around(past) \cup Unsent(past)
        BY <2>2, <2>5, <2>6 DEF Held
  <2>8. a + 1 \notin OnWire(past)
    <3>1. a + 1 < k
          BY <1>2, <2>1, <2>4, <2>5
    <3> QED BY <1>2, <1>3, <3>1
  <2>9. a + 1 \notin Kept(past)
    <3>1. \A x \in Kept(past) : x > a + 1
          BY <1>1, <2>2 DEF WindowOK
    <3>2. ~(a + 1 > a + 1)
          OBVIOUS
    <3> QED BY <3>1, <3>2
  <2>10. a + 1 \notin Unsent(past)
    <3>1. l \in (a + 1) + 1 .. Len(past)
          BY <2>1, <2>3
    <3> QED BY <2>3, <2>6, <3>1 DEF Unsent
  <2> QED BY <2>7, <2>8, <2>9, <2>10 DEF Around
<1>10. WindowOK(past)'
    BY <1>1, <1>2, <1>4, <1>9 DEF WindowOK
<1>11. Progress(past, c)'
  <2>1. 1 + PacketsLeft(c, Until(past[k])) = Fragmented(c)
        BY <1>1, <1>2, StartPackets
  <2>2. i \in 1 .. Len(wire) /\ wire[i].call = c
        BY DEF Arrives, IsCut
  <2>3. \A j \in 1 .. Len(wire') : wire'[j].call = c => wire'[j].timestamp = timestamp'
    <3> SUFFICES ASSUME NEW j \in 1 .. Len(wire'), wire'[j].call = c
                 PROVE  wire'[j].timestamp = timestamp'
        OBVIOUS
    <3>1. PICK n \in 1 .. Len(wire) : wire'[j] = wire[n]
          BY DEF Arrives
    <3>2. wire[n].call = wire[i].call
          BY <2>2, <3>1
    <3>3. wire[n].timestamp = wire[i].timestamp
          BY <1>1, <2>2, <3>2 DEF Timed
    <3> QED BY <3>1, <3>3
  <2>4. c = call => timestamp' = rtp_timestamp
        BY <1>1, <2>2 DEF Timed
  <2>5. UNCHANGED <<call, rtp_timestamp>>
        BY DEF Arrives
  <2> QED BY <1>2, <2>1, <2>3, <2>4, <2>5 DEF Progress, PacketsLeft, Room, Fragmented
<1>12. Fate(past)'
  <2>1. ASSUME NEW d \in FuCalls \ damaged, Progress(past, d) PROVE d = c
    <3>1. PICK a \in 1 .. Len(past) : past[a].call = d /\ expected_seq = NumberOf(a + 1) /\ active
          BY <2>1 DEF Progress
    <3>2. Held(past, a)
          BY <1>1, <3>1 DEF HeldOK
    <3> QED BY <1>1, <3>1, <3>2, SameCallArrives
  <2> HIDE DEF c
  <2> QED BY <1>1, <1>11, <2>1, FateArrives DEF c
<1> QED BY <1>4, <1>8, <1>10, <1>12

\* Whatever the packet is
LEMMA ArrivesAll ==
    ASSUME NEW past, Known(past), FuTypeOK, NEW i, NEW k, Arrives(past, i, k), ReadWell(wire[i])
    PROVE  /\ HeldOK(past)' /\ WindowOK(past)' /\ Fate(past)' /\ ~expired'
           /\ Kept(past)' \subseteq Kept(past) \cup {k}
           /\ k \in Kept(past)' => k \in Kept(past) \/ past[k].off # 0
           /\ UNCHANGED written \/ Writes(past, k)
<1> DEFINE p == wire[i]
<1>1. /\ PastOK(past) /\ RecvPast(past) /\ ~expired
      /\ k \in 1 .. Len(past) /\ k \in Int /\ IsCut(p, past[k], NumberOf(k)) /\ p \in Packets
      /\ p.seq = NumberOf(k) /\ (p.fu <=> S!IsFu(past[k].call))
      /\ (p.start <=> S!IsFu(past[k].call) /\ past[k].off = 0)
  <2>1. PastOK(past) /\ RecvPast(past) /\ ~expired
        BY DEF Known, Loss
  <2>2. k \in 1 .. Len(past) /\ IsCut(p, past[k], NumberOf(k)) /\ p \in Packets
        BY DEF Arrives, OnWire
  <2> QED BY <2>1, <2>2 DEF IsCut
<1>2. CASE ~p.fu /\ UNCHANGED fuVars
  <2>1. ~expired' /\ UNCHANGED written
        BY <1>1, <1>2 DEF fuVars, fuCtx
  <2> QED BY <1>1, <1>2, <2>1, ArrivesIgnored
<1>3. CASE p.fu /\ MissingStart(p)
  <2>1. ~expired' /\ UNCHANGED <<written, fuVars>> /\ ~active /\ past[k].off # 0
        BY <1>1, <1>3 DEF MissingStart, fuVars, fuCtx
  <2> QED BY <1>1, <2>1, ArrivesIgnored
<1>4. CASE p.fu /\ IgnoreDuplicate(p)
  <2>1. ~expired' /\ UNCHANGED <<written, fuVars>> /\ past[k].off # 0
        BY <1>1, <1>4 DEF IgnoreDuplicate, Continues, fuVars, fuCtx
  <2>2. expected_seq = NumberOf(k + 1)
    <3>1. (NumberOf(k) + 1) % SeqModulus = NumberOf(k + 1)
          BY <1>1, NumberOfPlus
    <3> QED BY <1>1, <1>4, <3>1 DEF IgnoreDuplicate, Duplicate, SeqAfter
  <2> QED BY <1>1, <2>1, <2>2, ArrivesIgnored
<1>5. CASE p.fu /\ (DiscardStale(p) \/ DiscardUnordered(p))
  <2>1. ~expired' /\ UNCHANGED written
        BY <1>5, NoneKept DEF DiscardStale, DiscardUnordered
  <2> QED BY <1>1, <1>5, <2>1, ArrivesDiscards
<1>6. CASE p.fu /\ Store(p) /\ CutRight(p)
  <2>1. ~expired' /\ UNCHANGED written
        BY <1>1, <1>6 DEF Store
  <2> QED BY <1>1, <1>6, <2>1, ArrivesAhead
<1>7. CASE p.fu /\ Start(p)
  <2>1. /\ past[k].off = 0 /\ S!IsFu(past[k].call)
        /\ \/ p.end /\ IsFinal(past[k]) /\ Complete(Whole(past[k].call))
           \/ /\ ~p.end /\ active' = TRUE /\ expected_seq' = NumberOf(k + 1)
              /\ UNCHANGED <<reorder, written>>
        BY <1>1, <1>7, StartIs
  <2>2. CASE IsFinal(past[k]) /\ Complete(Whole(past[k].call))
    <3>1. ~expired'
          BY <2>2, NoneKept DEF Complete
    <3> QED BY <1>1, <2>1, <2>2, <3>1, ArrivesWhole
  <2>3. CASE /\ ~p.end /\ active' = TRUE /\ expected_seq' = NumberOf(k + 1)
             /\ UNCHANGED <<reorder, written>>
    <3>1. ~IsFinal(past[k])
          BY <1>1, <2>1, <2>3 DEF IsCut
    <3>2. timestamp' = p.timestamp /\ pending_fragments' = 1 /\ ~expired'
          BY <1>7, <2>3 DEF Start, Begin
    <3> QED BY <1>1, <2>1, <2>3, <3>1, <3>2, ArrivesFirst
  <2> QED BY <2>1, <2>2, <2>3
<1>8. CASE p.fu /\ Continue(p) /\ CutRight(p)
  <2>1. /\ ~p.start /\ active /\ S!IsFu(past[k].call)
        /\ k > 1 /\ expected_seq = NumberOf(k) /\ past[k - 1].call = past[k].call
        BY <1>1, <1>8, ContinueRuns
  <2>2. past[k].off # 0
        BY <1>1, <2>1
  <2>3. PICK run \in 0 .. Window :
          /\ k + run \in 1 .. Len(past) /\ past[k + run].call = past[k].call
          /\ Chain(past, k, run)
          /\ \A j \in 1 .. run : k + j \in Kept(past)
          /\ \/ IsFinal(past[k + run]) /\ Complete(Whole(past[k + run].call))
             \/ /\ ~IsFinal(past[k + run])
                /\ run < Window => k + run + 1 \notin Kept(past)
                /\ expected_seq' = NumberOf(k + run + 1)
                /\ pending_fragments' = pending_fragments + 1 + run
                /\ \A n \in 1 .. Window :
                     \/ reorder'[n] = reorder[n]
                     \/ /\ ~reorder'[n].used /\ reorder[n].used
                        /\ \E j \in 1 .. run : reorder[n].seq = NumberOf(k + j)
                /\ \A j \in 1 .. run : \E n \in 1 .. Window :
                     /\ reorder[n].used /\ reorder[n].seq = NumberOf(k + j)
                     /\ ~reorder'[n].used
                /\ UNCHANGED <<active, timestamp, expired, written>>
        BY <1>1, <1>8, ContinueRuns
  <2>4. CASE IsFinal(past[k + run]) /\ Complete(Whole(past[k + run].call))
    <3>1. ~expired'
          BY <2>4, NoneKept DEF Complete
    <3>2. /\ HeldOK(past)' /\ WindowOK(past)' /\ Fate(past)' /\ Kept(past)' = {}
          /\ Writes(past, k)
          BY <2>1, <2>2, <2>3, <2>4, ArrivesLast
    <3> QED BY <3>1, <3>2
  <2>5. CASE ~IsFinal(past[k + run])
    <3>1. /\ run < Window => k + run + 1 \notin Kept(past)
          /\ expected_seq' = NumberOf(k + run + 1)
          /\ pending_fragments' = pending_fragments + 1 + run
          /\ \A n \in 1 .. Window :
               \/ reorder'[n] = reorder[n]
               \/ /\ ~reorder'[n].used /\ reorder[n].used
                  /\ \E j \in 1 .. run : reorder[n].seq = NumberOf(k + j)
          /\ \A j \in 1 .. run : \E n \in 1 .. Window :
               /\ reorder[n].used /\ reorder[n].seq = NumberOf(k + j)
               /\ ~reorder'[n].used
          /\ UNCHANGED <<active, timestamp, expired, written>>
          BY <2>3, <2>5
    <3>2. /\ HeldOK(past)' /\ WindowOK(past)' /\ Fate(past)' /\ Kept(past)' \subseteq Kept(past)
          BY <2>1, <2>2, <2>3, <2>5, <3>1, ArrivesInTurn
    <3>3. ~expired' /\ UNCHANGED written
          BY <1>1, <3>1
    <3> QED BY <3>2, <3>3
  <2> QED BY <2>3, <2>4, <2>5
<1> QED BY <1>2, <1>3, <1>4, <1>5, <1>6, <1>7, <1>8 
    DEF ReadWell, Handled, HandlePacket

\* The NALU that is written was not hit and has nothing left to lose.
LEMMA SparedArrives ==
    ASSUME NEW past, Spared(past), DistinctNalus, FuTypeOK, NEW i, NEW k, Arrives(past, i, k),
           UNCHANGED written \/ Writes(past, k)
    PROVE  Spared(past)'
<1> SUFFICES ASSUME NEW c \in FuCalls, Whole(c) \in ToSet(written')
             PROVE  /\ c \notin damaged /\ c < call
                    /\ network = "lossy" => \A l \in OnWire(past)' : c < past[l].call
    BY DEF Spared, Arrives, FuCalls, Whole, Buffered
<1>1. CASE Whole(c) \in ToSet(written)
    BY <1>1 DEF Spared, Arrives
<1>2. CASE Whole(c) \notin ToSet(written)
  <2>1. Writes(past, k)
        BY <1>2
  <2>2. Whole(c) = Whole(past[k].call)
    <3>1. written \in Seq(Nalus) /\ written' = Append(written, Whole(past[k].call))
          BY <2>1 DEF FuTypeOK, Writes
    <3> QED BY <1>2, <2>1, <3>1, GrownFile DEF Writes
  <2>3. past[k].call \in FuCalls
        BY <2>1 DEF Writes
  <2>4. c = past[k].call
        BY <2>2, <2>3 DEF DistinctNalus
  <2> QED BY <2>1, <2>4 DEF Writes
<1> QED BY <1>1, <1>2

\* A packet that arrives keeps the invariant.
LEMMA LossArrives ==
    ASSUME TypeInv, NEW past, Known(past), Arrive, misread' = 0
    PROVE  /\ Tame' /\ PastSent(past)' /\ Loss(past)'
           /\ DistinctNalus /\ Spared(past) => Spared(past)'
<1>1. /\ PastOK(past) /\ WirePast(past) /\ WireRises(past) /\ Tame /\ PastSent(past) /\ FuTypeOK
      /\ CallsRise(past) /\ Sized(past) /\ GoesOn(past) /\ Timed /\ DamagedBefore
    BY DEF Known, Loss, TypeInv
<1>2. PICK i, k : Arrives(past, i, k) /\ ReadWell(wire[i]) /\ WireRises(past)'
    BY <1>1, ArrivesIs
<1>3. /\ HeldOK(past)' /\ WindowOK(past)' /\ Fate(past)' /\ ~expired'
      /\ Kept(past)' \subseteq Kept(past) \cup {k}
      /\ k \in Kept(past)' => k \in Kept(past) \/ past[k].off # 0
      /\ UNCHANGED written \/ Writes(past, k)
    BY <1>1, <1>2, ArrivesAll
<1>4. KeptBehind(past)' /\ Unstarted(past)'
    BY <1>2, <1>3, ArrivesLeaves
<1>5. UNCHANGED <<call, offset, rtp_seq, rtp_timestamp, network, damaged>>
    BY <1>2 DEF Arrives
<1>6. Tame' /\ PastSent(past)' /\ DamagedBefore'
    BY <1>1, <1>5 DEF Tame, PastSent, DamagedBefore
<1>7. CallsRise(past)' /\ Sized(past)'
    BY <1>1 DEF CallsRise, Sized, Room
<1>8. GoesOn(past)'
    BY <1>1, <1>5 DEF GoesOn
<1>9. Timed'
  <2>1. \A j \in 1 .. Len(wire') : \E n \in 1 .. Len(wire) : wire'[j] = wire[n]
        BY <1>2 DEF Arrives
  <2>2. ASSUME NEW j \in 1 .. Len(wire')
        PROVE  /\ wire'[j].call = call => wire'[j].timestamp = rtp_timestamp
               /\ \A l \in 1 .. Len(wire') : wire'[j].call = wire'[l].call =>
                    wire'[j].timestamp = wire'[l].timestamp
    <3>1. PICK n \in 1 .. Len(wire) : wire'[j] = wire[n]
          BY <2>1
    <3>2. wire[n].call = call => wire[n].timestamp = rtp_timestamp
          BY <1>1 DEF Timed
    <3>3. ASSUME NEW l \in 1 .. Len(wire'), wire'[j].call = wire'[l].call
          PROVE  wire'[j].timestamp = wire'[l].timestamp
      <4>1. PICK m \in 1 .. Len(wire) : wire'[l] = wire[m]
            BY <2>1
      <4>2. wire[n].call = wire[m].call
            BY <3>1, <3>3, <4>1
      <4>3. wire[n].timestamp = wire[m].timestamp
            BY <1>1, <4>2 DEF Timed
      <4> QED BY <3>1, <4>1, <4>3
    <3> QED BY <3>1, <3>2, <3>3
  <2> QED BY <1>5, <2>2 DEF Timed
<1>10. ASSUME DistinctNalus, Spared(past) PROVE Spared(past)'
    BY <1>1, <1>2, <1>3, <1>10, SparedArrives
<1> QED BY <1>2, <1>3, <1>4, <1>6, <1>7, <1>8, <1>9, <1>10 DEF Loss

-----------------------------------------------------------------------------
(* A packet is sent, or the sender gives up.                               *)

\* The sender cuts a piece and sends it, or it fails to, having cut it or not.
Sent(past, longer) ==
    /\ call \in S!Calls /\ UNCHANGED <<fuVars, network>>
    /\ PastOK(longer) /\ Len(longer) \in Nat /\ Len(past) <= Len(longer)
    /\ \A k \in 1 .. Len(past) : longer[k] = past[k]
    /\ \A k \in 1 .. Len(longer) :
         k \in 1 .. Len(past) \/ (k = Len(past) + 1 /\ k = Len(longer) /\ longer[k] = NextCut)
    /\ Kept(longer)' = Kept(past)
    /\ \/ /\ Len(longer) = Len(past) + 1 /\ OnWire(longer)' = OnWire(past) \cup {Len(longer)}
          /\ Len(wire') = Len(wire) + 1 /\ wire'[Len(wire) + 1] = S!Packet(call)
          /\ S!Packet(call).seq = NumberOf(Len(longer))
          /\ \A i \in 1 .. Len(wire) : wire'[i] = wire[i]
          /\ damaged' = damaged
          /\ \/ call' = call + 1 /\ offset' = 0 /\ IsFinal(NextCut)
             \/ call' = call /\ offset' # 0 /\ ~IsFinal(NextCut) /\ UNCHANGED rtp_timestamp
       \/ /\ OnWire(longer)' = OnWire(past) /\ UNCHANGED wire
          /\ damaged' = damaged \cup {call} /\ call' = call + 1 /\ offset' = 0

\* Every Send is like that.
LEMMA SendIs ==
    ASSUME NEW left, Numbers(left), TypeInv, NEW past \in Seq(Cuts), Past(past, left), Tame,
           NEW longer \in Seq(Cuts), longer = past \/ longer = Append(past, NextCut),
           Past(longer, left)', Send
    PROVE  Sent(past, longer)
<1>1. /\ call \in S!Calls /\ offset \in Nat /\ offset < Len(Stream[call].body)
      /\ Len(Stream[call].body) \in Nat /\ wire \in Seq(Packets) /\ Len(wire) \in Nat
      /\ rtp_seq \in SeqNumbers /\ rtp_timestamp \in Nat
  <2>1. call \in S!Calls /\ wire \in Seq(Packets)
        BY DEF Send, S!SendChunk, S!SendChunkFails, TypeInv
  <2>2. /\ offset \in Nat /\ offset < Len(Stream[call].body)
        /\ rtp_seq \in SeqNumbers /\ rtp_timestamp \in Nat
        BY <2>1 DEF TypeInv, SenderType
  <2> QED BY <2>1, <2>2, StreamIs
<1>2. PastOK(past) /\ PastOK(longer) /\ WirePast(past) /\ SlotPast(past)
  <2>1. PastOK(longer)
        BY DEF Past, PastOK, Until, BodyOf
  <2> QED BY <2>1 DEF Past, RecvPast
<1>3. /\ Len(past) \in Nat /\ Len(longer) \in Nat /\ Len(past) <= Len(longer)
      /\ \A k \in 1 .. Len(past) : longer[k] = past[k]
      /\ \A k \in 1 .. Len(longer) :
           k \in 1 .. Len(past) \/ (k = Len(past) + 1 /\ k = Len(longer) /\ longer[k] = NextCut)
      /\ longer = past \/ (longer # past /\ Len(longer) = Len(past) + 1)
  <2>1. CASE longer = past
        BY <2>1
  <2>2. CASE longer = Append(past, NextCut)
    <3>1. Len(past) \in Nat /\ Len(longer) = Len(past) + 1
          BY <2>2
    <3>2. /\ \A k \in 1 .. Len(past) : longer[k] = past[k]
          /\ longer[Len(past) + 1] = NextCut
          BY <2>2
    <3> QED BY <3>1, <3>2
  <2> QED BY <2>1, <2>2
<1>4. UNCHANGED <<fuVars, network>>
    BY DEF Send
<1>5. \A k \in 1 .. Len(past) : k \in 1 .. Len(longer)
    BY <1>3
<1>6. Kept(longer)' = Kept(past)
  <2>0. UNCHANGED reorder
        BY <1>4 DEF fuVars, fuCtx
  <2>1. ASSUME NEW l \in 1 .. Len(longer), NEW i \in 1 .. Window,
               reorder[i].used, reorder[i].seq = NumberOf(l)
        PROVE  l \in Kept(past)
    <3>1. PICK x \in Kept(past) : x \in 1 .. Len(past) /\ reorder[i].seq = NumberOf(x)
          BY <1>2, <2>1, KeptIs
    <3>2. NumberOf(l) = NumberOf(x) /\ x \in 1 .. Len(longer)
          BY <1>5, <2>1, <3>1
    <3>3. l = x
          BY <1>2, <3>2, PiecesDiffer
    <3> QED BY <3>1, <3>3
  <2>2. Kept(past) \subseteq Kept(longer)'
        BY <1>5, <2>0 DEF Kept, NumberOf
  <2>3. Kept(longer)' \subseteq Kept(past)
        BY <2>0, <2>1 DEF Kept, NumberOf
  <2> QED BY <2>2, <2>3
<1>7. ASSUME NEW l \in 1 .. Len(longer), NEW i \in 1 .. Len(wire), wire[i].seq = NumberOf(l)
      PROVE  l \in OnWire(past)
  <2>1. PICK x \in OnWire(past) : IsCut(wire[i], past[x], NumberOf(x))
        BY <1>2, OnWireIs
  <2>2. x \in 1 .. Len(past) /\ wire[i].seq = NumberOf(x)
        BY <2>1 DEF OnWire, IsCut
  <2>3. l = x
        BY <1>2, <1>5, <1>7, <2>2, PiecesDiffer
  <2> QED BY <2>1, <2>3
<1>8. CASE S!SendChunk /\ wire' = Append(wire, S!Packet(call)) /\ UNCHANGED damaged
  <2>1. /\ Len(wire') = Len(wire) + 1 /\ wire'[Len(wire) + 1] = S!Packet(call)
        /\ \A i \in 1 .. Len(wire) : wire'[i] = wire[i]
    <3>1. S!Packet(call) \in Packets
          BY <1>1, PacketType
    <3> QED BY <1>1, <1>8, <3>1, AppendProperties
  <2>2. rtp_seq = NumberOf(Len(past) + 1) /\ rtp_seq' = NumberOf(Len(longer) + 1)
        BY DEF Past, SenderPast, NumberOf
  <2>3. longer # past
    <3> SUFFICES ASSUME longer = past PROVE FALSE
        OBVIOUS
    <3>1. rtp_seq' = rtp_seq
          BY <2>2
    <3>2. rtp_seq' = NumberOf(Len(past) + 2)
          BY <1>3, <1>8, <2>2, CountIsNext DEF S!SendChunk
    <3>3. Len(past) + 1 = Len(past) + 2
      <4>1. SeqModulus > 1 /\ SeqModulus \in Nat
            BY WindowAssumption
      <4>2. /\ Len(past) + 1 \in Int /\ Len(past) + 2 \in Int
            /\ (Len(past) + 1) - (Len(past) + 2) < SeqModulus
            /\ (Len(past) + 2) - (Len(past) + 1) < SeqModulus
            BY <1>3, <4>1
      <4> QED BY <2>2, <3>1, <3>2, <4>2, NumbersDiffer
    <3> QED BY <1>3, <3>3
  <2>4. Len(longer) = Len(past) + 1 /\ Len(longer) \in 1 .. Len(longer)
        BY <1>3, <2>3
  <2>5. OnWire(longer)' = OnWire(past) \cup {Len(longer)}
    <3>1. S!Packet(call).seq = NumberOf(Len(longer))
          BY <2>2, <2>4 DEF S!Packet
    <3>2. ASSUME NEW l \in OnWire(longer)' PROVE l \in OnWire(past) \cup {Len(longer)}
      <4>1. PICK i \in 1 .. Len(wire') : wire'[i].seq = NumberOf(l) /\ l \in 1 .. Len(longer)
            BY DEF OnWire, NumberOf
      <4>2. CASE i \in 1 .. Len(wire)
            BY <1>7, <2>1, <4>1, <4>2
      <4>3. CASE i = Len(wire) + 1
        <5>1. NumberOf(l) = NumberOf(Len(longer))
              BY <2>1, <3>1, <4>1, <4>3
        <5>2. l = Len(longer)
              BY <1>2, <2>4, <4>1, <5>1, PiecesDiffer
        <5> QED BY <5>2
      <4> QED BY <1>1, <2>1, <4>1, <4>2, <4>3
    <3>3. ASSUME NEW l \in OnWire(past) PROVE l \in OnWire(longer)'
      <4>1. PICK i \in 1 .. Len(wire) : wire[i].seq = NumberOf(l) /\ l \in 1 .. Len(past)
            BY DEF OnWire
      <4>2. i \in 1 .. Len(wire') /\ wire'[i].seq = NumberOf(l) /\ l \in 1 .. Len(longer)
            BY <1>1, <1>5, <2>1, <4>1
      <4> QED BY <4>2 DEF OnWire, NumberOf
    <3>4. Len(longer) \in OnWire(longer)'
      <4>1. Len(wire) + 1 \in 1 .. Len(wire') /\ wire'[Len(wire) + 1].seq = NumberOf(Len(longer))
            BY <1>1, <2>1, <3>1
      <4> QED BY <2>4, <4>1 DEF OnWire, NumberOf
    <3> QED BY <3>2, <3>3, <3>4
  <2>6. \/ call' = call + 1 /\ offset' = 0 /\ IsFinal(NextCut)
        \/ call' = call /\ offset' # 0 /\ ~IsFinal(NextCut) /\ UNCHANGED rtp_timestamp
    <3>1. CASE S!IsLast(call) /\ S!NextCall
          BY <3>1 DEF S!NextCall, NextCut, IsFinal, Until, BodyOf, S!IsLast
    <3>2. CASE ~S!IsLast(call) /\ offset' = offset + S!ChunkSize(call) /\ UNCHANGED call
      <4>1. offset' # 0
        <5>1. S!ChunkSize(call) \in 1 .. Len(Stream[call].body) - offset
              BY <1>1, ChunkIs
        <5> QED BY <1>1, <3>2, <5>1
      <4>2. ~IsFinal(NextCut)
            BY <3>2 DEF NextCut, IsFinal, Until, BodyOf, S!IsLast
      <4>3. rtp_timestamp' = rtp_timestamp + 0
            BY <1>8, <3>2 DEF S!SendChunk, S!Count
      <4> QED BY <1>1, <3>2, <4>1, <4>2, <4>3
    <3> QED BY <1>8, <3>1, <3>2 DEF S!SendChunk
  <2>7. damaged' = damaged
        BY <1>8
  <2>8. S!Packet(call).seq = NumberOf(Len(longer))
        BY <2>2, <2>4 DEF S!Packet
  <2> QED BY <1>1, <1>2, <1>3, <1>4, <1>6, <2>1, <2>4, <2>5, <2>6, <2>7, <2>8 DEF Sent
<1>9. CASE S!SendChunkFails /\ damaged' = Damage(call) /\ UNCHANGED wire
  <2>1. damaged' = damaged \cup {call} /\ call' = call + 1 /\ offset' = 0 /\ UNCHANGED wire
        BY <1>9 DEF Tame, Damage, S!SendChunkFails, S!NextCall
  <2>2. OnWire(longer)' = OnWire(past)
        BY <1>5, <1>7, <2>1 DEF OnWire, NumberOf
  <2> QED BY <1>1, <1>2, <1>3, <1>4, <1>6, <2>1, <2>2 DEF Sent
<1> QED BY <1>8, <1>9 DEF Send

\* What the sender cuts keeps to the order of the stream.
LEMMA SentPieces ==
    ASSUME TypeInv, NEW past, Known(past), NEW longer, Sent(past, longer)
    PROVE  /\ CallsRise(longer)' /\ Sized(longer)' /\ GoesOn(longer)' /\ DamagedBefore'
           /\ PastSent(longer)' /\ Unsent(past) \subseteq Unsent(longer)'
           /\ \A k \in 1 .. Len(past) :
                /\ k \in 1 .. Len(longer) /\ longer[k] = past[k] /\ past[k].call \in Int
                /\ past[k].call < call \/ (past[k].call = call /\ offset # 0 /\ ~IsFinal(past[k]))
           /\ \A k \in 1 .. Len(longer) : k \notin 1 .. Len(past) =>
                /\ k = Len(past) + 1 /\ longer[k].call = call
                /\ k \in OnWire(longer)' \/ k \in Unsent(longer)'
           /\ call \in Int /\ Len(past) \in Nat /\ Len(longer) \in Nat
<1>1. /\ PastOK(past) /\ PastSent(past) /\ CallsRise(past) /\ Sized(past) /\ GoesOn(past)
      /\ DamagedBefore
    BY DEF Known, Loss
<1>2. call \in S!Calls /\ call \in Int /\ Len(past) \in Nat /\ Len(longer) \in Nat
      /\ offset \in Nat /\ offset < Len(Stream[call].body)
  <2>1. call \in S!Calls /\ Len(longer) \in Nat
        BY DEF Sent
  <2>2. Len(past) \in Nat
        BY <1>1 DEF PastOK
  <2>3. call \in Int
        BY <2>1 DEF S!Calls
  <2>4. offset \in Nat /\ offset < Len(Stream[call].body)
        BY <2>1 DEF TypeInv, SenderType
  <2> QED BY <2>1, <2>2, <2>3, <2>4
<1>3. /\ \A k \in 1 .. Len(past) : k \in 1 .. Len(longer) /\ longer[k] = past[k]
      /\ \A k \in 1 .. Len(longer) : k \notin 1 .. Len(past) =>
           k = Len(past) + 1 /\ k = Len(longer) /\ longer[k] = NextCut
      /\ NextCut.call = call /\ NextCut.off = offset
  <2>1. Len(past) <= Len(longer)
        BY DEF Sent
  <2>2. \A k \in 1 .. Len(past) : k \in 1 .. Len(longer)
        BY <1>2, <2>1
  <2> QED BY <2>2 DEF Sent, NextCut
<1>4. ASSUME NEW k \in 1 .. Len(past)
      PROVE  /\ past[k].call \in Int
             /\ past[k].call < call \/ (past[k].call = call /\ offset # 0 /\ ~IsFinal(past[k]))
  <2>1. past[k].call \in S!Calls
        BY <1>1, CutIs
  <2> QED BY <1>1, <2>1 DEF PastSent, S!Calls
<1>5. /\ damaged \subseteq damaged' /\ damaged' \subseteq damaged \cup {call}
      /\ \/ call' = call + 1 /\ offset' = 0
         \/ call' = call /\ offset' # 0 /\ ~IsFinal(NextCut)
      /\ \/ /\ damaged' = damaged /\ Len(longer) = Len(past) + 1
            /\ OnWire(longer)' = OnWire(past) \cup {Len(longer)}
            /\ call' = call \/ IsFinal(NextCut)
         \/ damaged' = damaged \cup {call} /\ call' = call + 1
    BY DEF Sent
<1>6. CallsRise(longer)'
  <2>1. ASSUME NEW k \in 1 .. Len(longer), NEW l \in 1 .. Len(longer), k < l
        PROVE  /\ longer[k].call <= longer[l].call
               /\ longer[k].call = longer[l].call => longer[l].off # 0 /\ ~IsFinal(longer[k])
    <3>1. k \in 1 .. Len(past)
      <4> SUFFICES ASSUME k \notin 1 .. Len(past) PROVE FALSE
          OBVIOUS
      <4>1. k = Len(longer)
            BY <1>3
      <4> QED BY <1>2, <2>1, <4>1
    <3>2. CASE l \in 1 .. Len(past)
          BY <1>1, <1>3, <2>1, <3>1, <3>2 DEF CallsRise
    <3>3. CASE l \notin 1 .. Len(past)
      <4>1. longer[l].call = call /\ longer[l].off = offset /\ longer[k] = past[k]
            BY <1>3, <3>1, <3>3
      <4> QED BY <1>2, <1>4, <3>1, <4>1
    <3> QED BY <3>2, <3>3
  <2> QED BY <2>1 DEF CallsRise
<1>7. Sized(longer)'
  <2>1. ASSUME NEW k \in 1 .. Len(longer), ~IsFinal(longer[k])
        PROVE  longer[k].size = Room(longer[k].call)
    <3>1. CASE k \in 1 .. Len(past)
          BY <1>1, <1>3, <2>1, <3>1 DEF Sized
    <3>2. CASE k \notin 1 .. Len(past)
      <4>1. longer[k] = NextCut
            BY <1>3, <3>2
      <4>2. ~S!IsLast(call) /\ NextCut.size = S!ChunkSize(call)
            BY <2>1, <4>1 DEF NextCut, IsFinal, Until, BodyOf, S!IsLast
      <4> QED BY <1>2, <1>3, <4>1, <4>2, ChunkIs
    <3> QED BY <3>1, <3>2
  <2> QED BY <2>1 DEF Sized, Room
<1>8. GoesOn(longer)'
  <2> SUFFICES ASSUME NEW k \in 1 .. Len(longer), ~IsFinal(longer[k]), longer[k].call \notin damaged'
               PROVE  \/ k < Len(longer) /\ longer[k + 1].call = longer[k].call
                      \/ k = Len(longer) /\ longer[k].call = call'
      BY DEF GoesOn
  <2>1. CASE k \in 1 .. Len(past)
    <3>1. \/ k < Len(past) /\ past[k + 1].call = past[k].call
          \/ k = Len(past) /\ past[k].call = call
          BY <1>1, <1>3, <1>5, <2>1 DEF GoesOn
    <3>2. CASE k < Len(past) /\ past[k + 1].call = past[k].call
      <4>1. k + 1 \in 1 .. Len(past)
            BY <1>2, <2>1, <3>2
      <4>2. k < Len(longer)
        <5>1. k + 1 \in 1 .. Len(longer)
              BY <1>3, <4>1
        <5> QED BY <1>2, <5>1
      <4> QED BY <1>3, <2>1, <3>2, <4>1, <4>2
    <3>3. CASE k = Len(past) /\ past[k].call = call
      <4>1. call \notin damaged'
            BY <1>3, <2>1, <3>3
      <4>2. Len(longer) = Len(past) + 1
            BY <1>5, <4>1
      <4>3. k + 1 \in 1 .. Len(longer) /\ k + 1 \notin 1 .. Len(past) /\ k < Len(longer)
            BY <1>2, <2>1, <3>3, <4>2
      <4>4. longer[k + 1].call = call
            BY <1>3, <4>3
      <4> QED BY <1>3, <2>1, <3>3, <4>3, <4>4
    <3> QED BY <3>1, <3>2, <3>3
  <2>2. CASE k \notin 1 .. Len(past)
    <3>1. k = Len(longer) /\ longer[k] = NextCut
          BY <1>3, <2>2
    <3>2. call' = call
          BY <1>3, <1>5, <2>2, <3>1
    <3> QED BY <1>3, <3>1, <3>2
  <2> QED BY <2>1, <2>2
<1>9. DamagedBefore'
  <2> SUFFICES ASSUME NEW c \in damaged' PROVE c < call' \/ (c = call' /\ offset' # 0)
      BY DEF DamagedBefore
  <2>1. c \in damaged \/ (c = call /\ call' = call + 1)
        BY <1>5
  <2>2. c \in damaged => c \in Int /\ (c < call \/ c = call)
        BY <1>1 DEF TypeInv, S!Calls, DamagedBefore
  <2> QED BY <1>2, <1>5, <2>1, <2>2
<1>10. PastSent(longer)'
  <2>1. ASSUME NEW k \in 1 .. Len(longer)
        PROVE  longer[k].call < call' \/ (longer[k].call = call' /\ offset' # 0 /\ ~IsFinal(longer[k]))
    <3>1. CASE k \in 1 .. Len(past)
          BY <1>2, <1>3, <1>4, <1>5, <3>1
    <3>2. CASE k \notin 1 .. Len(past)
          BY <1>2, <1>3, <1>5, <3>2
    <3> QED BY <3>1, <3>2
  <2> QED BY <2>1 DEF PastSent
<1>11. ASSUME NEW k \in Unsent(past) PROVE k \in Unsent(longer)'
  <2>1. /\ k \in 1 .. Len(past) /\ past[k].call \in damaged /\ past[k].call < call
        /\ \A l \in k + 1 .. Len(past) : past[l].call # past[k].call
        BY DEF Unsent
  <2>2. ASSUME NEW l \in k + 1 .. Len(longer) PROVE longer[l].call # past[k].call
    <3>1. l \in 1 .. Len(longer)
          BY <2>1
    <3>2. CASE l \in 1 .. Len(past)
      <4>1. l \in k + 1 .. Len(past)
            BY <3>2
      <4> QED BY <1>3, <2>1, <3>2, <4>1
    <3>3. CASE l \notin 1 .. Len(past)
          BY <1>2, <1>3, <1>4, <2>1, <3>1, <3>3
    <3> QED BY <3>2, <3>3
  <2>3. past[k].call \in damaged' /\ past[k].call < call' /\ k \in 1 .. Len(longer)
        BY <1>2, <1>3, <1>4, <1>5, <2>1
  <2> QED BY <1>3, <2>1, <2>2, <2>3 DEF Unsent
<1>12. ASSUME NEW k \in 1 .. Len(longer), k \notin 1 .. Len(past)
       PROVE  k \in OnWire(longer)' \/ k \in Unsent(longer)'
  <2>1. k = Len(longer) /\ longer[k].call = call
        BY <1>3, <1>12
  <2>2. CASE OnWire(longer)' = OnWire(past) \cup {Len(longer)}
        BY <2>1, <2>2
  <2>3. CASE damaged' = damaged \cup {call} /\ call' = call + 1
    <3>1. \A l \in k + 1 .. Len(longer) : FALSE
          BY <1>2, <2>1
    <3> QED BY <1>2, <2>1, <2>3, <3>1 DEF Unsent
  <2> QED BY <1>5, <2>2, <2>3
<1>13. Unsent(past) \subseteq Unsent(longer)'
    BY <1>11
<1>14. \A k \in 1 .. Len(past) :
         /\ k \in 1 .. Len(longer) /\ longer[k] = past[k] /\ past[k].call \in Int
         /\ past[k].call < call \/ (past[k].call = call /\ offset # 0 /\ ~IsFinal(past[k]))
    BY <1>3, <1>4
<1>15. \A k \in 1 .. Len(longer) : k \notin 1 .. Len(past) =>
         /\ k = Len(past) + 1 /\ longer[k].call = call
         /\ k \in OnWire(longer)' \/ k \in Unsent(longer)'
    BY <1>3, <1>12
<1> QED BY <1>2, <1>6, <1>7, <1>8, <1>9, <1>10, <1>13, <1>14, <1>15

\* A call given up is doomed, and one that is doomed remains so.
LEMMA SentDooms ==
    ASSUME TypeInv, NEW past, Known(past), NEW longer, Sent(past, longer),
           NEW c, NEW b \in Nat \ {0}, c \in damaged', c \in damaged => Doomed(past, c, b)
    PROVE  Doomed(longer, c, b)'
<1>1. /\ \A k \in 1 .. Len(past) :
           /\ k \in 1 .. Len(longer) /\ longer[k] = past[k] /\ past[k].call \in Int
           /\ past[k].call < call \/ (past[k].call = call /\ offset # 0 /\ ~IsFinal(past[k]))
      /\ \A k \in 1 .. Len(longer) : k \notin 1 .. Len(past) =>
           k = Len(past) + 1 /\ longer[k].call = call
      /\ call \in Int /\ Len(past) \in Nat /\ Len(longer) \in Nat
    BY SentPieces
<1>2. /\ Around(past) \subseteq 1 .. Len(past)
      /\ Around(longer)' \subseteq Around(past) \cup {Len(past) + 1}
      /\ OnWire(longer)' = OnWire(past) => Around(longer)' = Around(past)
  <2>1. Kept(longer)' = Kept(past)
        BY DEF Sent
  <2>2. OnWire(longer)' \subseteq OnWire(past) \cup {Len(past) + 1}
        BY DEF Sent
  <2> QED BY <2>1, <2>2 DEF Around, OnWire, Kept
<1>3. call' = call \/ call' = call + 1
    BY DEF Sent
<1>4. CASE c \in damaged /\ \E k \in b .. Len(past) : past[k].call = c /\ k \notin Around(past)
  <2>1. PICK k \in b .. Len(past) : past[k].call = c /\ k \notin Around(past)
        BY <1>4
  <2>2. k \in 1 .. Len(past) /\ k \in b .. Len(longer) /\ k # Len(past) + 1
    <3>1. k \in 1 .. Len(past)
          BY <1>1
    <3>2. k \in 1 .. Len(longer)
          BY <1>1, <3>1
    <3> QED BY <1>1, <3>1, <3>2
  <2>3. longer[k].call = c /\ k \notin Around(longer)'
        BY <1>1, <1>2, <2>1, <2>2
  <2> QED BY <2>2, <2>3 DEF Doomed
<1>5. CASE /\ c \in damaged /\ c < call
           /\ \A k \in 1 .. Len(past) : past[k].call = c /\ IsFinal(past[k]) => k \notin Around(past)
  <2>1. c \in Int
        BY <1>5 DEF TypeInv, S!Calls
  <2>2. c < call'
        BY <1>1, <1>3, <1>5, <2>1
  <2>3. ASSUME NEW k \in 1 .. Len(longer), longer[k].call = c, IsFinal(longer[k])
        PROVE  k \notin Around(longer)'
    <3>1. k \in 1 .. Len(past)
          BY <1>1, <1>5, <2>1, <2>3
    <3>2. k # Len(past) + 1
          BY <1>1, <3>1
    <3> QED BY <1>1, <1>2, <1>5, <2>3, <3>1, <3>2
  <2> QED BY <2>2, <2>3 DEF Doomed
<1>6. CASE c \notin damaged
  <2>1. c = call /\ call' = call + 1 /\ OnWire(longer)' = OnWire(past)
        BY <1>6 DEF Sent
  <2>2. c < call'
        BY <1>1, <2>1
  <2>3. ASSUME NEW k \in 1 .. Len(longer), longer[k].call = c, IsFinal(longer[k])
        PROVE  k \notin Around(longer)'
    <3>1. k \notin 1 .. Len(past)
          BY <1>1, <2>1, <2>3
    <3> QED BY <1>2, <2>1, <3>1
  <2> QED BY <2>2, <2>3 DEF Doomed
<1> QED BY <1>4, <1>5, <1>6 DEF Doomed

\* The buffer, the window and what is about to start, when a packet is sent
LEMMA SentKeepsLoss ==
    ASSUME TypeInv, NEW past, Known(past), NEW longer, Sent(past, longer)
    PROVE  /\ HeldOK(longer)' /\ WindowOK(longer)' /\ KeptBehind(longer)' /\ Unstarted(longer)'
<1>1. /\ \A k \in 1 .. Len(past) :
           /\ k \in 1 .. Len(longer) /\ longer[k] = past[k] /\ past[k].call \in Int
           /\ past[k].call < call \/ (past[k].call = call /\ offset # 0 /\ ~IsFinal(past[k]))
      /\ \A k \in 1 .. Len(longer) : k \notin 1 .. Len(past) =>
           /\ k = Len(past) + 1 /\ longer[k].call = call
           /\ k \in OnWire(longer)' \/ k \in Unsent(longer)'
      /\ call \in Int /\ Len(past) \in Nat /\ Len(longer) \in Nat
      /\ Unsent(past) \subseteq Unsent(longer)'
    BY SentPieces
<1>2. /\ PastOK(longer) /\ NaluPast(past) /\ HeldOK(past) /\ WindowOK(past) /\ KeptBehind(past)
      /\ Unstarted(past) /\ PastOK(past) /\ DamagedBefore
    BY DEF Sent, Known, Loss, RecvPast
<1>3. UNCHANGED <<active, expected_seq, reorder, network>>
    BY DEF Sent, fuVars, fuCtx
<1>4. /\ Kept(longer)' = Kept(past) /\ Kept(past) \subseteq 1 .. Len(past)
      /\ OnWire(past) \subseteq 1 .. Len(past)
      /\ OnWire(past) \subseteq OnWire(longer)'
      /\ OnWire(longer)' \subseteq OnWire(past) \cup {Len(past) + 1}
      /\ Len(past) + 1 \in OnWire(longer)' => damaged' = damaged
      /\ damaged \subseteq damaged'
  <2>1. Kept(past) \subseteq 1 .. Len(past) /\ OnWire(past) \subseteq 1 .. Len(past)
        BY DEF Kept, OnWire
  <2>2. Len(past) + 1 \notin OnWire(past)
        BY <1>1, <2>1
  <2>3. Kept(longer)' = Kept(past) /\ damaged \subseteq damaged'
        BY DEF Sent
  <2>4. /\ OnWire(past) \subseteq OnWire(longer)'
        /\ OnWire(longer)' \subseteq OnWire(past) \cup {Len(past) + 1}
        /\ Len(past) + 1 \in OnWire(longer)' => damaged' = damaged
        BY <2>2 DEF Sent
  <2> QED BY <2>1, <2>3, <2>4
<1>5. ASSUME active
      PROVE  \E a \in 1 .. Len(past) :
               /\ expected_seq = NumberOf(a + 1) /\ Held(past, a)
               /\ \A b \in 1 .. Len(longer) : expected_seq = NumberOf(b + 1) => b = a
  <2>1. PICK a \in 1 .. Len(past) : expected_seq = NumberOf(a + 1) /\ Held(past, a)
        BY <1>2, <1>5, WaitsFor
  <2>2. a \in 1 .. Len(longer)
        BY <1>1
  <2> QED BY <1>2, <2>1, <2>2, SameNumber
<1>6. HeldOK(longer)'
  <2> SUFFICES ASSUME active, NEW a \in 1 .. Len(past), Held(past, a)
               PROVE  Held(longer, a)'
    <3>1. ASSUME active, NEW b \in 1 .. Len(longer), expected_seq = NumberOf(b + 1)
          PROVE  b \in 1 .. Len(past) /\ Held(past, b)
          BY <1>5, <3>1
    <3> QED BY <1>3, <3>1 DEF HeldOK
  <2>1. a \in 1 .. Len(longer) /\ longer[a] = past[a]
        BY <1>1
  <2>2. ~IsFinal(longer[a])
        BY <2>1 DEF Held
  <2>3. ASSUME NEW l \in OnWire(longer)' PROVE l > a \/ (l = a /\ network = "repeat")
        BY <1>1, <1>4 DEF Held
  <2>4. ASSUME network = "shuffle" \/ past[a].call \notin damaged',
               NEW l \in Kept(past), l > a, longer[l].call = past[a].call
        PROVE  network = "shuffle" /\ l \notin OnWire(longer)' /\ l \in a + 2 .. a + 1 + Window
    <3>1. l \in 1 .. Len(past) /\ past[l].call = past[a].call /\ l # Len(past) + 1
          BY <1>1, <1>4, <2>4
    <3>2. network = "shuffle" /\ l \notin OnWire(past) /\ l \in a + 2 .. a + 1 + Window
          BY <1>4, <2>4, <3>1 DEF Held
    <3> QED BY <1>4, <3>1, <3>2
  <2>5. ASSUME network = "shuffle" \/ past[a].call \notin damaged',
               NEW l \in a + 1 .. Len(longer),
               longer[l].call = past[a].call \/ (network = "shuffle" /\ S!IsFu(longer[l].call))
        PROVE  l \in Around(longer)' \cup Unsent(longer)'
    <3>1. l \in 1 .. Len(longer)
          BY <1>1
    <3>2. CASE l \in 1 .. Len(past)
      <4>1. l \in a + 1 .. Len(past) /\ longer[l] = past[l]
            BY <1>1, <3>2
      <4>2. l \in Around(past) \cup Unsent(past)
            BY <1>4, <2>5, <4>1 DEF Held
      <4> QED BY <1>1, <1>4, <4>2 DEF Around
    <3>3. CASE l \notin 1 .. Len(past)
          BY <1>1, <3>1, <3>3 DEF Around
    <3> QED BY <3>2, <3>3
  <2>6. ASSUME past[a].call \in damaged' PROVE Doomed(longer, past[a].call, a + 1)'
    <3>1. past[a].call \in damaged => Doomed(past, past[a].call, a + 1)
          BY DEF Held
    <3>2. a + 1 \in Nat \ {0}
          BY <1>1
    <3> QED BY <2>6, <3>1, <3>2, SentDooms
  <2> QED BY <1>3, <1>4, <2>1, <2>2, <2>3, <2>4, <2>5, <2>6 DEF Held
<1>7. WindowOK(longer)'
  <2> SUFFICES ASSUME network = "shuffle"
               PROVE  /\ \A k \in Kept(past) :
                           active /\ \A a \in 1 .. Len(longer) : expected_seq = NumberOf(a + 1) =>
                                       k > a + 1 /\ longer[k].call = longer[a].call
                      /\ \A i, j \in 1 .. Window :
                           reorder[i].used /\ reorder[j].used /\ reorder[i].seq = reorder[j].seq => i = j
      BY <1>3, <1>4 DEF WindowOK
  <2>1. ASSUME NEW k \in Kept(past), NEW a \in 1 .. Len(longer), expected_seq = NumberOf(a + 1)
        PROVE  k > a + 1 /\ longer[k].call = longer[a].call
    <3>1. active
          BY <1>2 DEF WindowOK
    <3>2. a \in 1 .. Len(past)
          BY <1>5, <2>1, <3>1
    <3>3. k > a + 1 /\ past[k].call = past[a].call
          BY <1>2, <2>1, <3>2 DEF WindowOK
    <3> QED BY <1>1, <1>4, <3>2, <3>3
  <2> QED BY <1>2, <2>1 DEF WindowOK
<1>8. KeptBehind(longer)'
  <2> SUFFICES ASSUME network # "shuffle", NEW k \in Kept(past), NEW l \in OnWire(longer)'
               PROVE  k <= l
      BY <1>3, <1>4 DEF KeptBehind
  <2>1. CASE l \in OnWire(past)
        BY <1>2, <2>1 DEF KeptBehind
  <2>2. CASE l = Len(past) + 1
        BY <1>1, <1>4, <2>2
  <2> QED BY <1>4, <2>1, <2>2
<1>9. Unstarted(longer)'
  <2> SUFFICES ASSUME NEW s \in OnWire(longer)', S!IsFu(longer[s].call), longer[s].off = 0
               PROVE  /\ \A l \in s .. Len(longer) :
                           /\ l \notin Kept(past)
                           /\ S!IsFu(longer[l].call)
                                /\ (network = "shuffle" \/ longer[l].call \notin damaged') =>
                                l \in OnWire(longer)' \cup Unsent(longer)'
                      /\ longer[s].call \in damaged' => Doomed(longer, longer[s].call, s)'
      BY <1>3, <1>4 DEF Unstarted
  <2>1. s \in 1 .. Len(longer)
        BY DEF OnWire
  <2>2. CASE s \in OnWire(past)
    <3>1. /\ s \in 1 .. Len(past) /\ longer[s] = past[s]
          /\ \A l \in s .. Len(past) :
               /\ l \notin Kept(past)
               /\ S!IsFu(past[l].call) /\ (network = "shuffle" \/ past[l].call \notin damaged) =>
                    l \in OnWire(past) \cup Unsent(past)
          /\ past[s].call \in damaged => Doomed(past, past[s].call, s)
          BY <1>1, <1>2, <1>4, <2>2 DEF Unstarted
    <3>2. ASSUME NEW l \in s .. Len(longer)
          PROVE  /\ l \notin Kept(past)
                 /\ S!IsFu(longer[l].call) /\ (network = "shuffle" \/ longer[l].call \notin damaged') =>
                      l \in OnWire(longer)' \cup Unsent(longer)'
      <4>1. l \in 1 .. Len(longer)
            BY <1>1, <3>1
      <4>2. CASE l \in 1 .. Len(past)
        <5>1. l \in s .. Len(past) /\ longer[l] = past[l]
              BY <1>1, <3>1, <4>2
        <5> QED BY <1>1, <1>4, <3>1, <5>1
      <4>3. CASE l \notin 1 .. Len(past)
            BY <1>1, <1>4, <4>1, <4>3
      <4> QED BY <4>2, <4>3
    <3>3. s \in Nat \ {0}
          BY <3>1
    <3>4. longer[s].call \in damaged' => Doomed(longer, longer[s].call, s)'
          BY <3>1, <3>3, SentDooms
    <3> QED BY <3>2, <3>4
  <2>3. CASE s = Len(past) + 1
    <3>1. damaged' = damaged /\ s \notin 1 .. Len(past) /\ longer[s].call = call
      <4>1. s \notin 1 .. Len(past)
            BY <1>1, <2>3
      <4> QED BY <1>1, <1>4, <2>1, <2>3, <4>1
    <3>2. call \notin damaged
      <4>1. longer[s] = NextCut
            BY <2>1, <3>1 DEF Sent
      <4>2. offset = 0
            BY <4>1 DEF NextCut
      <4> QED BY <1>1, <1>2, <4>2 DEF DamagedBefore
    <3>3. ASSUME NEW l \in s .. Len(longer) PROVE l \notin Kept(past) /\ l \in OnWire(longer)'
      <4>1. l \in 1 .. Len(longer) /\ l \notin 1 .. Len(past)
            BY <1>1, <2>3
      <4>2. l = s
            BY <1>1, <2>3, <4>1
      <4> QED BY <1>4, <4>1, <4>2
    <3> QED BY <3>1, <3>2, <3>3
  <2> QED BY <1>4, <2>2, <2>3
<1> QED BY <1>6, <1>7, <1>8, <1>9

\* The packets on their way are those of before and the new one.
LEMMA SentWire ==
    ASSUME TypeInv, NEW past, Known(past), NEW longer, Sent(past, longer)
    PROVE  WireRises(longer)' /\ Timed'
<1>1. /\ \A k \in 1 .. Len(past) :
           /\ k \in 1 .. Len(longer) /\ longer[k] = past[k] /\ past[k].call \in Int
           /\ past[k].call < call \/ (past[k].call = call /\ offset # 0 /\ ~IsFinal(past[k]))
      /\ call \in Int /\ Len(past) \in Nat /\ Len(longer) \in Nat
    BY SentPieces
<1>2. /\ PastOK(past) /\ WirePast(past) /\ WireRises(past) /\ Timed /\ PastOK(longer)
      /\ Len(wire) \in Nat
  <2>1. Len(wire) \in Nat
        BY DEF TypeInv
  <2> QED BY <2>1 DEF Known, Loss, Sent
<1>3. ASSUME NEW i \in 1 .. Len(wire)
      PROVE  /\ wire[i].call \in Int /\ wire[i].call <= call
             /\ \A k \in 1 .. Len(longer) : wire[i].seq = NumberOf(k) => k \in 1 .. Len(past)
  <2>1. PICK x \in OnWire(past) : IsCut(wire[i], past[x], NumberOf(x))
        BY <1>2, OnWireIs
  <2>2. x \in 1 .. Len(past) /\ wire[i].seq = NumberOf(x) /\ wire[i].call = past[x].call
        BY <2>1 DEF OnWire, IsCut
  <2>3. ASSUME NEW k \in 1 .. Len(longer), wire[i].seq = NumberOf(k) PROVE k \in 1 .. Len(past)
    <3>1. NumberOf(k) = NumberOf(x) /\ x \in 1 .. Len(longer)
          BY <1>1, <2>2, <2>3
    <3>2. k = x
          BY <1>2, <3>1, PiecesDiffer
    <3> QED BY <2>2, <3>2
  <2> QED BY <1>1, <2>2, <2>3
<1>4. CASE UNCHANGED wire /\ call' = call + 1
  <2>1. ASSUME NEW i \in 1 .. Len(wire), NEW j \in 1 .. Len(wire), i < j,
               NEW k \in 1 .. Len(longer), NEW l \in 1 .. Len(longer),
               wire[i].seq = NumberOf(k), wire[j].seq = NumberOf(l)
        PROVE  k < l
    <3>1. k \in 1 .. Len(past) /\ l \in 1 .. Len(past)
          BY <1>3, <2>1
    <3> QED BY <1>2, <2>1, <3>1 DEF WireRises
  <2>2. WireRises(longer)'
        BY <1>4, <2>1 DEF WireRises, NumberOf
  <2>3. \A i \in 1 .. Len(wire) : wire[i].call # call'
        BY <1>1, <1>3, <1>4
  <2>4. Timed'
        BY <1>2, <1>4, <2>3 DEF Timed
  <2> QED BY <2>2, <2>4
<1>5. CASE /\ Len(wire') = Len(wire) + 1 /\ wire'[Len(wire) + 1] = S!Packet(call)
           /\ S!Packet(call).seq = NumberOf(Len(longer)) /\ Len(longer) = Len(past) + 1
           /\ \A i \in 1 .. Len(wire) : wire'[i] = wire[i]
           /\ call' = call + 1 \/ (call' = call /\ UNCHANGED rtp_timestamp)
  <2> DEFINE q == S!Packet(call)
  <2>1. q.call = call /\ q.timestamp = rtp_timestamp /\ q.seq = NumberOf(Len(longer))
        BY <1>5 DEF S!Packet
  <2> HIDE DEF q
  <2>2. /\ \A i \in 1 .. Len(wire') :
             \/ i \in 1 .. Len(wire) /\ wire'[i] = wire[i]
             \/ i = Len(wire) + 1 /\ wire'[i] = q
        /\ Len(wire') \in Nat
        BY <1>2, <1>5 DEF q
  <2>3. ASSUME NEW i \in 1 .. Len(wire'), NEW j \in 1 .. Len(wire'), i < j,
               NEW k \in 1 .. Len(longer), NEW l \in 1 .. Len(longer),
               wire'[i].seq = NumberOf(k), wire'[j].seq = NumberOf(l)
        PROVE  k < l
    <3>1. i \in 1 .. Len(wire) /\ wire'[i] = wire[i]
          BY <1>2, <2>2, <2>3
    <3>2. k \in 1 .. Len(past)
          BY <1>3, <2>3, <3>1
    <3>3. CASE j \in 1 .. Len(wire) /\ wire'[j] = wire[j]
      <4>1. l \in 1 .. Len(past)
            BY <1>3, <2>3, <3>3
      <4> QED BY <1>2, <2>3, <3>1, <3>2, <3>3, <4>1 DEF WireRises
    <3>4. CASE wire'[j] = q
      <4>1. NumberOf(l) = NumberOf(Len(longer)) /\ Len(longer) \in 1 .. Len(longer)
            BY <1>1, <1>5, <2>1, <2>3, <3>4
      <4>2. l = Len(longer)
            BY <1>2, <4>1, PiecesDiffer
      <4> QED BY <1>1, <1>5, <3>2, <4>2
    <3> QED BY <2>2, <3>3, <3>4
  <2>4. WireRises(longer)'
        BY <2>3 DEF WireRises, NumberOf
  <2>5. ASSUME NEW i \in 1 .. Len(wire')
        PROVE  /\ wire'[i].call \in Int /\ wire'[i].call <= call
               /\ wire'[i].call = call => wire'[i].timestamp = rtp_timestamp
        BY <1>1, <1>2, <1>3, <2>1, <2>2 DEF Timed
  <2>6. ASSUME NEW i \in 1 .. Len(wire'), NEW j \in 1 .. Len(wire'), wire'[i].call = wire'[j].call
        PROVE  wire'[i].timestamp = wire'[j].timestamp
    <3>1. CASE wire'[i].call = call
          BY <2>5, <2>6, <3>1
    <3>2. CASE wire'[i].call # call
      <4>1. /\ i \in 1 .. Len(wire) /\ wire'[i] = wire[i]
            /\ j \in 1 .. Len(wire) /\ wire'[j] = wire[j]
            BY <2>1, <2>2, <2>6, <3>2
      <4> QED BY <1>2, <2>6, <4>1 DEF Timed
    <3> QED BY <3>1, <3>2
  <2>7. ASSUME NEW i \in 1 .. Len(wire'), wire'[i].call = call'
        PROVE  wire'[i].timestamp = rtp_timestamp'
        BY <1>1, <1>5, <2>5, <2>7
  <2>8. Timed'
        BY <2>6, <2>7 DEF Timed
  <2> QED BY <2>4, <2>8
<1> QED BY <1>4, <1>5 DEF Sent

\* A NALU sent so far is still received, or on its way; one that was begun now
\* has its first fragment on the way.
LEMMA SentFate ==
    ASSUME TypeInv, NEW past, Known(past), NEW longer, Sent(past, longer)
    PROVE  Fate(longer)'
<1> SUFFICES ASSUME NEW c \in FuCalls, c \notin damaged',
                    c < call' \/ (c = call' /\ offset' # 0), Fragmented(c) <= MaxFragments
             PROVE  \/ Whole(c) \in ToSet(written)
                    \/ \E s \in OnWire(longer)' : longer[s].call = c /\ longer[s].off = 0
                    \/ Progress(longer, c)'
  <2>1. UNCHANGED written
        BY DEF Sent, fuVars
  <2> QED BY <2>1 DEF Fate, FuCalls, Whole, Buffered, Fragmented
<1>1. /\ \A k \in 1 .. Len(past) : k \in 1 .. Len(longer) /\ longer[k] = past[k]
      /\ call \in Int /\ Len(past) \in Nat /\ c \in Int
  <2>1. c \in Int
        BY DEF FuCalls, S!Calls
  <2> QED BY <2>1, SentPieces
<1>2. /\ damaged \subseteq damaged' /\ OnWire(past) \subseteq OnWire(longer)'
      /\ call' = call + 1 \/ (call' = call /\ UNCHANGED rtp_timestamp)
      /\ call' = call + 1 => offset' = 0
      /\ UNCHANGED <<active, timestamp, expected_seq, pending_fragments>>
  <2>1. UNCHANGED <<active, timestamp, expected_seq, pending_fragments>>
        BY DEF Sent, fuVars, fuCtx
  <2>2. call' = call => call' # call + 1
        BY <1>1
  <2> QED BY <2>1, <2>2 DEF Sent
<1>3. CASE c < call \/ (c = call /\ offset # 0)
  <2>1. Fate(past)
        BY DEF Known, Loss
  <2>2. \/ Whole(c) \in ToSet(written)
        \/ \E s \in OnWire(past) : past[s].call = c /\ past[s].off = 0
        \/ Progress(past, c)
        BY <1>2, <1>3, <2>1 DEF Fate
  <2>3. ASSUME NEW s \in OnWire(past), past[s].call = c, past[s].off = 0
        PROVE  s \in OnWire(longer)' /\ longer[s].call = c /\ longer[s].off = 0
    <3>1. s \in 1 .. Len(past)
          BY DEF OnWire
    <3> QED BY <1>1, <1>2, <2>3, <3>1
  <2>4. ASSUME Progress(past, c) PROVE Progress(longer, c)'
    <3>1. PICK a \in 1 .. Len(past) :
            /\ past[a].call = c /\ expected_seq = NumberOf(a + 1)
            /\ pending_fragments + PacketsLeft(c, Until(past[a])) = Fragmented(c)
            /\ \A i \in 1 .. Len(wire) : wire[i].call = c => wire[i].timestamp = timestamp
            /\ c = call => timestamp = rtp_timestamp
          BY <2>4 DEF Progress
    <3>2. a \in 1 .. Len(longer) /\ longer[a] = past[a]
          BY <1>1
    <3>3. ASSUME NEW i \in 1 .. Len(wire'), wire'[i].call = c PROVE wire'[i].timestamp = timestamp
      <4>1. CASE i \in 1 .. Len(wire) /\ wire'[i] = wire[i]
            BY <3>1, <3>3, <4>1
      <4>2. CASE wire'[i] = S!Packet(call)
        <5>1. wire'[i].call = call /\ wire'[i].timestamp = rtp_timestamp
              BY <4>2 DEF S!Packet
        <5> QED BY <3>1, <3>3, <5>1
      <4>3. \/ i \in 1 .. Len(wire) /\ wire'[i] = wire[i]
            \/ wire'[i] = S!Packet(call)
        <5>1. Len(wire) \in Nat
              BY DEF TypeInv
        <5>2. CASE UNCHANGED wire
              BY <5>2
        <5>3. CASE /\ Len(wire') = Len(wire) + 1 /\ wire'[Len(wire) + 1] = S!Packet(call)
                   /\ \A j \in 1 .. Len(wire) : wire'[j] = wire[j]
              BY <5>1, <5>3
        <5> QED BY <5>2, <5>3 DEF Sent
      <4> QED BY <4>1, <4>2, <4>3
    <3>4. c = call' => timestamp = rtp_timestamp'
          BY <1>1, <1>2, <1>3, <3>1
    <3>5. active
          BY <2>4 DEF Progress
    <3> QED BY <1>2, <3>1, <3>2, <3>3, <3>4, <3>5 DEF Progress, PacketsLeft, Room, Fragmented, NumberOf
  <2> QED BY <2>2, <2>3, <2>4
<1>4. CASE ~ (c < call \/ (c = call /\ offset # 0))
  <2>1. c = call /\ offset = 0
        BY <1>1, <1>2, <1>4
  <2>2. /\ Len(longer) = Len(past) + 1 /\ OnWire(longer)' = OnWire(past) \cup {Len(longer)}
        BY <2>1 DEF Sent
  <2>3. Len(longer) \in 1 .. Len(longer) /\ Len(longer) \notin 1 .. Len(past)
        BY <1>1, <2>2
  <2>4. longer[Len(longer)] = NextCut
        BY <2>3 DEF Sent
  <2> QED BY <2>1, <2>2, <2>4 DEF NextCut
<1> QED BY <1>3, <1>4

\* A packet that is sent, or is not, keeps the invariant.
LEMMA LossSends ==
    ASSUME NEW left, Numbers(left), TypeInv, NEW past \in Seq(Cuts), Past(past, left), Known(past),
           NEW longer \in Seq(Cuts), longer = past \/ longer = Append(past, NextCut),
           Past(longer, left)', Send
    PROVE  /\ Tame' /\ PastSent(longer)' /\ Loss(longer)'
           /\ Spared(past) => Spared(longer)'
<1>1. Sent(past, longer)
    BY SendIs DEF Known
<1>2. UNCHANGED <<network, expired, written>> /\ Tame /\ ~expired
  <2>1. UNCHANGED <<network, expired, written>>
        BY <1>1 DEF Sent, fuVars, fuCtx
  <2> QED BY <2>1 DEF Known, Loss
<1>3. Tame' /\ ~expired'
    BY <1>2 DEF Tame
<1>4. /\ CallsRise(longer)' /\ Sized(longer)' /\ GoesOn(longer)' /\ DamagedBefore'
      /\ PastSent(longer)'
    BY <1>1, SentPieces
<1>5. HeldOK(longer)' /\ WindowOK(longer)' /\ KeptBehind(longer)' /\ Unstarted(longer)'
    BY <1>1, SentKeepsLoss
<1>6. WireRises(longer)' /\ Timed' /\ Fate(longer)'
    BY <1>1, SentWire, SentFate
<1>7. ASSUME Spared(past) PROVE Spared(longer)'
  <2> SUFFICES ASSUME NEW c \in FuCalls, Whole(c) \in ToSet(written)
               PROVE  /\ c \notin damaged' /\ c < call'
                      /\ network = "lossy" => \A k \in OnWire(longer)' : c < longer[k].call
      BY <1>2 DEF Spared, FuCalls, Whole, Buffered
  <2>1. /\ c \in Int /\ call \in Int /\ c \notin damaged /\ c < call
        /\ network = "lossy" => \A k \in OnWire(past) : c < past[k].call
    <3>1. c \in Int
          BY DEF FuCalls, S!Calls
    <3>2. call \in Int
          BY <1>1, SentPieces
    <3> QED BY <1>7, <3>1, <3>2 DEF Spared
  <2>2. damaged' \subseteq damaged \cup {call} /\ (call' = call \/ call' = call + 1)
        BY <1>1 DEF Sent
  <2>3. c \notin damaged' /\ c < call'
        BY <2>1, <2>2
  <2>4. ASSUME network = "lossy", NEW k \in OnWire(longer)' PROVE c < longer[k].call
    <3>1. k \in 1 .. Len(longer) /\ (k \in OnWire(past) \/ k \notin OnWire(past))
          BY DEF OnWire
    <3>2. CASE k \in 1 .. Len(past)
      <4>1. k \in OnWire(past)
        <5>1. k # Len(past) + 1
          <6>1. Len(past) \in Nat
                BY <1>1, SentPieces
          <6> QED BY <3>2, <6>1
        <5> QED BY <1>1, <2>4, <5>1 DEF Sent
      <4> QED BY <1>1, <2>1, <2>4, <3>2, <4>1 DEF Sent
    <3>3. CASE k \notin 1 .. Len(past)
          BY <1>1, <2>1, <3>1, <3>3, SentPieces
    <3> QED BY <3>2, <3>3
  <2> QED BY <2>3, <2>4
<1> QED BY <1>3, <1>4, <1>5, <1>6, <1>7 DEF Loss

-----------------------------------------------------------------------------
(* The first packet on its way is lost.                                    *)

\* Its piece is the first of those on their way, and its call is damaged.
Loses(past, m) ==
    /\ network = "lossy"
    /\ m \in OnWire(past) /\ \A l \in OnWire(past) : m <= l
    /\ OnWire(past)' = OnWire(past) \ {m} /\ WireRises(past)'
    /\ \A j \in 1 .. Len(wire') : \E n \in 1 .. Len(wire) : wire'[j] = wire[n]
    /\ damaged' = damaged \cup {past[m].call}
    /\ UNCHANGED <<fuVars, call, offset, rtp_seq, rtp_timestamp, network>>

\* Every loss is like that.
LEMMA LosesIs ==
    ASSUME TypeInv, NEW past, Known(past), Lose
    PROVE  \E m \in 1 .. Len(past) : Loses(past, m)
<1>1. /\ PastOK(past) /\ WirePast(past) /\ WireRises(past) /\ Tame
      /\ wire \in Seq(Packets) /\ Len(wire) \in Nat /\ wire # <<>>
    BY DEF Known, Loss, TypeInv, Lose
<1>2. /\ 1 \in 1 .. Len(wire) /\ Len(wire') = Len(wire) - 1
      /\ \A j \in 1 .. Len(wire) - 1 : wire'[j] = wire[j + 1]
    BY <1>1, HeadTailProperties DEF Lose
<1>3. PICK m \in OnWire(past) : IsCut(wire[1], past[m], NumberOf(m))
    BY <1>1, <1>2, OnWireIs
<1>4. m \in 1 .. Len(past) /\ wire[1].seq = NumberOf(m) /\ wire[1].call = past[m].call
    BY <1>3 DEF IsCut, OnWire
<1>5. \A l \in OnWire(past) : m <= l
    BY <1>1, <1>2, <1>4, FirstIsFirst
<1>6. /\ OnWire(past)' = OnWire(past) \ {m} /\ WireRises(past)'
      /\ \A j \in 1 .. Len(wire') : \E n \in 1 .. Len(wire) : wire'[j] = wire[n]
  <2>1. \A j \in 1 .. Len(wire) - 1 : wire'[j] = IF j < 1 THEN wire[j] ELSE wire[j + 1]
        BY <1>1, <1>2
  <2> QED BY <1>1, <1>2, <1>4, <2>1, WireLoses
<1>7. /\ network = "lossy" /\ damaged' = damaged \cup {past[m].call}
      /\ UNCHANGED <<fuVars, call, offset, rtp_seq, rtp_timestamp, network>>
    BY <1>1, <1>4 DEF Lose, Damage, Tame
<1> QED BY <1>3, <1>4, <1>5, <1>6, <1>7 DEF Loses

\* The NALU in the buffer and those that are to come
LEMMA LosesHeld ==
    ASSUME TypeInv, NEW past, Known(past), NEW m \in 1 .. Len(past), Loses(past, m)
    PROVE  HeldOK(past)' /\ WindowOK(past)' /\ KeptBehind(past)' /\ Unstarted(past)'
<1> DEFINE d == past[m].call
<1>1. /\ PastOK(past) /\ NaluPast(past) /\ HeldOK(past) /\ KeptBehind(past) /\ Unstarted(past)
      /\ CallsRise(past) /\ Len(past) \in Nat
  <2>1. PastOK(past) /\ NaluPast(past) /\ HeldOK(past) /\ KeptBehind(past) /\ Unstarted(past)
        /\ CallsRise(past)
        BY DEF Known, Loss, RecvPast
  <2> QED BY <2>1 DEF PastOK
<1>2. /\ UNCHANGED <<active, expected_seq, reorder, call, network>>
      /\ network = "lossy" /\ damaged' = damaged \cup {d}
      /\ m \in OnWire(past) /\ \A l \in OnWire(past) : m <= l
      /\ OnWire(past)' = OnWire(past) \ {m}
    BY DEF Loses, fuVars, fuCtx
<1>3. Kept(past)' = Kept(past)
    BY <1>2 DEF Kept
<1>4. Around(past)' \subseteq Around(past) /\ Unsent(past) \subseteq Unsent(past)'
    BY <1>2, <1>3 DEF Around, Unsent
<1>5. HeldOK(past)'
  <2> SUFFICES ASSUME active PROVE HeldOK(past)'
      BY <1>2 DEF HeldOK
  <2>1. PICK a \in 1 .. Len(past) : expected_seq = NumberOf(a + 1) /\ Held(past, a)
        BY <1>1, WaitsFor
  <2>2. ~IsFinal(past[a]) /\ \A k \in OnWire(past)' : k > a \/ (k = a /\ network = "repeat")
        BY <1>2, <2>1 DEF Held
  <2>3. ASSUME past[a].call \notin damaged'
        PROVE  /\ \A k \in Kept(past) : k > a /\ past[k].call = past[a].call =>
                    network = "shuffle" /\ k \notin OnWire(past)' /\ k \in a + 2 .. a + 1 + Window
               /\ \A k \in a + 1 .. Len(past) : past[k].call = past[a].call =>
                    k \in Around(past)' \cup Unsent(past)'
    <3>1. past[a].call \notin damaged /\ past[a].call # d
          BY <1>2, <2>3
    <3>2. /\ \A k \in Kept(past) : k > a /\ past[k].call = past[a].call =>
               network = "shuffle" /\ k \notin OnWire(past) /\ k \in a + 2 .. a + 1 + Window
          /\ \A k \in a + 1 .. Len(past) : past[k].call = past[a].call =>
               k \in Around(past) \cup Unsent(past)
          BY <2>1, <3>1 DEF Held
    <3>3. ASSUME NEW k \in a + 1 .. Len(past), past[k].call = past[a].call
          PROVE  k \in Around(past)' \cup Unsent(past)'
      <4>1. k # m /\ k \in Around(past) \cup Unsent(past)
            BY <3>1, <3>2, <3>3
      <4> QED BY <1>2, <1>3, <1>4, <4>1 DEF Around
    <3> QED BY <1>2, <3>2, <3>3
  <2>4. ASSUME past[a].call \in damaged' PROVE Doomed(past, past[a].call, a + 1)'
    <3>1. CASE past[a].call \in damaged
      <4>1. Doomed(past, past[a].call, a + 1)
            BY <2>1, <3>1 DEF Held
      <4> QED BY <1>2, <1>4, <4>1, DoomedStands
    <3>2. CASE past[a].call \notin damaged
      <4>1. past[m].call = past[a].call
            BY <1>2, <2>4, <3>2
      <4>2. m > a
            BY <1>2, <2>1 DEF Held
      <4>3. m \notin Kept(past)
            BY <1>2, <2>1, <3>2, <4>1, <4>2 DEF Held
      <4>4. m \in a + 1 .. Len(past) /\ m \notin Around(past)'
            BY <1>1, <1>2, <1>3, <4>2, <4>3 DEF Around
      <4> QED BY <4>1, <4>4 DEF Doomed
    <3> QED BY <3>1, <3>2
  <2>5. Held(past, a)'
        BY <1>2, <1>3, <2>2, <2>3, <2>4 DEF Held
  <2> QED BY <1>1, <1>2, <2>1, <2>5, HeldIsEnough
<1>6. WindowOK(past)'
    BY <1>2 DEF WindowOK
<1>7. KeptBehind(past)'
    BY <1>1, <1>2, <1>3 DEF KeptBehind
<1>8. Unstarted(past)'
  <2> SUFFICES ASSUME NEW s \in OnWire(past)', S!IsFu(past[s].call), past[s].off = 0
               PROVE  /\ \A l \in s .. Len(past) :
                           /\ l \notin Kept(past)
                           /\ S!IsFu(past[l].call) /\ past[l].call \notin damaged' =>
                                l \in OnWire(past)' \cup Unsent(past)'
                      /\ past[s].call \in damaged' => Doomed(past, past[s].call, s)'
      BY <1>2, <1>3 DEF Unstarted
  <2>1. s \in OnWire(past) /\ s \in 1 .. Len(past) /\ m < s
    <3>1. s \in OnWire(past) /\ s # m /\ m <= s
          BY <1>2
    <3>2. s \in 1 .. Len(past)
          BY <3>1 DEF OnWire
    <3> QED BY <3>1, <3>2
  <2>2. /\ \A l \in s .. Len(past) :
             /\ l \notin Kept(past)
             /\ S!IsFu(past[l].call) /\ past[l].call \notin damaged =>
                  l \in OnWire(past) \cup Unsent(past)
        /\ past[s].call \in damaged => Doomed(past, past[s].call, s)
        BY <1>1, <2>1 DEF Unstarted
  <2>3. past[s].call # d
        BY <1>1, <2>1 DEF CallsRise
  <2>4. ASSUME NEW l \in s .. Len(past), S!IsFu(past[l].call), past[l].call \notin damaged'
        PROVE  l \in OnWire(past)' \cup Unsent(past)'
    <3>1. l # m
          BY <2>1
    <3>2. l \in OnWire(past) \cup Unsent(past)
          BY <1>2, <2>2, <2>4
    <3> QED BY <1>2, <1>4, <3>1, <3>2
  <2>5. past[s].call \in damaged' => Doomed(past, past[s].call, s)'
        BY <1>2, <1>4, <2>2, <2>3, DoomedStands
  <2> QED BY <2>2, <2>4, <2>5
<1> QED BY <1>5, <1>6, <1>7, <1>8

\* No NALU but that of the lost packet is concerned.
LEMMA LosesFate ==
    ASSUME NEW past, Known(past), NEW m \in 1 .. Len(past), Loses(past, m)
    PROVE  Fate(past)'
<1>1. /\ UNCHANGED <<active, timestamp, expected_seq, pending_fragments, written,
                     call, offset, rtp_timestamp>>
      /\ damaged' = damaged \cup {past[m].call} /\ OnWire(past)' = OnWire(past) \ {m}
      /\ \A j \in 1 .. Len(wire') : \E n \in 1 .. Len(wire) : wire'[j] = wire[n]
    BY DEF Loses, fuVars, fuCtx
<1> SUFFICES ASSUME NEW c \in FuCalls, c \notin damaged', c < call \/ (c = call /\ offset # 0),
                    Fragmented(c) <= MaxFragments
             PROVE  \/ Whole(c) \in ToSet(written)
                    \/ \E s \in OnWire(past)' : past[s].call = c /\ past[s].off = 0
                    \/ Progress(past, c)'
    BY <1>1 DEF Fate, FuCalls, Whole, Buffered, Fragmented
<1>2. c \notin damaged /\ c # past[m].call
    BY <1>1
<1>3. \/ Whole(c) \in ToSet(written)
      \/ \E s \in OnWire(past) : past[s].call = c /\ past[s].off = 0
      \/ Progress(past, c)
    BY <1>2 DEF Known, Loss, Fate
<1>4. ASSUME NEW s \in OnWire(past), past[s].call = c PROVE s \in OnWire(past)'
    BY <1>1, <1>2, <1>4
<1>5. ASSUME Progress(past, c) PROVE Progress(past, c)'
  <2>1. PICK a \in 1 .. Len(past) :
          /\ past[a].call = c /\ expected_seq = NumberOf(a + 1)
          /\ pending_fragments + PacketsLeft(c, Until(past[a])) = Fragmented(c)
          /\ \A j \in 1 .. Len(wire) : wire[j].call = c => wire[j].timestamp = timestamp
          /\ c = call => timestamp = rtp_timestamp
        BY <1>5 DEF Progress
  <2>2. \A j \in 1 .. Len(wire') : wire'[j].call = c => wire'[j].timestamp = timestamp
        BY <1>1, <2>1
  <2>3. active
        BY <1>5 DEF Progress
  <2> QED BY <1>1, <2>1, <2>2, <2>3 DEF Progress, PacketsLeft, Room, Fragmented, NumberOf
<1> QED BY <1>3, <1>4, <1>5

\* A loss keeps the invariant.
LEMMA LossLoses ==
    ASSUME TypeInv, NEW past, Known(past), Lose
    PROVE  Tame' /\ PastSent(past)' /\ Loss(past)' /\ (Spared(past) => Spared(past)')
<1>1. PICK m \in 1 .. Len(past) : Loses(past, m)
    BY LosesIs
<1>2. /\ UNCHANGED <<call, offset, rtp_timestamp, network, expired, written>>
      /\ damaged' = damaged \cup {past[m].call} /\ OnWire(past)' = OnWire(past) \ {m}
      /\ \A j \in 1 .. Len(wire') : \E n \in 1 .. Len(wire) : wire'[j] = wire[n]
      /\ network = "lossy" /\ m \in OnWire(past) /\ WireRises(past)'
    BY <1>1 DEF Loses, fuVars, fuCtx
<1>3. /\ PastSent(past) /\ CallsRise(past) /\ Sized(past) /\ GoesOn(past) /\ DamagedBefore
      /\ Timed /\ Tame /\ ~expired
    BY DEF Known, Loss
<1>4. Tame' /\ ~expired' /\ PastSent(past)' /\ CallsRise(past)' /\ Sized(past)'
    BY <1>2, <1>3 DEF Tame, PastSent, CallsRise, Sized, Room, IsFinal, Until, BodyOf
<1>5. GoesOn(past)'
    BY <1>2, <1>3 DEF GoesOn
<1>6. DamagedBefore'
    BY <1>2, <1>3 DEF DamagedBefore, PastSent
<1>7. Timed'
  <2>1. ASSUME NEW j \in 1 .. Len(wire')
        PROVE  /\ wire'[j].call = call => wire'[j].timestamp = rtp_timestamp
               /\ \A l \in 1 .. Len(wire') : wire'[j].call = wire'[l].call =>
                    wire'[j].timestamp = wire'[l].timestamp
    <3>1. PICK n \in 1 .. Len(wire) : wire'[j] = wire[n]
          BY <1>2
    <3>2. wire[n].call = call => wire[n].timestamp = rtp_timestamp
          BY <1>3 DEF Timed
    <3>3. ASSUME NEW l \in 1 .. Len(wire'), wire'[j].call = wire'[l].call
          PROVE  wire'[j].timestamp = wire'[l].timestamp
      <4>1. PICK x \in 1 .. Len(wire) : wire'[l] = wire[x]
            BY <1>2
      <4>2. wire[n].call = wire[x].call
            BY <3>1, <3>3, <4>1
      <4>3. wire[n].timestamp = wire[x].timestamp
            BY <1>3, <4>2 DEF Timed
      <4> QED BY <3>1, <4>1, <4>3
    <3> QED BY <3>1, <3>2, <3>3
  <2> QED BY <1>2, <2>1 DEF Timed
<1>8. HeldOK(past)' /\ WindowOK(past)' /\ KeptBehind(past)' /\ Unstarted(past)' /\ Fate(past)'
    BY <1>1, LosesHeld, LosesFate
<1>9. ASSUME Spared(past) PROVE Spared(past)'
  <2> SUFFICES ASSUME NEW c \in FuCalls, Whole(c) \in ToSet(written)
               PROVE  /\ c \notin damaged' /\ c < call
                      /\ \A k \in OnWire(past)' : c < past[k].call
      BY <1>2 DEF Spared, FuCalls, Whole, Buffered
  <2>1. c \notin damaged /\ c < call /\ \A k \in OnWire(past) : c < past[k].call
        BY <1>2, <1>9 DEF Spared
  <2>2. c # past[m].call
    <3>1. c \in Int /\ c < past[m].call
          BY <1>2, <2>1 DEF FuCalls, S!Calls
    <3> QED BY <3>1
  <2> QED BY <1>2, <2>1, <2>2
<1> QED BY <1>2, <1>4, <1>5, <1>6, <1>7, <1>8, <1>9 DEF Loss

-----------------------------------------------------------------------------
(* A loss costs the NALU it hits and no other.                             *)

\* The invariant of what is lost, on the networks that lose fragments or
\* shuffle them but not both, and leave the first fragment ahead
LossInv(left) ==
    /\ TypeInv
    /\ \E past \in Seq(Cuts) :
         /\ Past(past, left)
         /\ \/ network \in {"gaps", "early", "any"}
            \/ Known(past) /\ (DistinctNalus => Spared(past))

\* Before anything is sent there is nothing to explain.
LEMMA LossInvInit ==
    ASSUME NEW left, Numbers(left) PROVE MediaInit => LossInv(left)
<1> SUFFICES ASSUME MediaInit PROVE LossInv(left)
    OBVIOUS
<1>1. PICK past \in Seq(Cuts) : past = <<>> /\ Past(past, left)
  <2>1. Past(<<>>, left)
        BY FileInvInit
  <2>2. <<>> \in Seq(Cuts)
        OBVIOUS
  <2> QED BY <2>1, <2>2, Zenon
<1>2. /\ active = FALSE /\ expired = FALSE /\ written = <<>> /\ wire = <<>> /\ damaged = {}
      /\ call = 1 /\ offset = 0 /\ TypeInv
    BY TypeInit DEF MediaInit, FuInit, S!SenderInit
<1>3. Len(past) = 0 /\ Len(wire) = 0 /\ \A k \in 1 .. 0 : FALSE
    BY <1>1, <1>2
<1>4. OnWire(past) = {} /\ Kept(past) = {} /\ PastSent(past)
    BY <1>3 DEF OnWire, Kept, PastSent
<1>5. /\ CallsRise(past) /\ Sized(past) /\ GoesOn(past) /\ WireRises(past) /\ Timed
      /\ DamagedBefore /\ HeldOK(past)
    BY <1>2, <1>3 DEF CallsRise, Sized, GoesOn, WireRises, Timed, DamagedBefore, HeldOK
<1>6. WindowOK(past) /\ KeptBehind(past) /\ Unstarted(past)
  <2>1. \A i \in 1 .. Window : ~reorder[i].used
        BY DEF MediaInit, FuInit, FreeSlot
  <2> QED BY <1>4, <2>1 DEF WindowOK, KeptBehind, Unstarted
<1>7. Fate(past)
  <2>1. \A c \in FuCalls : ~(c < 1)
        BY DEF FuCalls, S!Calls
  <2> QED BY <1>2, <2>1 DEF Fate
<1>8. Spared(past)
  <2>1. ToSet(written) = {}
        BY <1>2 DEF ToSet
  <2> QED BY <2>1 DEF Spared
<1>9. Tame \/ network \in {"gaps", "early", "any"}
    BY MediaAssumption DEF MediaInit, Tame
<1>10. Loss(past)
    BY <1>2, <1>5, <1>6, <1>7 DEF Loss
<1>11. Tame => Known(past)
    BY <1>1, <1>4, <1>10 DEF Known, Past
<1> QED BY <1>1, <1>2, <1>8, <1>9, <1>11 DEF LossInv

\* Every step keeps the invariant.
LEMMA LossInvInductive ==
    ASSUME NEW left, Numbers(left)
    PROVE  LossInv(left) /\ [MediaNext]_mediaVars /\ misread' = 0 => LossInv(left)'
<1> SUFFICES ASSUME LossInv(left), [MediaNext]_mediaVars, misread' = 0 PROVE LossInv(left)'
    OBVIOUS
<1>1. TypeInv /\ TypeInv'
    BY TypeInductive DEF LossInv
<1>2. PICK past \in Seq(Cuts) :
        /\ Past(past, left)
        /\ \/ network \in {"gaps", "early", "any"}
           \/ Known(past) /\ (DistinctNalus => Spared(past))
    BY DEF LossInv
<1>3. network' = network
    BY DEF MediaNext, Send, Arrive, Lose, Delay, Finished, mediaVars
<1>4. DistinctNalus' <=> DistinctNalus
    BY DEF DistinctNalus, FuCalls, Whole, Buffered
<1>5. ASSUME NEW p \in Seq(Cuts), Past(p, left)',
             Known(past) => Tame' /\ PastSent(p)' /\ Loss(p)',
             Known(past) /\ DistinctNalus /\ Spared(past) => Spared(p)'
      PROVE  LossInv(left)'
  <2>1. Known(past) => Known(p)'
        BY <1>5 DEF Known, Past
  <2>2. \/ network' \in {"gaps", "early", "any"}
        \/ Known(p)' /\ (DistinctNalus' => Spared(p)')
        BY <1>2, <1>3, <1>4, <1>5, <2>1
  <2> QED BY <1>1, <1>5, <2>2 DEF LossInv
<1>6. CASE Send
  <2>1. PICK longer \in Seq(Cuts) :
          Past(longer, left)' /\ (longer = past \/ longer = Append(past, NextCut))
        BY <1>1, <1>2, <1>6, SendKeepsPast
  <2>2. ASSUME Known(past)
        PROVE  Tame' /\ PastSent(longer)' /\ Loss(longer)' /\ (Spared(past) => Spared(longer)')
        BY <1>1, <1>2, <1>6, <2>1, <2>2, LossSends
  <2> QED BY <1>5, <2>1, <2>2
<1>7. CASE Arrive
  <2>1. Past(past, left)'
        BY <1>1, <1>2, <1>7, ArriveKeepsPast
  <2>2. ASSUME Known(past)
        PROVE  /\ Tame' /\ PastSent(past)' /\ Loss(past)'
               /\ DistinctNalus /\ Spared(past) => Spared(past)'
        BY <1>1, <1>7, <2>2, LossArrives
  <2> QED BY <1>2, <1>5, <2>1, <2>2
<1>8. CASE Lose
  <2>1. Past(past, left)'
        BY <1>1, <1>2, <1>8, LoseKeepsPast
  <2>2. ASSUME Known(past)
        PROVE  Tame' /\ PastSent(past)' /\ Loss(past)' /\ (Spared(past) => Spared(past)')
        BY <1>1, <1>8, <2>2, LossLoses
  <2> QED BY <1>2, <1>5, <2>1, <2>2
<1>9. CASE Delay
  <2>1. Past(past, left)'
        BY <1>2, <1>9, StandKeepsPast
  <2>2. ~Known(past)
        BY <1>9 DEF Known, Tame, Delay
  <2> QED BY <1>2, <1>5, <2>1, <2>2
<1>10. CASE UNCHANGED mediaVars
  <2>1. Past(past, left)'
        BY <1>2, <1>10, StandKeepsPast
  <2>2. UNCHANGED <<active, timestamp, nalu, pending_fragments, expected_seq, reorder, expired,
                    written, call, offset, rtp_seq, rtp_timestamp, network, wire, damaged>>
        BY <1>10 DEF mediaVars, fuVars, fuCtx
  <2>3. /\ OnWire(past)' = OnWire(past) /\ Kept(past)' = Kept(past)
        /\ Unsent(past)' = Unsent(past) /\ Around(past)' = Around(past)
        BY <2>2 DEF OnWire, Kept, Unsent, Around, NumberOf
  <2>4. /\ Tame => Tame'
        /\ PastSent(past) => PastSent(past)'
        /\ CallsRise(past) /\ Sized(past) /\ GoesOn(past) /\ WireRises(past) =>
             CallsRise(past)' /\ Sized(past)' /\ GoesOn(past)' /\ WireRises(past)'
        /\ Timed /\ DamagedBefore => Timed' /\ DamagedBefore'
        BY <2>2 DEF Tame, PastSent, CallsRise, Sized, Room, GoesOn, WireRises, Timed,
                    DamagedBefore, IsFinal, Until, BodyOf, NumberOf
  <2>5. ASSUME NEW c, NEW b PROVE Doomed(past, c, b)' <=> Doomed(past, c, b)
        BY <2>2, <2>3 DEF Doomed
  <2>6. ASSUME NEW a PROVE Held(past, a)' <=> Held(past, a)
        BY <2>2, <2>3, <2>5 DEF Held
  <2>7. HeldOK(past) => HeldOK(past)'
        BY <2>2, <2>6 DEF HeldOK, NumberOf
  <2>8. /\ WindowOK(past) => WindowOK(past)'
        /\ KeptBehind(past) => KeptBehind(past)'
        BY <2>2, <2>3 DEF WindowOK, KeptBehind, NumberOf
  <2>9. Unstarted(past) => Unstarted(past)'
        BY <2>2, <2>3, <2>5 DEF Unstarted
  <2>10. ASSUME NEW c PROVE Progress(past, c)' <=> Progress(past, c)
        BY <2>2 DEF Progress, PacketsLeft, Room, Fragmented, NumberOf
  <2>11. Fate(past) => Fate(past)'
        BY <2>2, <2>3, <2>10 DEF Fate, FuCalls, Whole, Buffered, Fragmented
  <2>12. Spared(past) => Spared(past)'
        BY <2>2, <2>3 DEF Spared, FuCalls, Whole, Buffered
  <2>13. Known(past) => Tame' /\ PastSent(past)' /\ Loss(past)'
        BY <2>2, <2>4, <2>7, <2>8, <2>9, <2>11 DEF Known, Loss
  <2> QED BY <1>2, <1>5, <2>1, <2>12, <2>13
<1> QED BY <1>6, <1>7, <1>8, <1>9, <1>10 DEF MediaNext, Finished

\* Nothing is on its way: a NALU that was not hit has been received.
LEMMA NothingElseIsLost ==
    ASSUME TypeInv, NEW past, Known(past), Quiet, NEW c \in FuCalls, c \notin damaged,
           Fragmented(c) <= MaxFragments
    PROVE  c \in Received
<1>1. /\ Len(wire) = 0 /\ call > Len(Stream) /\ c \in 1 .. Len(Stream) /\ Len(Stream) \in Nat
      /\ call \in Int
    BY MediaAssumption DEF TypeInv, SenderType, Quiet, AllSent, FuCalls, S!Calls
<1>2. OnWire(past) = {}
    BY <1>1 DEF OnWire
<1>3. ~Progress(past, c)
  <2> SUFFICES ASSUME Progress(past, c) PROVE FALSE
      OBVIOUS
  <2>1. PICK a \in 1 .. Len(past) : past[a].call = c /\ expected_seq = NumberOf(a + 1)
        BY DEF Progress
  <2>2. Held(past, a)
        BY <2>1 DEF Known, Loss, HeldOK, Progress
  <2>3. ~IsFinal(past[a])
        BY <2>2 DEF Held
  <2>4. a < Len(past) /\ past[a + 1].call = c
    <3>1. c # call
          BY <1>1
    <3> QED BY <2>1, <2>3, <3>1 DEF Known, Loss, GoesOn
  <2>5. Len(past) \in Nat
        BY DEF Known, PastOK
  <2>6. a + 1 \in a + 1 .. Len(past) /\ a + 1 > a /\ a + 1 \notin a + 2 .. a + 1 + Window
        BY <2>4, <2>5, ConstantTypes
  <2>7. a + 1 \in Around(past) \cup Unsent(past)
        BY <2>1, <2>2, <2>4, <2>6 DEF Held
  <2>8. a + 1 \notin Kept(past)
        BY <2>1, <2>2, <2>4, <2>6 DEF Held
  <2>9. a + 1 \notin Unsent(past)
        BY <2>4 DEF Unsent
  <2> QED BY <1>2, <2>7, <2>8, <2>9 DEF Around
<1>4. c < call
    BY <1>1
<1>5. Whole(c) \in ToSet(written)
    BY <1>2, <1>3, <1>4 DEF Known, Loss, Fate
<1> QED BY <1>5 DEF Received

\* What is known of the losses, as long as no packet was misread
LossKnown(left) == TypeInv /\ (misread = 0 => LossInv(left))

LEMMA LossIsKnown ==
    ASSUME NEW left, Numbers(left) PROVE MediaSpec => []LossKnown(left)
<1>1. MediaInit => LossKnown(left)
    BY LossInvInit, TypeInit DEF LossKnown
<1>2. LossKnown(left) /\ [MediaNext]_mediaVars => LossKnown(left)'
  <2> SUFFICES ASSUME LossKnown(left), [MediaNext]_mediaVars PROVE LossKnown(left)'
      OBVIOUS
  <2>1. TypeInv /\ TypeInv'
        BY TypeInductive DEF LossKnown
  <2>2. misread' = 0 => LossInv(left)'
        BY <2>1, TrustedStep, LossInvInductive DEF LossKnown
  <2> QED BY <2>1, <2>2 DEF LossKnown
<1> QED BY <1>1, <1>2, PTL DEF MediaSpec

\* The half of LossIsIsolated that holds whatever the NALUs are
OthersArrive ==
    Quiet /\ misread = 0 /\ network \notin {"gaps", "early", "any"} =>
      \A c \in FuCalls \ damaged : Fragmented(c) <= MaxFragments => c \in Received

\* Where fragments are lost, repeated, or overtake each other by no more than
\* the window, and the first does not fall behind, and no packet is taken for
\* what it is not: when all is sent and nothing is on its way, every NALU that
\* no loss hit, and that has no more fragments than the receiver waits for, is
\* in the file.
THEOREM LossCostsNoOther ==
    ASSUME NumbersSuffice
    PROVE  MediaSpec => []OthersArrive
<1>1. PICK left : Numbers(left)
    BY DEF NumbersSuffice, Numbers
<1>2. MediaSpec => []LossKnown(left)
    BY <1>1, LossIsKnown
<1>3. LossKnown(left) => OthersArrive
    BY NothingElseIsLost DEF LossKnown, LossInv, OthersArrive
<1> QED BY <1>2, <1>3, PTL

\* And where the NALUs of the stream differ, as far as the receiver's buffer
\* holds them, no NALU that a loss hit is in the file: a loss costs the NALU it
\* hits and no other.
THEOREM LossCostsOneNalu ==
    ASSUME NumbersSuffice, DistinctNalus
    PROVE  MediaSpec => []LossIsIsolated
<1>1. PICK left : Numbers(left)
    BY DEF NumbersSuffice, Numbers
<1>2. MediaSpec => []LossKnown(left)
    BY <1>1, LossIsKnown
<1>3. LossInv(left) => Received \subseteq FuCalls \ damaged \/ network \in {"gaps", "early", "any"}
    BY DEF LossInv, Received, Spared
<1>4. MediaSpec => []OthersArrive
    BY LossCostsNoOther
<1>5. OthersArrive /\ LossKnown(left) => LossIsIsolated
    BY <1>3 DEF LossKnown, OthersArrive, LossIsIsolated
<1> QED BY <1>2, <1>4, <1>5, PTL

-----------------------------------------------------------------------------
(* Fragmentation and reassembly implement the file of NALUs.               *)

\* The file as calls
LEMMA FileIs ==
    ASSUME TypeInv, AllWhole, DistinctNalus, Tame, misread = 0
    PROVE  /\ File \in Seq(FuCalls) /\ Len(File) = Len(written) /\ Len(written) \in Nat
           /\ \A i \in 1 .. Len(written) : Whole(File[i]) = written[i]
           /\ \A c \in FuCalls : c \in ToSet(File) <=> Whole(c) \in ToSet(written)
           /\ ToSet(File) = {File[i] : i \in 1 .. Len(written)}
<1>1. /\ written \in Seq(Nalus) /\ Len(written) \in Nat /\ DOMAIN written = 1 .. Len(written)
      /\ ToSet(written) = {written[i] : i \in 1 .. Len(written)} /\ Trusted = written
    BY DEF TypeInv, FuTypeOK, ToSet, Trusted
<1>2. ASSUME NEW i \in 1 .. Len(written)
      PROVE  File[i] \in FuCalls /\ Whole(File[i]) = written[i]
  <2>1. \E c \in FuCalls : Whole(c) = written[i]
        BY <1>1 DEF AllWhole
  <2>2. File[i] = CallOf(written[i])
        BY <1>1 DEF File
  <2> QED BY <2>1, <2>2 DEF CallOf
<1>3. File = [i \in 1 .. Len(written) |-> File[i]]
    BY <1>1 DEF File
<1>4. File \in Seq(FuCalls) /\ Len(File) = Len(written)
    BY <1>1, <1>2, <1>3
<1>5. ToSet(File) = {File[i] : i \in 1 .. Len(written)}
    BY <1>1, <1>3 DEF ToSet
<1>6. ASSUME NEW c \in FuCalls PROVE c \in ToSet(File) <=> Whole(c) \in ToSet(written)
  <2>1. ASSUME c \in ToSet(File) PROVE Whole(c) \in ToSet(written)
        BY <1>1, <1>2, <1>5, <2>1
  <2>2. ASSUME Whole(c) \in ToSet(written) PROVE c \in ToSet(File)
    <3>1. PICK i \in 1 .. Len(written) : written[i] = Whole(c)
          BY <1>1, <2>2
    <3>2. File[i] = c
          BY <1>2, <3>1 DEF DistinctNalus
    <3> QED BY <1>5, <3>2
  <2> QED BY <2>1, <2>2
<1> QED BY <1>1, <1>2, <1>4, <1>5, <1>6

\* It grows with what is written.
LEMMA FileGrows ==
    ASSUME TypeInv, AllWhole, DistinctNalus, Tame, Tame', NEW c \in FuCalls,
           misread = 0, misread' = 0, Whole(c) \in Nalus,
           written' = Append(written, Whole(c))
    PROVE  File' = Append(File, c)
<1>1. File \in Seq(FuCalls) /\ Len(File) = Len(written) /\ Len(written) \in Nat
    BY FileIs
<1>2. /\ Trusted' = written' /\ written \in Seq(Nalus) /\ DOMAIN written = 1 .. Len(written)
      /\ DOMAIN written' = 1 .. Len(written) + 1
      /\ written'[Len(written) + 1] = Whole(c)
      /\ \A i \in 1 .. Len(written) : written'[i] = written[i]
  <2>1. written \in Seq(Nalus)
        BY DEF TypeInv, FuTypeOK
  <2> QED BY <1>1, <2>1, AppendProperties DEF Trusted
<1>3. CallOf(Whole(c)) = c
    BY DEF CallOf, DistinctNalus
<1>4. File' = [i \in 1 .. Len(written) + 1 |-> CallOf(written'[i])]
  <2>1. File' = [i \in DOMAIN Trusted' |-> CallOf(Trusted'[i])]
        BY DEF File, CallOf, FuCalls, Whole, Buffered
  <2> QED BY <1>2, <2>1
<1>5. Append(File, c) = [i \in 1 .. Len(written) + 1 |-> IF i = Len(written) + 1 THEN c ELSE File[i]]
  <2> DEFINE more == Append(File, c)
  <2>1. /\ more \in Seq(FuCalls) /\ Len(more) = Len(written) + 1
        /\ more[Len(written) + 1] = c
        /\ \A i \in 1 .. Len(written) : more[i] = File[i]
        BY <1>1, AppendProperties
  <2> HIDE DEF more
  <2>2. more = [i \in 1 .. Len(written) + 1 |-> more[i]]
        BY <2>1
  <2>3. ASSUME NEW i \in 1 .. Len(written) + 1
        PROVE  more[i] = IF i = Len(written) + 1 THEN c ELSE File[i]
        BY <1>1, <2>1
  <2>4. more = [i \in 1 .. Len(written) + 1 |-> IF i = Len(written) + 1 THEN c ELSE File[i]]
        BY <2>2, <2>3
  <2> QED BY <2>4 DEF more
<1>6. ASSUME NEW i \in 1 .. Len(written) PROVE CallOf(written[i]) = File[i]
    BY <1>1, <1>2 DEF File, Trusted
<1>7. ASSUME NEW i \in 1 .. Len(written) + 1
      PROVE  CallOf(written'[i]) = IF i = Len(written) + 1 THEN c ELSE File[i]
  <2>1. CASE i = Len(written) + 1
        BY <1>2, <1>3, <2>1
  <2>2. CASE i # Len(written) + 1
    <3>1. i \in 1 .. Len(written)
          BY <1>1, <2>2
    <3>2. CallOf(written'[i]) = CallOf(written[i])
          BY <1>2, <3>1
    <3> QED BY <1>6, <2>2, <3>1, <3>2
  <2> QED BY <2>1, <2>2
<1> QED BY <1>4, <1>5, <1>7

\* After a NALU was written the context is free.
LEMMA WritingResets ==
    ASSUME NEW p, HandlePacket(p) PROVE UNCHANGED written \/ ~active'
<1>1. ASSUME NEW n, Complete(n) PROVE ~active'
    BY <1>1 DEF Complete, Reset
<1>2. Start(p) => UNCHANGED written \/ ~active'
    BY <1>1 DEF Start, Begin
<1>3. Continue(p) => UNCHANGED written \/ ~active'
    BY <1>1 DEF Continue
<1>4. MissingStart(p) \/ DiscardStale(p) \/ IgnoreDuplicate(p) \/ Store(p) \/ DiscardUnordered(p) =>
        UNCHANGED written
    BY DEF MissingStart, DiscardStale, IgnoreDuplicate, Store, DiscardUnordered, fuVars
<1> QED BY <1>2, <1>3, <1>4 DEF HandlePacket

\* When a NALU is written, no earlier one is missing that was not hit and fits.
LEMMA NoneIsPassed ==
    ASSUME TypeInv, NEW past, Known(past), NEW i, NEW k, Arrives(past, i, k), ReadWell(wire[i]),
           Fate(past)', Writes(past, k), ~(UNCHANGED written), NEW d \in FuCalls \ damaged,
           d < past[k].call, Fragmented(d) <= MaxFragments
    PROVE  Whole(d) \in ToSet(written')
<1>1. ~active'
    BY WritingResets DEF ReadWell, Handled, fuVars
<1>2. ~Progress(past, d)'
    BY <1>1 DEF Progress
<1>3. /\ UNCHANGED <<call, offset, damaged>> /\ OnWire(past)' \subseteq OnWire(past)
    BY DEF Arrives
<1>4. d \in Int /\ past[k].call \in Int /\ past[k].call < call /\ call \in Int
  <2>1. d \in S!Calls /\ past[k].call \in S!Calls /\ past[k].call < call
        BY DEF FuCalls, Writes
  <2> QED BY <2>1 DEF S!Calls, TypeInv, SenderType
<1>5. d < call
    BY <1>4
<1>6. ASSUME NEW s \in OnWire(past)', past[s].call = d PROVE FALSE
  <2>1. PICK m \in OnWire(past) : (\A l \in OnWire(past) : m <= l) /\ past[m].call = past[k].call
        BY DEF Arrives
  <2>2. m <= s /\ m \in 1 .. Len(past) /\ s \in 1 .. Len(past)
        BY <1>3, <2>1 DEF OnWire
  <2>3. past[m].call <= past[s].call
    <3>1. CASE m = s
          BY <1>4, <1>6, <3>1
    <3>2. CASE m < s
          BY <2>2, <3>2 DEF Known, Loss, CallsRise
    <3>3. m \in Int /\ s \in Int
          BY <2>2
    <3> QED BY <2>2, <3>1, <3>2, <3>3
  <2> QED BY <1>4, <1>6, <2>1, <2>3
<1>7. (d \in FuCalls \ damaged)' /\ (Fragmented(d) <= MaxFragments)' /\ (d < call)'
    BY <1>3, <1>5 DEF FuCalls, Fragmented
<1>8. \/ Whole(d)' \in ToSet(written')
      \/ \E s \in OnWire(past)' : past[s].call = d /\ past[s].off = 0
      \/ Progress(past, d)'
    BY <1>7 DEF Fate
<1> QED BY <1>2, <1>6, <1>8 DEF Whole, Buffered

\* A NALU that is written is delivered, or it came once more.
LEMMA WritingDelivers ==
    ASSUME TypeInv, AllWhole, AllInOrder', DistinctNalus, NEW past, Known(past),
           NEW i, NEW k, Arrives(past, i, k), ReadWell(wire[i]), Fate(past)', Writes(past, k),
           ~(UNCHANGED written), misread = 0, misread' = 0
    PROVE  Abstract!Deliver \/ Abstract!Repeat
<1> DEFINE c == past[k].call
<1>0. Tame /\ Tame' /\ Hit = damaged /\ UNCHANGED Hit
    BY DEF Arrives, Known, Tame, Hit
<1>1. /\ c \in FuCalls \ damaged /\ c < call /\ Whole(c) \in Nalus /\ c \in Int
      /\ written' = Append(written, Whole(c))
    BY DEF Writes, FuCalls, S!Calls
<1>2. UNCHANGED <<call, damaged>> /\ network' # "any"
    BY DEF Arrives, Known, Tame
<1>3. /\ File \in Seq(FuCalls) /\ Len(File) = Len(written) /\ Len(written) \in Nat
      /\ \A j \in 1 .. Len(written) : Whole(File[j]) = written[j]
      /\ \A d \in FuCalls : d \in ToSet(File) <=> Whole(d) \in ToSet(written)
      /\ ToSet(File) = {File[j] : j \in 1 .. Len(written)}
    BY <1>0, FileIs
<1> HIDE DEF c
<1>4. File' = Append(File, c)
    BY <1>0, <1>1, FileGrows
<1>5. /\ written \in Seq(Nalus) /\ DOMAIN written' = 1 .. Len(written) + 1
      /\ written'[Len(written) + 1] = Whole(c)
      /\ \A j \in 1 .. Len(written) : written'[j] = written[j]
  <2>1. written \in Seq(Nalus)
        BY DEF TypeInv, FuTypeOK
  <2> QED BY <1>1, <1>3, <2>1, AppendProperties
<1>6. ASSUME NEW j \in 1 .. Len(written) + 1, NEW l \in 1 .. Len(written) + 1, j < l,
             NEW x \in FuCalls, NEW y \in FuCalls,
             written'[j] = Whole(x), written'[l] = Whole(y)
      PROVE  x < y \/ (x = y /\ Fragmented(x) = 1)
  <2>1. PICK u \in FuCalls, v \in FuCalls :
          /\ written'[j] = Whole(u) /\ written'[l] = Whole(v)
          /\ u < v \/ (u = v /\ Fragmented(u) = 1)
    <3>1. FuCalls' = FuCalls /\ \A x1 : Whole(x1)' = Whole(x1) /\ Fragmented(x1)' = Fragmented(x1)
          BY DEF FuCalls, Whole, Buffered, Fragmented
    <3>2. j \in DOMAIN written' /\ l \in DOMAIN written' /\ j < l
          BY <1>5, <1>6
    <3> QED BY <1>2, <3>1, <3>2 DEF AllInOrder
  <2>2. u = x /\ v = y
        BY <1>6, <2>1 DEF DistinctNalus
  <2> QED BY <2>1, <2>2
<1>7. ASSUME NEW j \in 1 .. Len(written), NEW x \in FuCalls, File[j] = x
      PROVE  x < c \/ (x = c /\ Fragmented(c) = 1)
  <2>1. /\ j \in 1 .. Len(written) + 1 /\ Len(written) + 1 \in 1 .. Len(written) + 1
        /\ j < Len(written) + 1
        BY <1>3
  <2>2. written'[j] = Whole(x) /\ c \in FuCalls /\ written'[Len(written) + 1] = Whole(c)
        BY <1>1, <1>3, <1>5, <1>7
  <2>3. x < c \/ (x = c /\ Fragmented(x) = 1)
        BY <1>6, <2>1, <2>2
  <2> QED BY <2>3
<1>8. CASE c \in ToSet(File)
  <2>1. PICK j \in 1 .. Len(written) : File[j] = c
        BY <1>3, <1>8
  <2>2. Fragmented(c) = 1
        BY <1>1, <1>7, <2>1
  <2>3. Last(File) = c
    <3>1. File[Len(written)] \in FuCalls /\ Len(written) \in 1 .. Len(written)
          BY <1>3, <2>1
    <3>2. File[Len(written)] \in Int
          BY <3>1 DEF FuCalls, S!Calls
    <3>3. File[Len(written)] <= c
          BY <1>1, <1>7, <3>1, <3>2
    <3>4. j = Len(written) \/ j < Len(written)
          BY <1>3
    <3>5. c <= File[Len(written)]
      <4>1. CASE j = Len(written)
            BY <1>1, <2>1, <4>1
      <4>2. CASE j < Len(written)
        <5>1. /\ j \in 1 .. Len(written) + 1 /\ Len(written) \in 1 .. Len(written) + 1
              /\ written'[j] = Whole(c) /\ written'[Len(written)] = Whole(File[Len(written)])
              BY <1>3, <1>5, <2>1, <3>1
        <5>2. c \in FuCalls
              BY <1>1
        <5>3. ASSUME NEW y \in FuCalls, written'[Len(written)] = Whole(y) PROVE c <= y
          <6>1. c < y \/ (c = y /\ Fragmented(c) = 1)
                BY <1>6, <4>2, <5>1, <5>2, <5>3
          <6> QED BY <1>1, <6>1
        <5> QED BY <3>1, <5>1, <5>3
      <4> QED BY <3>4, <4>1, <4>2
    <3>6. File[Len(written)] = c
          BY <1>1, <3>2, <3>3, <3>5
    <3> QED BY <1>3, <3>6 DEF Last
  <2>4. File # <<>>
        BY <1>3, <2>1
  <2> QED BY <1>0, <1>1, <1>2, <1>4, <2>2, <2>3, <2>4 
          DEF Abstract!Repeat, Abstract!Last, Last, Single
<1>9. CASE c \notin ToSet(File)
  <2>1. ASSUME NEW d \in ToSet(File) PROVE d < c
        BY <1>3, <1>7, <1>9, <2>1
  <2>2. ASSUME NEW d \in {x \in FuCalls : Fragmented(x) <= MaxFragments} \ Hit, d < c
        PROVE  d \in ToSet(File)
    <3>1. Whole(d) \in ToSet(written')
          BY <1>0, <2>2, NoneIsPassed DEF c
    <3>2. Whole(d) # Whole(c)
      <4>1. d # c
            BY <1>1, <2>2
      <4> QED BY <1>1, <2>2, <4>1 DEF DistinctNalus
    <3>3. Whole(d) \in ToSet(written)
      <4>1. written \in Seq(Nalus)
            BY <1>5
      <4> QED BY <1>1, <3>1, <3>2, <4>1, GrownFile
    <3> QED BY <1>3, <2>2, <3>3
  <2> QED BY <1>0, <1>1, <1>2, <1>4, <2>1, <2>2 
          DEF Abstract!Deliver, Abstract!ToSet, ToSet, Fitting
<1> QED BY <1>8, <1>9

\* Every step of the media is a step of the file, or none.
LEMMA FileStep ==
    ASSUME NEW left, Numbers(left), DistinctNalus, LossInv(left), LossInv(left)', Tame,
           AllWhole, AllInOrder', [MediaNext]_mediaVars, misread = 0, misread' = 0
    PROVE  [Abstract!Next]_<<call, Hit, File>>
<1>1. TypeInv
    BY DEF LossInv
<1>2. PICK past \in Seq(Cuts) : Past(past, left) /\ Known(past) /\ Spared(past)
    BY DEF LossInv, Tame
<1>3. call \in Nat
  <2>1. call \in 1 .. Len(Stream) + 1 /\ Len(Stream) \in Nat
        BY <1>1, MediaAssumption DEF TypeInv, SenderType
  <2> QED BY <2>1
<1>4. UNCHANGED network /\ Tame' /\ Hit = damaged /\ Hit' = damaged'
  <2>1. UNCHANGED network
        BY DEF MediaNext, Send, Arrive, Lose, Delay, Finished, mediaVars
  <2> QED BY <2>1 DEF Tame, Hit
<1>5. UNCHANGED written => UNCHANGED File
    BY <1>4 DEF File, Trusted, CallOf, FuCalls, Whole, Buffered
<1>6. CASE Send
  <2>1. UNCHANGED File
        BY <1>5, <1>6 DEF Send, fuVars
  <2>2. CASE S!SendChunk /\ UNCHANGED damaged
    <3>1. call' = call + 1 \/ UNCHANGED call
          BY <2>2 DEF S!SendChunk, S!NextCall
    <3> QED BY <1>4, <2>1, <2>2, <3>1 DEF Abstract!Next, Abstract!Pass
  <2>3. CASE S!SendChunkFails /\ damaged' = Damage(call)
    <3>1. call' = call + 1 /\ damaged' = damaged \cup {call}
          BY <2>3 DEF S!SendChunkFails, S!NextCall, Damage, Tame
    <3> QED BY <1>4, <2>1, <3>1 DEF Abstract!Next, Abstract!GiveUp
  <2> QED BY <1>6, <2>2, <2>3 DEF Send
<1>7. CASE Arrive
  <2>1. PastOK(past) /\ WirePast(past) /\ WireRises(past) /\ FuTypeOK
        BY <1>1, <1>2 DEF Known, Loss, TypeInv
  <2>2. PICK i, k : Arrives(past, i, k) /\ ReadWell(wire[i]) /\ WireRises(past)'
        BY <1>1, <1>7, <2>1, ArrivesIs
  <2>3. Fate(past)' /\ (UNCHANGED written \/ Writes(past, k))
        BY <1>1, <1>2, <2>1, <2>2, ArrivesAll
  <2>4. CASE UNCHANGED written
        BY <1>5, <1>4, <2>2, <2>4 DEF Arrives
  <2>5. CASE Writes(past, k) /\ ~(UNCHANGED written)
    <3>1. Abstract!Deliver \/ Abstract!Repeat
          BY <1>1, <1>2, <2>2, <2>3, <2>5, WritingDelivers
    <3> QED BY <3>1 DEF Abstract!Next
  <2> QED BY <2>3, <2>4, <2>5
<1>8. CASE Lose
  <2>1. PICK m \in 1 .. Len(past) : Loses(past, m)
        BY <1>1, <1>2, <1>8, LosesIs
  <2> DEFINE c == past[m].call
  <2>2. /\ network = "lossy" /\ m \in OnWire(past) /\ damaged' = damaged \cup {c}
        /\ UNCHANGED call /\ UNCHANGED written
        BY <2>1 DEF Loses, fuVars
  <2>3. c \in 1 .. call
    <3>1. m \in Nat /\ m >= 1 /\ Len(past) \in Nat /\ past[m] \in Cuts
          BY <1>2, <2>1 DEF Known, PastOK
    <3>2. c \in S!Calls
          BY <3>1 DEF Cuts
    <3>3. c <= call
          BY <1>2, <1>3, <2>1, <3>2 DEF Known, PastSent, S!Calls
    <3> QED BY <1>3, <3>2, <3>3 DEF S!Calls
  <2>4. c \notin ToSet(File)
    <3> SUFFICES ASSUME c \in ToSet(File) PROVE FALSE
        OBVIOUS
    <3>1. c \in FuCalls /\ Whole(c) \in ToSet(written)
      <4>1. c \in FuCalls
            BY <1>1, FileIs
      <4> QED BY <1>1, <4>1, FileIs
    <3>2. c < c
          BY <1>2, <2>2, <3>1 DEF Spared
    <3> QED BY <2>3, <3>2
  <2>5. UNCHANGED File
        BY <1>5, <2>2
  <2> HIDE DEF c
  <2>6. Abstract!Lose
        BY <1>4, <2>2, <2>3, <2>4, <2>5 DEF Abstract!Lose, Abstract!ToSet, ToSet
  <2> QED BY <2>6 DEF Abstract!Next
<1>9. CASE Delay
    BY <1>9 DEF Delay, Tame
<1>10. CASE UNCHANGED mediaVars
    BY <1>5, <1>10, <1>4 DEF mediaVars, fuVars
<1> QED BY <1>6, <1>7, <1>8, <1>9, <1>10 DEF MediaNext, Finished

\* Elsewhere the file of GbNaluFile stays empty, and the calls just pass.
LEMMA OtherStep ==
    ASSUME ~Tame, [MediaNext]_mediaVars
    PROVE  [Abstract!Next]_<<call, Hit, File>>
<1>1. ~Tame'
    BY DEF MediaNext, Send, Arrive, Lose, Delay, Finished, mediaVars, Tame
<1>2. UNCHANGED <<Hit, File>>
    BY <1>1 DEF Hit, File
<1>3. call' = call + 1 \/ UNCHANGED call
    BY DEF MediaNext, Send, Arrive, Lose, Delay, Finished, mediaVars, S!SendChunk,
           S!SendChunkFails, S!NextCall
<1> QED BY <1>2, <1>3 DEF Abstract!Next, Abstract!Pass

\* The NALUs in the file are those of earlier calls; what can be lost comes
\* after them.
Passed ==
    Tame =>
      /\ \A i \in 1 .. Len(wire) : wire[i].call <= call
      /\ \A c \in ToSet(File) :
           c \in S!Calls /\ c < call /\ (network = "lossy" => \A i \in 1 .. Len(wire) : c < wire[i].call)

LEMMA PassedIs ==
    ASSUME NEW left, DistinctNalus
    PROVE  LossInv(left) /\ AllWhole /\ misread = 0 => Passed
<1> SUFFICES ASSUME LossInv(left), AllWhole, misread = 0, Tame
             PROVE  /\ \A i \in 1 .. Len(wire) : wire[i].call <= call
                    /\ \A c \in ToSet(File) :
                         /\ c \in S!Calls /\ c < call
                         /\ network = "lossy" => \A i \in 1 .. Len(wire) : c < wire[i].call
    BY DEF Passed
<1>1. PICK past \in Seq(Cuts) : Past(past, left) /\ Known(past) /\ Spared(past)
    BY DEF LossInv, Tame
<1>2. TypeInv /\ call \in Int
    BY DEF LossInv, TypeInv, SenderType
<1>3. \A i \in 1 .. Len(wire) : \E k \in OnWire(past) :
         k \in 1 .. Len(past) /\ wire[i].call = past[k].call
    BY <1>1, OnWireIs DEF Past, IsCut
<1>4. \A i \in 1 .. Len(wire) : wire[i].call <= call
  <2>1. \A k \in 1 .. Len(past) : past[k].call < call \/ past[k].call = call
        BY <1>1 DEF Known, PastSent
  <2>2. \A i \in 1 .. Len(wire) : wire[i].call \in Int
    <3>1. \A i \in 1 .. Len(wire) : wire[i] \in Packets
          BY <1>2 DEF TypeInv
    <3>2. \A p \in Packets : p.call \in Int
          BY DEF Packets, S!Calls
    <3> QED BY <3>1, <3>2
  <2> QED BY <1>2, <1>3, <2>1, <2>2
<1>5. ASSUME NEW c \in ToSet(File)
      PROVE  /\ c \in S!Calls /\ c < call
             /\ network = "lossy" => \A i \in 1 .. Len(wire) : c < wire[i].call
  <2>1. c \in FuCalls /\ Whole(c) \in ToSet(written)
    <3>1. /\ File \in Seq(FuCalls)
          /\ \A d \in FuCalls : d \in ToSet(File) <=> Whole(d) \in ToSet(written)
          BY <1>2, FileIs
    <3>2. c \in FuCalls
          BY <3>1 DEF ToSet
    <3> QED BY <3>1, <3>2
  <2> QED BY <1>1, <1>3, <2>1 DEF Spared, FuCalls
<1> QED BY <1>4, <1>5

\* Where the file does not grow they stay so.
LEMMA PassedStands ==
    ASSUME TypeInv, Passed, [MediaNext]_mediaVars, Trusted' = Trusted
    PROVE  Passed'
<1>1. UNCHANGED network
    BY DEF MediaNext, Send, Arrive, Lose, Delay, Finished, mediaVars
<1> SUFFICES ASSUME Tame
             PROVE  /\ \A i \in 1 .. Len(wire') : wire'[i].call <= call'
                    /\ \A c \in ToSet(File) :
                         /\ c \in S!Calls /\ c < call'
                         /\ network = "lossy" => \A i \in 1 .. Len(wire') : c < wire'[i].call
  <2>1. File' = File /\ Tame' = Tame
        BY <1>1 DEF File, CallOf, FuCalls, Whole, Buffered, Tame
  <2> QED BY <1>1, <2>1 DEF Passed, ToSet
<1>2. /\ wire \in Seq(Packets) /\ Len(wire) \in Nat /\ call \in Int /\ call' \in Int
      /\ call <= call'
  <2>1. call \in Int /\ wire \in Seq(Packets)
        BY DEF TypeInv, SenderType
  <2>2. call' = call \/ call' = call + 1
        BY DEF MediaNext, Send, Arrive, Lose, Delay, Finished, mediaVars, S!SendChunk,
               S!SendChunkFails, S!NextCall
  <2> QED BY <2>1, <2>2
<1>3. /\ \A i \in 1 .. Len(wire) : wire[i].call <= call
      /\ \A c \in ToSet(File) :
           c \in S!Calls /\ c < call
             /\ (network = "lossy" => \A i \in 1 .. Len(wire) : c < wire[i].call)
    BY DEF Passed
<1>4. \A i \in 1 .. Len(wire') :
        \/ \E j \in 1 .. Len(wire) : wire'[i] = wire[j]
        \/ wire'[i].call = call
  <2>1. CASE UNCHANGED wire
        BY <2>1
  <2>2. CASE wire' = Append(wire, S!Packet(call))
    <3>1. S!Packet(call).call = call
          BY DEF S!Packet
    <3>2. /\ Len(wire') = Len(wire) + 1 /\ wire'[Len(wire) + 1] = S!Packet(call)
          /\ \A i \in 1 .. Len(wire) : wire'[i] = wire[i]
          BY <1>2, <2>2
    <3>3. \A i \in 1 .. Len(wire) + 1 : i \in 1 .. Len(wire) \/ i = Len(wire) + 1
          BY <1>2
    <3> QED BY <3>1, <3>2, <3>3
  <2>3. ASSUME NEW i \in Arriving, wire' = RemoveAt(wire, i)
        PROVE  \A j \in 1 .. Len(wire') : \E n \in 1 .. Len(wire) : wire'[j] = wire[n]
    <3>1. i \in 1 .. Len(wire)
          BY <1>2 DEF Arriving
    <3>2. /\ Len(wire') = Len(wire) - 1
          /\ \A j \in 1 .. Len(wire) - 1 : wire'[j] = IF j < i THEN wire[j] ELSE wire[j + 1]
          BY <1>2, <2>3, <3>1, RemoveAtIs
    <3>3. \A j \in 1 .. Len(wire) - 1 : j \in 1 .. Len(wire) /\ j + 1 \in 1 .. Len(wire)
          BY <1>2
    <3> QED BY <3>2, <3>3
  <2>4. CASE wire # <<>> /\ wire' = Tail(wire)
    <3>1. Len(wire') = Len(wire) - 1 /\ \A j \in 1 .. Len(wire') : wire'[j] = wire[j + 1]
          BY <1>2, <2>4, HeadTailProperties
    <3>2. \A j \in 1 .. Len(wire') : j + 1 \in 1 .. Len(wire)
          BY <1>2, <3>1
    <3> QED BY <3>1, <3>2
  <2>5. \/ UNCHANGED wire \/ wire' = Append(wire, S!Packet(call))
        \/ \E i \in Arriving : wire' = RemoveAt(wire, i)
        \/ wire # <<>> /\ wire' = Tail(wire)
        BY DEF MediaNext, Send, Arrive, Lose, Delay, Finished, mediaVars
  <2> QED BY <2>1, <2>2, <2>3, <2>4, <2>5
<1>5. ASSUME NEW i \in 1 .. Len(wire')
      PROVE  /\ wire'[i].call <= call'
             /\ network = "lossy" => \A c \in ToSet(File) : c < wire'[i].call
  <2>1. CASE wire'[i].call = call
        BY <1>2, <1>3, <2>1
  <2>2. ASSUME NEW j \in 1 .. Len(wire), wire'[i] = wire[j]
        PROVE  /\ wire'[i].call <= call'
               /\ network = "lossy" => \A c \in ToSet(File) : c < wire'[i].call
    <3>1. wire[j].call \in Int
      <4>1. wire[j] \in Packets
            BY <1>2
      <4> QED BY <4>1 DEF Packets, S!Calls
    <3> QED BY <1>2, <1>3, <2>2, <3>1
  <2> QED BY <1>4, <2>1, <2>2
<1>6. ASSUME NEW c \in ToSet(File) PROVE c \in S!Calls /\ c < call'
    BY <1>2, <1>3 DEF S!Calls
<1> QED BY <1>5, <1>6

\* After a packet was misread the file is what it was, and the calls go on.
LEMMA MisreadStep ==
    ASSUME TypeInv, Passed, Tame, [MediaNext]_mediaVars, Trusted' = Trusted
    PROVE  [Abstract!Next]_<<call, Hit, File>>
<1>1. UNCHANGED network /\ Tame' /\ Hit = damaged /\ Hit' = damaged'
  <2>1. UNCHANGED network
        BY DEF MediaNext, Send, Arrive, Lose, Delay, Finished, mediaVars
  <2> QED BY <2>1 DEF Tame, Hit
<1>2. UNCHANGED File
    BY <1>1 DEF File, CallOf, FuCalls, Whole, Buffered
<1>3. CASE Send
  <2>1. CASE S!SendChunk /\ UNCHANGED damaged
    <3>1. call' = call + 1 \/ UNCHANGED call
          BY <2>1 DEF S!SendChunk, S!NextCall
    <3> QED BY <1>1, <1>2, <2>1, <3>1 DEF Abstract!Next, Abstract!Pass
  <2>2. CASE S!SendChunkFails /\ damaged' = Damage(call)
    <3>1. call' = call + 1 /\ damaged' = damaged \cup {call}
          BY <2>2 DEF S!SendChunkFails, S!NextCall, Damage, Tame
    <3> QED BY <1>1, <1>2, <3>1 DEF Abstract!Next, Abstract!GiveUp
  <2> QED BY <1>3, <2>1, <2>2 DEF Send
<1>4. CASE Lose
  <2> DEFINE c == wire[1].call
  <2>1. /\ network = "lossy" /\ damaged' = damaged \cup {c} /\ UNCHANGED call
        /\ wire \in Seq(Packets) /\ wire # <<>>
        BY <1>4 DEF Lose, Damage, Tame, TypeInv
  <2>2. 1 \in 1 .. Len(wire) /\ wire[1] \in Packets
        BY <2>1
  <2>3. c \in S!Calls /\ c <= call /\ call \in Int
        BY <2>2 DEF Packets, Passed, TypeInv, SenderType
  <2>4. c \in 1 .. call
        BY <2>3 DEF S!Calls
  <2>5. c \notin ToSet(File)
    <3> SUFFICES ASSUME c \in ToSet(File) PROVE FALSE
        OBVIOUS
    <3>1. c < c
          BY <2>1, <2>2 DEF Passed
    <3> QED BY <2>4, <3>1
  <2> HIDE DEF c
  <2>6. Abstract!Lose
        BY <1>1, <1>2, <2>1, <2>4, <2>5 DEF Abstract!Lose, Abstract!ToSet, ToSet
  <2> QED BY <2>6 DEF Abstract!Next
<1>5. CASE Arrive \/ Delay \/ UNCHANGED mediaVars
    BY <1>1, <1>2, <1>5 DEF Arrive, Delay, mediaVars
<1> QED BY <1>3, <1>4, <1>5 DEF MediaNext, Finished

\* Where the network loses packets, repeats them, or shuffles the fragments of
\* one NALU, but does only one of these, and no two NALUs are the same for the
\* receiver, fragmentation and reassembly are the file of GbNaluFile, up to the
\* first packet that is taken for what it is not: NALUs are written in the
\* order in which they were sent, and none is passed over but those hit on the
\* way and those too long.
THEOREM MediaRefinesFile ==
    ASSUME NumbersSuffice, DistinctNalus
    PROVE  MediaSpec => MediaImplementsFile
<1>1. PICK left : Numbers(left)
    BY DEF NumbersSuffice, Numbers
<1>2. MediaSpec => []WholeInv(left) /\ []OrderedInv(left) /\ []LossKnown(left)
    BY <1>1, WholeIsKept, OrderIsKept, LossIsKnown
<1> DEFINE Inv == WholeInv(left) /\ OrderedInv(left) /\ LossKnown(left)
<1>3. Inv /\ misread = 0 => Passed /\ LossInv(left) /\ AllWhole /\ AllInOrder
  <2>1. FileInv(left) => AllWhole
        BY DEF FileInv, Past, RecvPast
  <2>2. OrderInv(left) => AllInOrder
        BY OrderIs
  <2>3. LossInv(left) /\ AllWhole /\ misread = 0 => Passed
        BY PassedIs
  <2> QED BY <2>1, <2>2, <2>3 DEF WholeInv, OrderedInv, LossKnown
<1>4. (Inv /\ misread = 0 => Passed /\ LossInv(left) /\ AllWhole /\ AllInOrder)'
    BY <1>3, PTL
<1>5. MediaInit => Abstract!Init /\ misread = 0
  <2> SUFFICES ASSUME MediaInit PROVE Abstract!Init /\ misread = 0
      OBVIOUS
  <2>1. call = 1 /\ damaged = {} /\ written = <<>> /\ misread = 0
        BY DEF MediaInit, FuInit, S!SenderInit
  <2>2. File = <<>> /\ Hit = {}
        BY <2>1 DEF File, Hit, Trusted
  <2> QED BY <2>1, <2>2 DEF Abstract!Init
<1>6. Inv /\ Inv' /\ Passed /\ [MediaNext]_mediaVars
        => Passed' /\ [Abstract!Next]_<<call, Hit, File>>
  <2> SUFFICES ASSUME Inv, Inv', Passed, [MediaNext]_mediaVars
               PROVE  Passed' /\ [Abstract!Next]_<<call, Hit, File>>
      OBVIOUS
  <2>1. TypeInv
        BY DEF WholeInv
  <2>2. CASE ~Tame
    <3>1. [Abstract!Next]_<<call, Hit, File>>
          BY <2>2, OtherStep
    <3>2. ~Tame'
          BY <2>2 DEF MediaNext, Send, Arrive, Lose, Delay, Finished, mediaVars, Tame
    <3> QED BY <3>1, <3>2 DEF Passed
  <2>3. CASE Tame /\ misread' = 0
    <3>1. misread = 0
          BY <2>1, <2>3, TrustedStep
    <3>2. LossInv(left) /\ AllWhole
          BY <1>3, <3>1
    <3>3. Passed' /\ LossInv(left)' /\ AllInOrder'
          BY <1>4, <2>3
    <3>4. [Abstract!Next]_<<call, Hit, File>>
          BY <1>1, <2>3, <3>1, <3>2, <3>3, FileStep
    <3> QED BY <3>3, <3>4
  <2>4. CASE Tame /\ misread' # 0
    <3>1. Trusted' = Trusted
          BY <2>1, <2>4, TrustedStep
    <3> QED BY <2>1, <2>4, <3>1, PassedStands, MisreadStep
  <2> QED BY <2>2, <2>3, <2>4
<1> QED BY <1>2, <1>3, <1>5, <1>6, PTL
        DEF MediaSpec, MediaImplementsFile, Abstract!Spec

-----------------------------------------------------------------------------
(* Streams of which no packet can be taken for what it is not.             *)

\* All NALUs of the stream are of one codec.
OneCodec == \A c, d \in FuCalls : Stream[c].function = Stream[d].function

\* No other payload has, where a packet of it begins, the bytes a fragment
\* begins with.
GuessIsRight ==
    \A c \in S!Calls \ FuCalls : \A o \in 0 .. Len(Stream[c].body) - 1 :
      o % Room(c) = 0 => Stream[c].body[o + 1] \notin DOMAIN FuLike

IsH265 == \A c \in FuCalls : Stream[c].function = "h265_fu"

\* Packets begin where they should, and the buffer has a NALU of the codec.
ReadInv ==
    /\ TypeInv /\ misread = 0
    /\ call \in S!Calls => offset % Room(call) = 0
    /\ \A i \in 1 .. Len(wire) :
         /\ wire[i].fu => wire[i].is_h265 = IsH265
         /\ ~wire[i].fu => wire[i].data # <<>> /\ Head(wire[i].data) \notin DOMAIN FuLike
    /\ active => nalu.is_h265 = IsH265

LEMMA ReadSend ==
    ASSUME OneCodec, GuessIsRight, ReadInv, Send
    PROVE  ReadInv'
<1>1. /\ TypeInv /\ TypeInv' /\ call \in S!Calls /\ offset \in Nat /\ wire \in Seq(Packets)
      /\ offset < Len(Stream[call].body)
  <2>1. TypeInv /\ TypeInv' /\ call \in S!Calls
        BY TypeSend DEF ReadInv, Send, S!SendChunk, S!SendChunkFails
  <2> QED BY <2>1 DEF TypeInv, SenderType
<1>2. /\ Room(call) \in Nat \ {0} /\ Len(Stream[call].body) \in Nat
      /\ S!ChunkSize(call) \in 1 .. Len(Stream[call].body) - offset
      /\ ~S!IsLast(call) => S!ChunkSize(call) = Room(call)
    BY <1>1, StreamIs, ChunkIs
<1>3. UNCHANGED <<misread, active, nalu>>
    BY DEF Send, fuVars, fuCtx
<1>4. call' \in S!Calls => offset' % Room(call') = 0
  <2>1. CASE S!NextCall
    <3>1. ASSUME call' \in S!Calls PROVE 0 % Room(call') = 0
      <4>1. Room(call') \in Nat \ {0}
            BY <3>1, StreamIs
      <4> QED BY <4>1
    <3> QED BY <2>1, <3>1 DEF S!NextCall
  <2>2. CASE ~S!IsLast(call) /\ offset' = offset + S!ChunkSize(call) /\ UNCHANGED call
    <3> DEFINE m == Room(call)
    <3>1. offset % m = 0 /\ offset' = offset + m
          BY <1>1, <1>2, <2>2 DEF ReadInv
    <3>2. m \in Nat \ {0} /\ offset \in Int /\ m \in Int
          BY <1>1, <1>2
    <3> HIDE DEF m
    <3>3. ((offset % m) + m) % m = (offset + m) % m
          BY <3>2, ModPlus
    <3>4. (0 + m) % m = 0
          BY <3>2
    <3>5. offset' % m = 0
          BY <3>1, <3>3, <3>4
    <3> QED BY <2>2, <3>5 DEF m, Room
  <2> QED BY <2>1, <2>2 DEF Send, S!SendChunk, S!SendChunkFails
<1>5. ASSUME NEW p, p = S!Packet(call)
      PROVE  /\ p.fu => p.is_h265 = IsH265
             /\ ~p.fu => p.data # <<>> /\ Head(p.data) \notin DOMAIN FuLike
  <2>1. ASSUME p.fu PROVE p.is_h265 = IsH265
    <3>1. call \in FuCalls /\ p.is_h265 = (Stream[call].function = "h265_fu")
          BY <1>1, <1>5, <2>1 DEF S!Packet, FuCalls
    <3> QED BY <3>1 DEF IsH265, OneCodec
  <2>2. ASSUME ~p.fu PROVE p.data # <<>> /\ Head(p.data) \notin DOMAIN FuLike
    <3>1. call \in S!Calls \ FuCalls
          BY <1>1, <1>5, <2>2 DEF S!Packet, FuCalls
    <3> DEFINE b == Stream[call].body
               n == S!ChunkSize(call)
    <3>2. p.data = SubSeq(b, offset + 1, offset + n)
          BY <1>5 DEF S!Packet
    <3>3. b \in Seq(Bytes) /\ n \in 1 .. Len(b) - offset /\ Len(b) \in Nat
          BY <1>1, <1>2, StreamIs
    <3>4. b[offset + 1] \notin DOMAIN FuLike
      <4>1. offset \in 0 .. Len(Stream[call].body) - 1
            BY <1>1, <1>2
      <4>2. offset % Room(call) = 0
            BY <1>1 DEF ReadInv
      <4>3. Stream[call].body[offset + 1] \notin DOMAIN FuLike
            BY <3>1, <4>1, <4>2 DEF GuessIsRight
      <4> QED BY <4>3
    <3> HIDE DEF b, n
    <3>5. Len(p.data) = n /\ p.data[1] = b[offset + 1]
      <4>1. offset \in Nat
            BY <1>1
      <4>2. /\ offset + 1 \in Int /\ offset + n \in Int /\ offset + 1 <= offset + n
            /\ (offset + n) - (offset + 1) + 1 = n /\ 1 \in 1 .. n
            /\ offset + 1 + 1 - 1 = offset + 1
            BY <3>3, <4>1
      <4>3. \A i \in offset + 1 .. offset + n : b[i] \in Bytes
        <5>1. offset + 1 .. offset + n \subseteq 1 .. Len(b)
              BY <3>3, <4>1
        <5> QED BY <3>3, <5>1
      <4>4. /\ Len(SubSeq(b, offset + 1, offset + n)) = n
            /\ SubSeq(b, offset + 1, offset + n)[1] = b[offset + 1]
        <5>1. \A i \in 1 .. n :
                 SubSeq(b, offset + 1, offset + n)[i] = b[offset + 1 + i - 1]
              BY <4>2, <4>3, SubSeqProperties
        <5>2. Len(SubSeq(b, offset + 1, offset + n)) = n
              BY <4>2, <4>3, SubSeqProperties
        <5> QED BY <4>2, <5>1, <5>2
      <4> QED BY <3>2, <4>4
    <3>6. p.data # <<>> /\ Head(p.data) = p.data[1]
      <4>1. Len(p.data) # 0
            BY <3>3, <3>5
      <4>2. Len(<<>>) = 0
            OBVIOUS
      <4>3. Head(p.data) = p.data[1]
            BY DEF Head
      <4> QED BY <4>1, <4>2, <4>3
    <3> QED BY <3>4, <3>5, <3>6
  <2> QED BY <2>1, <2>2
<1>6. ASSUME NEW i \in 1 .. Len(wire')
      PROVE  /\ wire'[i].fu => wire'[i].is_h265 = IsH265
             /\ ~wire'[i].fu => wire'[i].data # <<>> /\ Head(wire'[i].data) \notin DOMAIN FuLike
  <2>1. CASE UNCHANGED wire
        BY <2>1 DEF ReadInv
  <2>2. CASE wire' = Append(wire, S!Packet(call))
    <3>1. /\ Len(wire') = Len(wire) + 1 /\ wire'[Len(wire) + 1] = S!Packet(call)
          /\ \A j \in 1 .. Len(wire) : wire'[j] = wire[j]
          BY <1>1, <2>2
    <3>2. i \in 1 .. Len(wire) \/ i = Len(wire) + 1
          BY <1>1, <3>1
    <3>3. CASE i \in 1 .. Len(wire)
          BY <3>1, <3>3 DEF ReadInv
    <3>4. CASE i = Len(wire) + 1
          BY <1>5, <3>1, <3>4
    <3> QED BY <3>2, <3>3, <3>4
  <2> QED BY <2>1, <2>2 DEF Send
<1> QED BY <1>1, <1>3, <1>4, <1>6 DEF ReadInv, IsH265, FuCalls

LEMMA ReadArrive ==
    ASSUME ReadInv, Arrive
    PROVE  ReadInv'
<1>1. TypeInv /\ TypeInv' /\ wire \in Seq(Packets) /\ Len(wire) \in Nat
    BY TypeArrive DEF ReadInv, TypeInv
<1>2. PICK i \in Arriving : Receive(wire[i]) /\ (wire' = RemoveAt(wire, i) \/ UNCHANGED wire)
    BY DEF Arrive
<1>3. i \in 1 .. Len(wire) /\ wire[i] \in Packets
    BY <1>1 DEF Arriving
<1>4. ~Mistaken(wire[i])
    BY <1>3 DEF ReadInv, Mistaken
<1>5. ~Miscut(wire[i])
  <2> SUFFICES ASSUME Miscut(wire[i]) PROVE FALSE
      OBVIOUS
  <2>1. wire[i].fu /\ wire[i].is_h265 # nalu.is_h265 /\ active
        BY DEF Miscut, Store, Continue, Continues
  <2> QED BY <1>3, <2>1 DEF ReadInv
<1>6. misread' = 0
    BY <1>2, <1>4, <1>5 DEF Receive, ReadInv
<1>7. active' => nalu'.is_h265 = IsH265
  <2>1. CASE UNCHANGED fuVars
        BY <2>1 DEF ReadInv, fuVars, fuCtx
  <2>2. CASE wire[i].fu /\ HandlePacket(wire[i])
    <3>1. CASE Start(wire[i])
      <4>1. active' => nalu'.is_h265 = wire[i].is_h265
            BY <3>1 DEF Start, Begin, Complete, Reset
      <4> QED BY <1>3, <2>2, <4>1 DEF ReadInv
    <3>2. CASE Continue(wire[i])
      <4>1. active /\ (active' => nalu'.is_h265 = nalu.is_h265)
        <5>1. nalu \in Nalus
              BY <1>1 DEF TypeInv, FuTypeOK
        <5>2. \A x : [nalu EXCEPT !.body = x].is_h265 = nalu.is_h265
              BY <5>1 DEF Nalus
        <5> QED BY <3>2, <5>2 DEF Continue, Continues, Complete, Reset
      <4> QED BY <4>1 DEF ReadInv
    <3>3. CASE DiscardStale(wire[i]) \/ DiscardUnordered(wire[i])
          BY <3>3 DEF DiscardStale, DiscardUnordered, Reset
    <3>4. CASE MissingStart(wire[i]) \/ IgnoreDuplicate(wire[i]) \/ Store(wire[i])
          BY <3>4 DEF MissingStart, IgnoreDuplicate, Store, ReadInv, fuVars, fuCtx
    <3> QED BY <2>2, <3>1, <3>2, <3>3, <3>4 DEF HandlePacket
  <2> QED BY <1>2, <1>4, <2>1, <2>2 DEF Receive
<1>8. \A j \in 1 .. Len(wire') : \E n \in 1 .. Len(wire) : wire'[j] = wire[n]
  <2>1. CASE wire' = RemoveAt(wire, i)
    <3>1. /\ Len(wire') = Len(wire) - 1
          /\ \A j \in 1 .. Len(wire) - 1 : wire'[j] = IF j < i THEN wire[j] ELSE wire[j + 1]
          BY <1>1, <1>3, <2>1, RemoveAtIs
    <3>2. \A j \in 1 .. Len(wire) - 1 : j \in 1 .. Len(wire) /\ j + 1 \in 1 .. Len(wire)
          BY <1>1
    <3> QED BY <3>1, <3>2
  <2>2. CASE UNCHANGED wire
        BY <2>2
  <2> QED BY <1>2, <2>1, <2>2
<1>9. UNCHANGED <<call, offset>>
    BY DEF Arrive
<1> QED BY <1>1, <1>6, <1>7, <1>8, <1>9 DEF ReadInv, Room, IsH265, FuCalls

LEMMA ReadLose ==
    ASSUME ReadInv, Lose
    PROVE  ReadInv'
<1>1. TypeInv' /\ wire \in Seq(Packets) /\ wire # <<>> /\ Len(wire) \in Nat
    BY TypeLose DEF ReadInv, TypeInv, Lose
<1>2. /\ Len(wire') = Len(wire) - 1
      /\ \A j \in 1 .. Len(wire') : wire'[j] = wire[j + 1]
    BY <1>1, HeadTailProperties DEF Lose
<1>3. \A j \in 1 .. Len(wire') : j + 1 \in 1 .. Len(wire)
    BY <1>1, <1>2
<1>4. UNCHANGED <<call, offset, misread, active, nalu>>
    BY DEF Lose, fuVars, fuCtx
<1> QED BY <1>1, <1>2, <1>3, <1>4 DEF ReadInv, Room, IsH265, FuCalls

\* Where a stream's NALUs are of one codec, and no packet of another payload
\* begins like a fragment, every packet is taken for what it is: the file is
\* trusted to its end.
THEOREM NothingIsMisread ==
    ASSUME OneCodec, GuessIsRight
    PROVE  MediaSpec => [](Trusted = written)
<1>1. MediaInit => ReadInv
  <2> SUFFICES ASSUME MediaInit PROVE ReadInv
      OBVIOUS
  <2>1. /\ call = 1 /\ offset = 0 /\ wire = <<>> /\ ~active /\ misread = 0
        BY DEF MediaInit, S!SenderInit, FuInit
  <2>2. ASSUME call \in S!Calls PROVE offset % Room(call) = 0
    <3>1. Room(call) \in Nat \ {0}
          BY <2>2, StreamIs
    <3> QED BY <2>1, <3>1
  <2> QED BY <2>1, <2>2, TypeInit DEF ReadInv
<1>2. ReadInv /\ [MediaNext]_mediaVars => ReadInv'
  <2> SUFFICES ASSUME ReadInv, [MediaNext]_mediaVars PROVE ReadInv'
      OBVIOUS
  <2>1. CASE Send
        BY <2>1, ReadSend
  <2>2. CASE Arrive
        BY <2>2, ReadArrive
  <2>3. CASE Lose
        BY <2>3, ReadLose
  <2>4. CASE Delay \/ UNCHANGED mediaVars
    <3>1. TypeInv'
          BY TypeInductive DEF ReadInv
    <3>2. UNCHANGED <<call, offset, wire, misread, active, nalu>>
          BY <2>4 DEF Delay, Expire, mediaVars, fuVars, fuCtx
    <3> QED BY <3>1, <3>2 DEF ReadInv, Room, IsH265, FuCalls
  <2> QED BY <2>1, <2>2, <2>3, <2>4 DEF MediaNext, Finished
<1>3. ReadInv => Trusted = written
    BY DEF ReadInv, Trusted
<1> QED BY <1>1, <1>2, <1>3, PTL DEF MediaSpec
=============================================================================
