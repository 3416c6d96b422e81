------------------------- MODULE LegalChunkerProofs -------------------------
(***************************************************************************)
(* Proofs about LegalChunker, for any units, tables and limits.            *)
(*                                                                         *)
(* The pieces that a list is cut into make up the list, whatever the       *)
(* places and however greedy (PiecesJoin, GreedyJoins), so no way of       *)
(* splitting a text loses or moves a word. A unit that a list names once   *)
(* is said once (KeptOnce); every unit is in a draft, or in a list that is *)
(* still to be drafted (DraftingHolds).                                    *)
(*                                                                         *)
(* The recursive functions of the model, and FlattenSeq, are unfolded up   *)
(* to the first place at which a claim about them would fail               *)
(* (LeastNumber): no theorem of the library that takes an operator is      *)
(* needed. RecursionExists gives the function that such an equation        *)
(* describes.                                                              *)
(***************************************************************************)
EXTENDS LegalChunker, SequenceTheorems, FiniteSetTheorems, FunctionTheorems,
        WellFoundedInduction, TLAPS

-----------------------------------------------------------------------------
(* Numbers and recursive functions                                         *)

\* A set of numbers has a least member.
LEMMA LeastNumber ==
    ASSUME NEW T, T \subseteq Nat, T # {}
    PROVE  \E x \in T : \A y \in T : x <= y
<1>1. PICK W : W = {0..x : x \in T}
    OBVIOUS
<1>2. W \subseteq FiniteSubsetsOf(Nat)
  <2>1. ASSUME NEW x \in T
        PROVE  0..x \in FiniteSubsetsOf(Nat)
    <3>1. x \in Int /\ 0 \in Int
        OBVIOUS
    <3>2. IsFiniteSet(0..x)
        BY <3>1, FS_Interval
    <3> QED BY <3>2 DEF FiniteSubsetsOf
  <2> QED BY <1>1, <2>1
<1>3. W # {}
    BY <1>1
<1>4. PICK w \in W : \A v \in W : ~(<<v, w>> \in StrictSubsetOrdering(Nat))
    BY <1>2, <1>3, FS_StrictSubsetOrderingWellFounded, WFMin
<1>5. PICK x \in T : w = 0..x
    BY <1>1
<1>6. ASSUME NEW y \in T
      PROVE  x <= y
  <2>1. 0..y \in W /\ 0..y \in SUBSET Nat /\ 0..x \in SUBSET Nat
      BY <1>1
  <2>2. ASSUME y < x
        PROVE  FALSE
    <3>1. 0..y \subseteq 0..x
        BY <2>2
    <3>2. x \in 0..x /\ x \notin 0..y
        BY <2>2
    <3>3. <<0..y, 0..x>> \in StrictSubsetOrdering(Nat)
        BY <2>1, <3>1, <3>2 DEF StrictSubsetOrdering
    <3> QED BY <1>4, <1>5, <2>1, <3>3
  <2> QED BY <2>2
<1> QED BY <1>6

\* A set of numbers up to n has a last member.
LEMMA LastNumber ==
    ASSUME NEW n \in Nat, NEW T, T \subseteq 1..n, T # {}
    PROVE  \E x \in T : \A y \in T : y <= x
<1>1. PICK U : U = {n - x : x \in T}
    OBVIOUS
<1>2. U \subseteq Nat /\ U # {}
  <2>1. \A x \in T : n - x \in Nat
      OBVIOUS
  <2> QED BY <1>1, <2>1
<1>3. PICK u \in U : \A v \in U : u <= v
    BY <1>2, LeastNumber
<1>4. PICK x \in T : u = n - x
    BY <1>1
<1>5. ASSUME NEW y \in T PROVE y <= x
  <2>1. n - y \in U
      BY <1>1
  <2> QED BY <2>1, <1>3, <1>4
<1> QED BY <1>5

\* A function over 0..n that starts with a value and follows a step
Follows(g, S, first, n, step) ==
    g \in [0..n -> S] /\ g[0] = first /\ \A i \in 1..n : g[i] = step[i][g[i - 1]]

\* A recursive function over 0..n is what its equation says: it exists.
LEMMA RecursionExists ==
    ASSUME NEW S, NEW first \in S, NEW n \in Nat, NEW step \in [1..n -> [S -> S]]
    PROVE  \E g : Follows(g, S, first, n, step)
<1>1. PICK bad : bad = {m \in 0..n : ~\E g \in [0..m -> S] :
                           g[0] = first /\ \A i \in 1..m : g[i] = step[i][g[i - 1]]}
    OBVIOUS
<1>2. ASSUME bad # {} PROVE FALSE
  <2>1. PICK m \in bad : \A y \in bad : m <= y
    <3>1. bad \subseteq Nat
        BY <1>1
    <3> QED BY <1>2, <3>1, LeastNumber
  <2>2. m \in 0..n
      BY <1>1
  <2>3. CASE m = 0
    <3>1. PICK g : g = [i \in 0..0 |-> first]
        OBVIOUS
    <3>2. g \in [0..m -> S] /\ g[0] = first
        BY <2>3, <3>1
    <3>3. \A i \in 1..m : g[i] = step[i][g[i - 1]]
        BY <2>3
    <3> QED BY <1>1, <3>2, <3>3
  <2>4. CASE m # 0
    <3>1. m - 1 \in 0..n /\ m - 1 \notin bad
        BY <2>1, <2>2, <2>4
    <3>2. PICK g \in [0..(m - 1) -> S] :
                  g[0] = first /\ \A i \in 1..(m - 1) : g[i] = step[i][g[i - 1]]
        BY <1>1, <3>1
    <3>3. PICK h : h = [i \in 0..m |-> IF i < m THEN g[i] ELSE step[m][g[m - 1]]]
        OBVIOUS
    <3>4. step[m][g[m - 1]] \in S
        BY <2>2, <2>4, <3>1, <3>2
    <3>5. h \in [0..m -> S] /\ h[0] = first
        BY <2>2, <2>4, <3>2, <3>3, <3>4
    <3>6. ASSUME NEW i \in 1..m
          PROVE  h[i] = step[i][h[i - 1]]
      <4>1. h[i - 1] = g[i - 1]
          BY <2>2, <3>3
      <4>2. i < m => i \in 1..(m - 1) /\ h[i] = g[i]
          BY <2>2, <3>3
      <4>3. i = m => h[i] = step[m][g[m - 1]]
          BY <2>2, <3>3
      <4>4. CASE i < m
          BY <3>2, <4>1, <4>2, <4>4
      <4>5. CASE i = m
          BY <4>1, <4>3, <4>5
      <4> QED BY <2>2, <4>4, <4>5
    <3> QED BY <1>1, <3>5, <3>6
  <2> QED BY <2>3, <2>4
<1>3. n \in 0..n
    OBVIOUS
<1>4. \E g \in [0..n -> S] : g[0] = first /\ \A i \in 1..n : g[i] = step[i][g[i - 1]]
    BY <1>1, <1>2, <1>3
<1> QED BY <1>4 DEF Follows

-----------------------------------------------------------------------------
(* Lists of lists joined up                                                *)

\* A list of n members of T
IsList(s, n, T) == n \in Nat /\ s \in [1..n -> T] /\ Len(s) = n

\* g[n]: the first n members of s, one after the other
JoinsUp(g, s, n, T) ==
    /\ g \in [0..n -> T] /\ g[0] = <<>>
    /\ \A i \in 1..n : g[i] = g[i - 1] \o s[i]

LEMMA ListOf ==
    ASSUME NEW T, NEW s \in Seq(T)
    PROVE  IsList(s, Len(s), T)
BY LenProperties DEF IsList

LEMMA FlattenUnfolds ==
    ASSUME NEW T, NEW n \in Nat \ {0}, NEW s, IsList(s, n, T), NEW g, JoinsUp(g, s, n, T),
           <<>> \o s[1] = s[1]
    PROVE  FlattenSeq(s) = g[n]
<1>1. g[1] = s[1]
  <2>1. 1 \in 1..n /\ 1 - 1 = 0
      OBVIOUS
  <2> QED BY <2>1 DEF JoinsUp
<1>2. PICK h : h = [i \in 1..n |-> g[i]]
    OBVIOUS
<1>3. ASSUME NEW i \in 1..n
      PROVE  h[i] = IF i = 1 THEN s[i] ELSE h[i - 1] \o s[i]
  <2>1. CASE i = 1
      BY <1>1, <1>2, <2>1
  <2>2. CASE i # 1
    <3>1. i - 1 \in 1..n
        BY <2>2
    <3>2. h[i] = g[i] /\ h[i - 1] = g[i - 1]
        BY <1>2, <3>1
    <3> QED BY <2>2, <3>2 DEF JoinsUp
  <2> QED BY <2>1, <2>2
<1>4. h = [i \in 1..n |-> IF i = 1 THEN s[i] ELSE h[i - 1] \o s[i]]
    BY <1>2, <1>3
<1> DEFINE flatten == CHOOSE f : f = [i \in 1..n |-> IF i = 1 THEN s[i] ELSE f[i - 1] \o s[i]]
<1>5. PICK f : f = flatten
    OBVIOUS
<1>6. f = [i \in 1..n |-> IF i = 1 THEN s[i] ELSE f[i - 1] \o s[i]]
    BY <1>4, <1>5
<1>7. FlattenSeq(s) = f[n]
    BY <1>5 DEF FlattenSeq, IsList
<1> HIDE DEF flatten
<1>8. PICK bad : bad = {i \in 1..n : f[i] # g[i]}
    OBVIOUS
<1>9. ASSUME bad # {} PROVE FALSE
  <2>1. bad \subseteq Nat
      BY <1>8
  <2>2. PICK m \in bad : \A y \in bad : m <= y
      BY <1>9, <2>1, LeastNumber
  <2>3. m \in 1..n /\ f[m] # g[m]
      BY <1>8, <2>2
  <2>4. m # 1
      BY <1>1, <1>6, <2>3
  <2>5. m - 1 \in 1..n /\ m - 1 \notin bad
      BY <2>2, <2>3, <2>4
  <2>6. f[m - 1] = g[m - 1]
      BY <1>8, <2>5
  <2>7. f[m] = f[m - 1] \o s[m]
      BY <1>6, <2>3, <2>4
  <2> QED BY <2>3, <2>6, <2>7 DEF JoinsUp
<1>10. n \in 1..n /\ n \notin bad
    BY <1>9
<1> QED BY <1>7, <1>8, <1>10

\* FlattenSeq is what joining member after member gives ...
LEMMA FlattenIs ==
    ASSUME NEW W, NEW s \in Seq(Seq(W)), NEW g, JoinsUp(g, s, Len(s), Seq(W))
    PROVE  FlattenSeq(s) = g[Len(s)]
<1>1. PICK n, T : n = Len(s) /\ T = Seq(W)
    OBVIOUS
<1>2. IsList(s, n, T) /\ JoinsUp(g, s, n, T)
    BY <1>1, ListOf
<1>3. CASE n = 0
  <2>1. s = <<>>
      BY <1>1, <1>3, EmptySeq
  <2> QED BY <1>1, <1>2, <1>3, <2>1 DEF FlattenSeq, JoinsUp
<1>4. CASE n # 0
  <2>1. n \in Nat \ {0}
      BY <1>2, <1>4 DEF IsList
  <2>2. <<>> \o s[1] = s[1]
    <3>1. s[1] \in T
        BY ONLY <1>2, <2>1 DEF IsList
    <3> QED BY <1>1, <3>1, ConcatEmptySeq
  <2>3. FlattenSeq(s) = g[n]
      BY ONLY <1>2, <2>1, <2>2, FlattenUnfolds
  <2> QED BY <1>1, <2>3
<1> QED BY <1>3, <1>4

\* ... and there is a way to do that.
LEMMA FlattenJoinsUp ==
    ASSUME NEW W, NEW s \in Seq(Seq(W))
    PROVE  \E g : JoinsUp(g, s, Len(s), Seq(W)) /\ FlattenSeq(s) = g[Len(s)]
<1>1. PICK n, T, none : n = Len(s) /\ T = Seq(W) /\ none = <<>>
    OBVIOUS
<1>2. IsList(s, n, T)
    BY <1>1, ListOf
<1>3. \A i \in 1..n : \A t \in T : t \o s[i] \in T
  <2>1. \A t, r \in T : t \o r \in T
      BY <1>1, ConcatProperties
  <2> QED BY ONLY <1>2, <2>1 DEF IsList
<1>4. PICK step : step = [i \in 1..n |-> [t \in T |-> t \o s[i]]]
    OBVIOUS
<1>5. step \in [1..n -> [T -> T]]
    BY ONLY <1>3, <1>4
<1>6. none \in T
    BY <1>1, EmptySeq
<1>7. n \in Nat
    BY <1>2 DEF IsList
<1>8. PICK g : Follows(g, T, none, n, step)
    BY <1>5, <1>6, <1>7, RecursionExists
<1>9. JoinsUp(g, s, n, T)
  <2>1. g \in [0..n -> T] /\ g[0] = <<>>
      BY ONLY <1>1, <1>8 DEF Follows
  <2>2. ASSUME NEW i \in 1..n
        PROVE  g[i] = g[i - 1] \o s[i]
    <3>1. g[i - 1] \in T
        BY ONLY <1>7, <2>1
    <3>2. g[i] = step[i][g[i - 1]]
        BY ONLY <1>8 DEF Follows
    <3> QED BY ONLY <1>4, <3>1, <3>2
  <2> QED BY ONLY <2>1, <2>2 DEF JoinsUp
<1> QED BY <1>1, <1>9, FlattenIs

LEMMA FlattenType ==
    ASSUME NEW W, NEW s \in Seq(Seq(W))
    PROVE  FlattenSeq(s) \in Seq(W)
<1>1. PICK g : JoinsUp(g, s, Len(s), Seq(W)) /\ FlattenSeq(s) = g[Len(s)]
    BY FlattenJoinsUp
<1>2. Len(s) \in 0..Len(s)
    BY LenProperties
<1> QED BY <1>1, <1>2 DEF JoinsUp

LEMMA FlattenEmpty == FlattenSeq(<<>>) = <<>>
BY EmptySeq DEF FlattenSeq

\* g[0], g[1], ..., and then, behind the last of them, h[1], h[2], ...
Continued(g, h, m, n) == [i \in 0..(m + n) |-> IF i <= m THEN g[i] ELSE g[m] \o h[i - m]]

\* What concatenation does on a set of sequences
Concatenates(T) ==
    /\ \A x, y \in T : x \o y \in T
    /\ \A x, y, z \in T : (x \o y) \o z = x \o (y \o z)
    /\ \A x \in T : x \o <<>> = x

EndsWith(k, n, x) == k[n] = x
Behind(st, s, m, t, n) == \A i \in 1..(m + n) : st[i] = IF i <= m THEN s[i] ELSE t[i - m]

LEMMA JoinsContinue ==
    ASSUME NEW T, Concatenates(T), NEW m \in Nat, NEW n \in Nat, NEW s, NEW t, NEW st,
           NEW g, NEW h, IsList(s, m, T), IsList(t, n, T), Behind(st, s, m, t, n),
           JoinsUp(g, s, m, T), JoinsUp(h, t, n, T)
    PROVE  \E k : JoinsUp(k, st, m + n, T) /\ EndsWith(k, m + n, g[m] \o h[n])
<1>1. PICK k : k = Continued(g, h, m, n)
    OBVIOUS
<1>2. /\ \A i \in 0..m : g[i] \in T
      /\ \A i \in 0..n : h[i] \in T
    BY DEF JoinsUp
<1>3. ASSUME NEW i \in 0..n
      PROVE  k[m + i] = g[m] \o h[i]
  <2>1. m + i \in 0..(m + n) /\ (m + i) - m = i
      OBVIOUS
  <2>2. CASE i = 0
    <3>1. m + i = m /\ m \in 0..m
        BY <2>2
    <3>2. k[m + i] = g[m]
        BY <1>1, <2>1, <3>1 DEF Continued
    <3>3. g[m] \o <<>> = g[m]
        BY <1>2, <3>1 DEF Concatenates
    <3> QED BY <2>2, <3>2, <3>3 DEF JoinsUp
  <2>3. CASE i # 0
      BY <1>1, <2>1, <2>3 DEF Continued
  <2> QED BY <2>2, <2>3
<1>4. k \in [0..(m + n) -> T] /\ k[0] = <<>>
  <2>1. ASSUME NEW i \in 0..(m + n)
        PROVE  k[i] \in T
    <3>1. CASE i <= m
        BY <1>1, <1>2, <3>1 DEF Continued
    <3>2. CASE ~(i <= m)
      <4>1. i - m \in 0..n /\ m + (i - m) = i /\ m \in 0..m
          BY <3>2
      <4>2. k[i] = g[m] \o h[i - m]
          BY <1>3, <4>1
      <4>3. g[m] \in T /\ h[i - m] \in T
          BY <1>2, <4>1
      <4> QED BY <4>2, <4>3 DEF Concatenates
    <3> QED BY <3>1, <3>2
  <2>2. k[0] = g[0]
      BY <1>1 DEF Continued
  <2> QED BY <1>1, <2>1, <2>2 DEF Continued, JoinsUp
<1>5. ASSUME NEW i \in 1..(m + n)
      PROVE  k[i] = k[i - 1] \o st[i]
  <2>1. CASE i <= m
    <3>1. i \in 1..m /\ k[i] = g[i] /\ k[i - 1] = g[i - 1] /\ st[i] = s[i]
        BY <1>1, <2>1 DEF Continued, Behind
    <3> QED BY <3>1 DEF JoinsUp
  <2>2. CASE ~(i <= m)
    <3>1. PICK j \in 1..n : j = i - m
        BY <2>2
    <3>2. st[i] = t[j]
        BY <2>2, <3>1 DEF Behind
    <3>3. m + j = i /\ j \in 0..n /\ m + (j - 1) = i - 1 /\ j - 1 \in 0..n /\ m \in 0..m
        BY <3>1
    <3>4. k[i] = g[m] \o h[j]
        BY <1>3, <3>3
    <3>5. k[i - 1] = g[m] \o h[j - 1]
        BY <1>3, <3>3
    <3>6. h[j] = h[j - 1] \o t[j]
        BY DEF JoinsUp
    <3>7. g[m] \in T /\ h[j - 1] \in T /\ t[j] \in T
        BY <1>2, <3>3 DEF IsList
    <3>8. (g[m] \o h[j - 1]) \o t[j] = g[m] \o (h[j - 1] \o t[j])
        BY <3>7 DEF Concatenates
    <3> QED BY <3>2, <3>4, <3>5, <3>6, <3>8
  <2> QED BY <2>1, <2>2
<1>6. n \in 0..n
    OBVIOUS
<1> QED BY <1>1, <1>3, <1>4, <1>5, <1>6 DEF JoinsUp, EndsWith

LEMMA FlattenConcat ==
    ASSUME NEW W, NEW s \in Seq(Seq(W)), NEW t \in Seq(Seq(W))
    PROVE  FlattenSeq(s \o t) = FlattenSeq(s) \o FlattenSeq(t)
<1>1. PICK T, m, n : T = Seq(W) /\ m = Len(s) /\ n = Len(t)
    OBVIOUS
<1>2. IsList(s, m, T) /\ IsList(t, n, T) /\ s \in Seq(T) /\ t \in Seq(T)
    BY <1>1, ListOf
<1>3. PICK g : JoinsUp(g, s, m, T) /\ FlattenSeq(s) = g[m]
    BY <1>1, FlattenJoinsUp
<1>4. PICK h : JoinsUp(h, t, n, T) /\ FlattenSeq(t) = h[n]
    BY <1>1, FlattenJoinsUp
<1>5. Concatenates(T)
    BY <1>1, ConcatProperties, ConcatAssociative, ConcatEmptySeq DEF Concatenates
<1>6. PICK st : st = s \o t
    OBVIOUS
<1>7. /\ st \in Seq(T) /\ Len(st) = m + n
      /\ \A i \in 1..(m + n) : st[i] = IF i <= m THEN s[i] ELSE t[i - m]
    BY ONLY <1>1, <1>2, <1>6, ConcatProperties
<1>8. m \in Nat /\ n \in Nat
    BY ONLY <1>2 DEF IsList
<1>9. PICK k : JoinsUp(k, st, m + n, T) /\ EndsWith(k, m + n, g[m] \o h[n])
  <2>1. Behind(st, s, m, t, n)
      BY <1>7 DEF Behind
  <2>2. JoinsUp(g, s, m, T) /\ JoinsUp(h, t, n, T) /\ IsList(s, m, T) /\ IsList(t, n, T)
      BY <1>2, <1>3, <1>4
  <2> QED BY ONLY <2>1, <2>2, <1>5, <1>8, JoinsContinue
<1>10. FlattenSeq(st) = k[m + n]
  <2>1. JoinsUp(k, st, Len(st), Seq(W))
      BY <1>1, <1>7, <1>9
  <2> QED BY <1>1, <1>7, <2>1, FlattenIs
<1> QED BY <1>3, <1>4, <1>6, <1>9, <1>10 DEF EndsWith

LEMMA FlattenOne ==
    ASSUME NEW W, NEW x \in Seq(W)
    PROVE  FlattenSeq(<<x>>) = x
BY DEF FlattenSeq

-----------------------------------------------------------------------------
(* Lists mapped member by member                                           *)

\* Each member replaced by what the function m makes of it, and these joined
Mapped(s, m) == [i \in DOMAIN s |-> m[s[i]]]
FlatMap(s, m) == FlattenSeq(Mapped(s, m))
EachMapped(ss, m) == [n \in DOMAIN ss |-> FlatMap(ss[n], m)]

LEMMA FunctionIsSeq ==
    ASSUME NEW T, NEW n \in Nat, NEW s, s \in [1..n -> T]
    PROVE  s \in Seq(T) /\ Len(s) = n
OBVIOUS

IsMapped(x, s, m, T) == x \in Seq(T) /\ Len(x) = Len(s) /\ \A i \in 1..Len(s) : x[i] = m[s[i]]

LEMMA MappedSeq ==
    ASSUME NEW I, NEW T, NEW s \in Seq(I), NEW m \in [I -> T]
    PROVE  IsMapped(Mapped(s, m), s, m, T)
<1>1. IsList(s, Len(s), I) /\ DOMAIN s = 1..Len(s)
    BY ListOf, LenProperties
<1>2. PICK n, t : n = Len(s) /\ t = Mapped(s, m)
    OBVIOUS
<1>3. n \in Nat /\ t \in [1..n -> T] /\ \A i \in 1..n : t[i] = m[s[i]]
    BY <1>1, <1>2 DEF IsList, Mapped
<1>4. t \in Seq(T) /\ Len(t) = n
    BY ONLY <1>3, FunctionIsSeq
<1> QED BY ONLY <1>2, <1>3, <1>4 DEF IsMapped

MapsJoin(s, t, m) == Mapped(s \o t, m) = Mapped(s, m) \o Mapped(t, m)

LEMMA MappedConcat ==
    ASSUME NEW I, NEW T, NEW s \in Seq(I), NEW t \in Seq(I), NEW m \in [I -> T]
    PROVE  MapsJoin(s, t, m)
<1>1. PICK st, x, y, z : st = s \o t /\ x = Mapped(s, m) /\ y = Mapped(t, m) /\ z = Mapped(st, m)
    OBVIOUS
<1>2. /\ st \in Seq(I) /\ Len(st) = Len(s) + Len(t) /\ Len(s) \in Nat /\ Len(t) \in Nat
      /\ \A i \in 1..(Len(s) + Len(t)) : st[i] = IF i <= Len(s) THEN s[i] ELSE t[i - Len(s)]
    BY <1>1, ConcatProperties, LenProperties
<1>3. IsMapped(x, s, m, T) /\ IsMapped(y, t, m, T)
    BY <1>1, MappedSeq
<1>4. IsMapped(z, st, m, T)
    BY <1>1, <1>2, MappedSeq
<1>5. PICK xy : xy = x \o y
    OBVIOUS
<1>6. /\ xy \in Seq(T) /\ Len(xy) = Len(s) + Len(t)
      /\ \A i \in 1..(Len(s) + Len(t)) : xy[i] = IF i <= Len(s) THEN x[i] ELSE y[i - Len(s)]
  <2>1. x \in Seq(T) /\ y \in Seq(T) /\ Len(x) = Len(s) /\ Len(y) = Len(t)
      BY ONLY <1>3 DEF IsMapped
  <2>2. PICK a, b : a = Len(x) /\ b = Len(y)
      OBVIOUS
  <2>3. /\ xy \in Seq(T) /\ Len(xy) = a + b
        /\ \A i \in 1..(a + b) : xy[i] = IF i <= a THEN x[i] ELSE y[i - a]
    <3>1. a \in Nat /\ b \in Nat
        BY ONLY <2>1, <2>2, LenProperties
    <3>2. xy \in Seq(T) /\ Len(xy) = a + b
        BY ONLY <1>5, <2>1, <2>2, ConcatProperties
    <3>3. ASSUME NEW i \in 1..(a + b)
          PROVE  xy[i] = IF i <= a THEN x[i] ELSE y[i - a]
        BY ONLY <1>5, <2>1, <2>2, <3>1, ConcatProperties
    <3> QED BY ONLY <3>2, <3>3
  <2> QED BY ONLY <2>1, <2>2, <2>3
<1>7. ASSUME NEW i \in 1..Len(z)
      PROVE  z[i] = xy[i]
  <2>1. i \in 1..(Len(s) + Len(t)) /\ z[i] = m[st[i]]
      BY ONLY <1>2, <1>4, <1>7 DEF IsMapped
  <2>2. CASE i <= Len(s)
    <3>1. i \in 1..Len(s)
        BY ONLY <1>2, <2>1, <2>2
    <3> QED BY ONLY <1>2, <1>3, <1>6, <2>1, <2>2, <3>1 DEF IsMapped
  <2>3. CASE ~(i <= Len(s))
    <3>1. i - Len(s) \in 1..Len(t)
        BY ONLY <1>2, <2>1, <2>3
    <3> QED BY ONLY <1>2, <1>3, <1>6, <2>1, <2>3, <3>1 DEF IsMapped
  <2> QED BY <2>2, <2>3
<1>8. z = xy
  <2>1. z \in Seq(T) /\ xy \in Seq(T) /\ Len(z) = Len(xy)
      BY ONLY <1>2, <1>4, <1>6 DEF IsMapped
  <2> QED BY ONLY <1>7, <2>1, SeqEqual
<1>9. Mapped(s \o t, m) = z
    BY ONLY <1>1
<1>10. Mapped(s, m) \o Mapped(t, m) = xy
    BY ONLY <1>1, <1>5
<1> QED BY ONLY <1>8, <1>9, <1>10 DEF MapsJoin

LEMMA FlatMapType ==
    ASSUME NEW I, NEW W, NEW s \in Seq(I), NEW m \in [I -> Seq(W)]
    PROVE  FlatMap(s, m) \in Seq(W)
<1>1. Mapped(s, m) \in Seq(Seq(W))
    BY MappedSeq DEF IsMapped
<1> QED BY <1>1, FlattenType DEF FlatMap

LEMMA FlatMapConcat ==
    ASSUME NEW I, NEW W, NEW s \in Seq(I), NEW t \in Seq(I), NEW m \in [I -> Seq(W)]
    PROVE  FlatMap(s \o t, m) = FlatMap(s, m) \o FlatMap(t, m)
<1>1. Mapped(s, m) \in Seq(Seq(W)) /\ Mapped(t, m) \in Seq(Seq(W))
    BY MappedSeq DEF IsMapped
<1>2. Mapped(s \o t, m) = Mapped(s, m) \o Mapped(t, m)
  <2>1. PICK T : T = Seq(W)
      OBVIOUS
  <2>2. m \in [I -> T]
      BY <2>1
  <2>3. MapsJoin(s, t, m)
      BY ONLY <2>2, MappedConcat
  <2> QED BY ONLY <2>3 DEF MapsJoin
<1> QED BY <1>1, <1>2, FlattenConcat DEF FlatMap

LEMMA FlatMapEmpty ==
    ASSUME NEW m
    PROVE  FlatMap(<<>>, m) = <<>>
<1>1. Mapped(<<>>, m) = <<>>
    BY DEF Mapped
<1> QED BY <1>1, FlattenEmpty DEF FlatMap

FlatMapsThrough(ss, m, W) ==
    /\ EachMapped(ss, m) \in Seq(Seq(W))
    /\ FlatMap(FlattenSeq(ss), m) = FlattenSeq(EachMapped(ss, m))

LEMMA FlatMapFlatten ==
    ASSUME NEW I, NEW W, NEW ss \in Seq(Seq(I)), NEW m \in [I -> Seq(W)]
    PROVE  FlatMapsThrough(ss, m, W)
<1>1. PICK S, T, n : S = Seq(I) /\ T = Seq(W) /\ n = Len(ss)
    OBVIOUS
<1>2. IsList(ss, n, S) /\ DOMAIN ss = 1..n
    BY <1>1, ListOf, LenProperties
<1>3. PICK g : JoinsUp(g, ss, n, S) /\ FlattenSeq(ss) = g[n]
    BY <1>1, FlattenJoinsUp
<1>4. \A s \in S : FlatMap(s, m) \in T
    BY <1>1, FlatMapType
<1>5. \A s, t \in S : FlatMap(s \o t, m) = FlatMap(s, m) \o FlatMap(t, m)
    BY <1>1, FlatMapConcat
<1>6. PICK e : e = EachMapped(ss, m)
    OBVIOUS
<1>7. /\ n \in Nat /\ e \in [1..n -> T]
      /\ \A i \in 1..n : ss[i] \in S /\ e[i] = FlatMap(ss[i], m)
    BY ONLY <1>2, <1>4, <1>6 DEF IsList, EachMapped
<1>8. e \in Seq(T) /\ Len(e) = n
    BY ONLY <1>7, FunctionIsSeq
<1>9. PICK k : k = [i \in 0..n |-> FlatMap(g[i], m)]
    OBVIOUS
<1>10. JoinsUp(k, e, n, T)
  <2>1. k \in [0..n -> T]
      BY ONLY <1>3, <1>4, <1>9 DEF JoinsUp
  <2>2. k[0] = <<>>
      BY ONLY <1>3, <1>7, <1>9, FlatMapEmpty DEF JoinsUp
  <2>3. ASSUME NEW i \in 1..n
        PROVE  k[i] = k[i - 1] \o e[i]
    <3>1. i \in 0..n /\ i - 1 \in 0..n
        BY ONLY <1>7, <2>3
    <3>2. g[i - 1] \in S /\ ss[i] \in S /\ g[i] = g[i - 1] \o ss[i] /\ e[i] = FlatMap(ss[i], m)
        BY ONLY <1>3, <1>7, <2>3, <3>1 DEF JoinsUp
    <3>3. FlatMap(g[i], m) = FlatMap(g[i - 1], m) \o FlatMap(ss[i], m)
        BY ONLY <1>5, <3>2
    <3> QED BY ONLY <1>9, <3>1, <3>2, <3>3
  <2> QED BY ONLY <2>1, <2>2, <2>3 DEF JoinsUp
<1>11. FlattenSeq(e) = k[n]
    BY <1>1, <1>8, <1>10, FlattenIs
<1>12. k[n] = FlatMap(g[n], m)
    BY ONLY <1>7, <1>9
<1> QED BY <1>1, <1>3, <1>6, <1>8, <1>11, <1>12 DEF FlatMapsThrough

-----------------------------------------------------------------------------
(* What a joined list holds                                                *)

\* Empty lists join to nothing.
LEMMA FlattenBlank ==
    ASSUME NEW W, NEW s \in Seq(Seq(W)), \A i \in DOMAIN s : s[i] = <<>>
    PROVE  FlattenSeq(s) = <<>>
<1>1. PICK n, T : n = Len(s) /\ T = Seq(W)
    OBVIOUS
<1>2. n \in Nat /\ <<>> \in T /\ \A i \in 1..n : s[i] = <<>>
    BY <1>1, LenProperties, EmptySeq
<1>3. PICK g : g = [i \in 0..n |-> <<>>]
    OBVIOUS
<1>4. <<>> \o <<>> = <<>>
    BY <1>1, <1>2, ConcatEmptySeq
<1>5. JoinsUp(g, s, n, T)
    BY ONLY <1>2, <1>3, <1>4 DEF JoinsUp
<1>6. FlattenSeq(s) = g[n]
    BY <1>1, <1>5, FlattenIs
<1> QED BY <1>2, <1>3, <1>6

\* A list among empty ones is what they join to.
LEMMA FlattenOnly ==
    ASSUME NEW W, NEW s \in Seq(Seq(W)), NEW k \in DOMAIN s,
           \A i \in DOMAIN s : i # k => s[i] = <<>>
    PROVE  FlattenSeq(s) = s[k]
<1>1. PICK n, T : n = Len(s) /\ T = Seq(W)
    OBVIOUS
<1>2. n \in Nat /\ k \in 1..n /\ <<>> \in T /\ s[k] \in T /\ \A i \in 1..n : i # k => s[i] = <<>>
    BY <1>1, LenProperties, EmptySeq
<1>3. PICK g : g = [i \in 0..n |-> IF i < k THEN <<>> ELSE s[k]]
    OBVIOUS
<1>4. <<>> \o <<>> = <<>> /\ <<>> \o s[k] = s[k] /\ s[k] \o <<>> = s[k]
    BY <1>1, <1>2, ConcatEmptySeq
<1>5. g \in [0..n -> T] /\ g[0] = <<>>
    BY ONLY <1>2, <1>3
<1>6. ASSUME NEW i \in 1..n
      PROVE  g[i] = g[i - 1] \o s[i]
  <2>1. i \in 0..n /\ i - 1 \in 0..n
      BY ONLY <1>2, <1>6
  <2>2. CASE i < k
    <3>1. g[i] = <<>> /\ g[i - 1] = <<>> /\ s[i] = <<>>
        BY ONLY <1>2, <1>3, <1>6, <2>1, <2>2
    <3> QED BY ONLY <1>4, <3>1
  <2>3. CASE i = k
    <3>1. g[i] = s[k] /\ g[i - 1] = <<>> /\ s[i] = s[k]
        BY ONLY <1>2, <1>3, <1>6, <2>1, <2>3
    <3> QED BY ONLY <1>4, <3>1
  <2>4. CASE i > k
    <3>1. g[i] = s[k] /\ g[i - 1] = s[k] /\ s[i] = <<>>
        BY ONLY <1>2, <1>3, <1>6, <2>1, <2>4
    <3> QED BY ONLY <1>4, <3>1
  <2>5. k \in 1..n /\ i \in 1..n
      BY ONLY <1>2, <1>6
  <2>6. i < k \/ i = k \/ i > k
      BY ONLY <1>2, <2>5
  <2> QED BY ONLY <2>2, <2>3, <2>4, <2>6
<1>7. JoinsUp(g, s, n, T)
    BY ONLY <1>5, <1>6 DEF JoinsUp
<1>8. FlattenSeq(s) = g[n]
    BY <1>1, <1>7, FlattenIs
<1> QED BY <1>2, <1>3, <1>8

LEMMA FlattenHas ==
    ASSUME NEW W, NEW s \in Seq(Seq(W)), NEW x \in Range(FlattenSeq(s))
    PROVE  \E b \in DOMAIN s : x \in Range(s[b])
<1>1. PICK n, T : n = Len(s) /\ T = Seq(W)
    OBVIOUS
<1>2. IsList(s, n, T) /\ DOMAIN s = 1..n
    BY <1>1, ListOf, LenProperties
<1>3. PICK g : JoinsUp(g, s, n, T) /\ FlattenSeq(s) = g[n]
    BY <1>1, FlattenJoinsUp
<1>4. PICK bad : bad = {m \in 0..n : ~(Range(g[m]) \subseteq UNION {Range(s[b]) : b \in 1..n})}
    OBVIOUS
<1>5. ASSUME bad # {} PROVE FALSE
  <2>1. bad \subseteq Nat
      BY <1>4
  <2>2. PICK m \in bad : \A y \in bad : m <= y
      BY <1>5, <2>1, LeastNumber
  <2>3. n \in Nat /\ m \in 0..n
      BY <1>2, <1>4 DEF IsList
  <2>4. CASE m = 0
    <3>1. Range(g[m]) = {}
        BY <1>3, <2>4 DEF JoinsUp, Range
    <3> QED BY <1>4, <3>1
  <2>5. CASE m # 0
    <3>1. m \in 1..n /\ m - 1 \in 0..n /\ m - 1 \notin bad
        BY <2>2, <2>3, <2>5
    <3>2. Range(g[m - 1]) \subseteq UNION {Range(s[b]) : b \in 1..n}
        BY <1>4, <3>1
    <3>3. g[m] = g[m - 1] \o s[m] /\ g[m - 1] \in T /\ s[m] \in T
        BY ONLY <1>2, <1>3, <3>1 DEF JoinsUp, IsList
    <3>4. Range(g[m]) \subseteq Range(g[m - 1]) \cup Range(s[m])
      <4>1. PICK u, v, w : u = g[m - 1] /\ v = s[m] /\ w = g[m]
          OBVIOUS
      <4>2. u \in Seq(W) /\ v \in Seq(W) /\ w = u \o v
          BY <1>1, <3>3, <4>1
      <4>3. Range(w) \subseteq Range(u) \cup Range(v)
          BY ONLY <4>2, ConcatProperties, LenProperties DEF Range
      <4> QED BY <4>1, <4>3
    <3>5. Range(g[m]) \subseteq UNION {Range(s[b]) : b \in 1..n}
        BY <3>1, <3>2, <3>4
    <3> QED BY <1>4, <2>2, <3>5
  <2> QED BY <2>4, <2>5
<1>6. n \in 0..n
    BY <1>2 DEF IsList
<1>7. Range(g[n]) \subseteq UNION {Range(s[b]) : b \in 1..n}
    BY <1>4, <1>5, <1>6
<1> QED BY <1>2, <1>3, <1>7

IsJoined(z, s, a, t, b, W) ==
    a \in Nat /\ b \in Nat /\ z \in Seq(W) /\ Len(z) = a + b /\ Behind(z, s, a, t, b)

LEMMA ConcatList ==
    ASSUME NEW W, NEW s \in Seq(W), NEW t \in Seq(W), NEW z, z = s \o t,
           NEW a, a = Len(s), NEW b, b = Len(t)
    PROVE  IsJoined(z, s, a, t, b, W)
<1>1. a \in Nat /\ b \in Nat
    BY LenProperties
<1>2. z \in Seq(W) /\ Len(z) = a + b
    BY ConcatProperties
<1>3. ASSUME NEW i \in 1..(a + b)
      PROVE  z[i] = IF i <= a THEN s[i] ELSE t[i - a]
    BY <1>1, ConcatProperties
<1> QED BY <1>1, <1>2, <1>3 DEF IsJoined, Behind

Injective(s) == \A i, j \in DOMAIN s : s[i] = s[j] => i = j

\* A member of a flattened list stands between what comes before and after it.
LEMMA PartOfFlatten ==
    ASSUME NEW W, NEW s \in Seq(Seq(W)), NEW b \in DOMAIN s
    PROVE  \E x, y \in Seq(W) : FlattenSeq(s) = x \o (s[b] \o y)
<1>1. PICK T : T = Seq(W)
    OBVIOUS
<1>2. s \in Seq(T) /\ Len(s) \in Nat /\ b \in 1..Len(s) /\ s[b] \in T
    BY <1>1, LenProperties, ElementOfSeq
<1>3. PICK f, e, m : f = SubSeq(s, 1, b - 1) /\ e = SubSeq(s, b + 1, Len(s)) /\ m = <<s[b]>>
    OBVIOUS
<1>4. f \in Seq(T) /\ e \in Seq(T) /\ m \in Seq(T)
  <2>1. \A i \in 1..Len(s) : s[i] \in T
      BY <1>2, ElementOfSeq
  <2>2. \A i \in 1..(b - 1) : s[i] \in T
      BY ONLY <1>2, <2>1
  <2>3. \A i \in (b + 1)..Len(s) : s[i] \in T
      BY ONLY <1>2, <2>1
  <2>4. 1 \in Int /\ b - 1 \in Int /\ b + 1 \in Int /\ Len(s) \in Int
      BY ONLY <1>2
  <2>5. f \in Seq(T)
      BY ONLY <1>3, <2>2, <2>4, SubSeqProperties
  <2>6. e \in Seq(T)
      BY ONLY <1>3, <2>3, <2>4, SubSeqProperties
  <2>7. m \in Seq(T)
      BY ONLY <1>2, <1>3
  <2> QED BY <2>5, <2>6, <2>7
<1>5. s = f \o (m \o e)
  <2>1. SubSeq(s, b, Len(s)) = m \o e
    <3>1. b \in 1..Len(s) /\ Len(s) \in b..Len(s)
        BY ONLY <1>2
    <3> QED BY ONLY <1>2, <1>3, <3>1, SubSeqRecursiveFirst
  <2>2. SubSeq(s, 1, b - 1) \o SubSeq(s, (b - 1) + 1, Len(s)) = SubSeq(s, 1, Len(s))
    <3>1. 1 \in 1..(Len(s) + 1) /\ b - 1 \in (1 - 1)..Len(s) /\ Len(s) \in (b - 1)..Len(s)
        BY ONLY <1>2
    <3> QED BY ONLY <1>2, <3>1, ConcatAdjacentSubSeq
  <2>3. SubSeq(s, 1, Len(s)) = s
      BY ONLY <1>2, SubSeqFull
  <2>4. (b - 1) + 1 = b
      BY ONLY <1>2
  <2> QED BY ONLY <1>3, <2>1, <2>2, <2>3, <2>4
<1>6. FlattenSeq(s) = FlattenSeq(f) \o FlattenSeq(m \o e)
  <2>1. m \o e \in Seq(T)
      BY ONLY <1>4, ConcatProperties
  <2> QED BY <1>1, <1>4, <1>5, <2>1, FlattenConcat
<1>7. FlattenSeq(m \o e) = FlattenSeq(m) \o FlattenSeq(e)
    BY <1>1, <1>4, FlattenConcat
<1>8. FlattenSeq(m) = s[b]
    BY <1>1, <1>2, <1>3, FlattenOne
<1>9. FlattenSeq(f) \in T /\ FlattenSeq(e) \in T
    BY <1>1, <1>4, FlattenType
<1>10. FlattenSeq(s) = FlattenSeq(f) \o (s[b] \o FlattenSeq(e))
    BY ONLY <1>6, <1>7, <1>8
<1> QED BY <1>1, <1>9, <1>10

LEMMA InjectivePart ==
    ASSUME NEW W, NEW a \in Seq(W), NEW x \in Seq(W), NEW p \in Seq(W), NEW y \in Seq(W),
           Injective(a \o (x \o (p \o y)))
    PROVE  Injective(a \o p)
<1>1. PICK py, xpy, all, ap : py = p \o y /\ xpy = x \o py /\ all = a \o xpy /\ ap = a \o p
    OBVIOUS
<1>2. PICK la, lx, lp, ly : la = Len(a) /\ lx = Len(x) /\ lp = Len(p) /\ ly = Len(y)
    OBVIOUS
<1>3. la \in Nat /\ lx \in Nat /\ lp \in Nat /\ ly \in Nat
    BY <1>2, LenProperties
<1>4. IsJoined(py, p, lp, y, ly, W)
    BY <1>1, <1>2, ConcatList
<1>5. IsJoined(xpy, x, lx, py, lp + ly, W)
  <2>1. PICK n : n = lp + ly
      OBVIOUS
  <2>2. py \in Seq(W) /\ n = Len(py)
      BY ONLY <1>4, <2>1 DEF IsJoined
  <2>3. IsJoined(xpy, x, lx, py, n, W)
      BY <1>1, <1>2, <2>2, ConcatList
  <2> QED BY <2>1, <2>3
<1>6. IsJoined(all, a, la, xpy, lx + (lp + ly), W)
  <2>1. PICK n : n = lx + (lp + ly)
      OBVIOUS
  <2>2. xpy \in Seq(W) /\ n = Len(xpy)
      BY ONLY <1>5, <2>1 DEF IsJoined
  <2>3. IsJoined(all, a, la, xpy, n, W)
      BY <1>1, <1>2, <2>2, ConcatList
  <2> QED BY <2>1, <2>3
<1>7. IsJoined(ap, a, la, p, lp, W)
    BY <1>1, <1>2, ConcatList
<1> DEFINE to(i) == IF i <= la THEN i ELSE i + lx
<1>8. ASSUME NEW i \in 1..(la + lp)
      PROVE  to(i) \in 1..(la + (lx + (lp + ly))) /\ all[to(i)] = ap[i]
  <2>1. CASE i <= la
      BY ONLY <1>3, <1>6, <1>7, <1>8, <2>1 DEF IsJoined, Behind
  <2>2. CASE ~(i <= la)
    <3>1. i + lx \in 1..(la + (lx + (lp + ly))) /\ ~(i + lx <= la) /\ (i + lx) - la = (i - la) + lx
        BY ONLY <1>3, <1>8, <2>2
    <3>2. (i - la) + lx \in 1..(lx + (lp + ly)) /\ ~((i - la) + lx <= lx) /\ ((i - la) + lx) - lx = i - la
        BY ONLY <1>3, <1>8, <2>2
    <3>3. i - la \in 1..(lp + ly) /\ i - la <= lp
        BY ONLY <1>3, <1>8, <2>2
    <3>4. all[i + lx] = xpy[(i - la) + lx]
        BY ONLY <1>6, <3>1 DEF IsJoined, Behind
    <3>5. xpy[(i - la) + lx] = py[i - la]
        BY ONLY <1>5, <3>2 DEF IsJoined, Behind
    <3>6. py[i - la] = p[i - la]
        BY ONLY <1>4, <3>3 DEF IsJoined, Behind
    <3>7. ap[i] = p[i - la]
        BY ONLY <1>7, <1>8, <2>2 DEF IsJoined, Behind
    <3> QED BY ONLY <2>2, <3>1, <3>4, <3>5, <3>6, <3>7
  <2> QED BY <2>1, <2>2
<1>9. DOMAIN ap = 1..(la + lp) /\ DOMAIN all = 1..(la + (lx + (lp + ly)))
    BY ONLY <1>6, <1>7, LenProperties DEF IsJoined
<1>10. Injective(all)
    BY <1>1
<1>11. ASSUME NEW i \in DOMAIN ap, NEW j \in DOMAIN ap, ap[i] = ap[j]
       PROVE  i = j
  <2>1. to(i) = to(j)
    <3>1. i \in 1..(la + lp) /\ j \in 1..(la + lp)
        BY ONLY <1>9, <1>11
    <3>2. to(i) \in DOMAIN all /\ to(j) \in DOMAIN all /\ all[to(i)] = all[to(j)]
        BY ONLY <1>8, <1>9, <1>11, <3>1
    <3> HIDE DEF to
    <3> QED BY ONLY <1>10, <3>2 DEF Injective
  <2> QED BY ONLY <1>3, <1>9, <1>11, <2>1
<1> QED BY <1>1, <1>11 DEF Injective

-----------------------------------------------------------------------------
(* The pieces of a list                                                    *)

\* One more member, in a piece of its own or at the end of the last piece
Cut(acc, x, new) ==
    IF new THEN Append(acc, <<x>>) ELSE [acc EXCEPT ![Len(acc)] = Append(@, x)]

\* No piece is empty.
Filled(s) == \A i \in DOMAIN s : s[i] # <<>>

Extends(acc, f, e, x) == Cut(acc, x, FALSE) = Append(f, Append(e, x))

LEMMA LastExtended ==
    ASSUME NEW W, NEW f \in Seq(Seq(W)), NEW e \in Seq(W), NEW acc, acc = Append(f, e), NEW x \in W
    PROVE  Extends(acc, f, e, x)
<1>1. PICK T : T = Seq(W)
    OBVIOUS
<1>2. f \in Seq(T) /\ e \in T /\ Append(e, x) \in T
    BY <1>1, AppendProperties
<1>3. PICK y, z : y = Append(e, x) /\ z = Append(f, y)
    OBVIOUS
<1>4. PICK n : n = Len(f)
    OBVIOUS
<1>5. n \in Nat
    BY ONLY <1>2, <1>4, LenProperties
<1>6. /\ acc \in Seq(T) /\ Len(acc) = n + 1 /\ acc[n + 1] = e
      /\ \A i \in 1..n : acc[i] = f[i]
    BY ONLY <1>2, <1>4, acc = Append(f, e), AppendProperties
<1>7. /\ z \in Seq(T) /\ Len(z) = n + 1 /\ z[n + 1] = y
      /\ \A i \in 1..n : z[i] = f[i]
    BY ONLY <1>2, <1>3, <1>4, AppendProperties
<1>8. DOMAIN acc = 1..(n + 1) /\ DOMAIN z = 1..(n + 1) /\ z = [i \in 1..(n + 1) |-> z[i]]
    BY ONLY <1>6, <1>7, LenProperties
<1>9. PICK r : r = [acc EXCEPT ![n + 1] = Append(@, x)]
    OBVIOUS
<1>10. r = [i \in 1..(n + 1) |-> IF i = n + 1 THEN y ELSE acc[i]]
    BY ONLY <1>3, <1>5, <1>6, <1>8, <1>9
<1>11. ASSUME NEW i \in 1..(n + 1)
       PROVE  r[i] = z[i]
    BY ONLY <1>5, <1>6, <1>7, <1>10, <1>11
<1>12. r = z
    BY ONLY <1>8, <1>10, <1>11
<1>13. Cut(acc, x, FALSE) = r
    BY ONLY <1>6, <1>9 DEF Cut
<1> QED BY ONLY <1>3, <1>12, <1>13 DEF Extends

LEMMA FlattenAppend ==
    ASSUME NEW W, NEW s \in Seq(Seq(W)), NEW x \in Seq(W)
    PROVE  FlattenSeq(Append(s, x)) = FlattenSeq(s) \o x
<1>1. PICK T : T = Seq(W)
    OBVIOUS
<1>2. Append(s, x) = s \o <<x>>
    BY ONLY s \in Seq(Seq(W)), x \in Seq(W), AppendIsConcat
<1>3. PICK y : y = <<x>>
    OBVIOUS
<1>4. y \in Seq(Seq(W)) /\ FlattenSeq(y) = x
    BY <1>1, <1>3, FlattenOne
<1>5. FlattenSeq(s \o y) = FlattenSeq(s) \o FlattenSeq(y)
    BY <1>4, FlattenConcat
<1> QED BY ONLY <1>2, <1>3, <1>4, <1>5

CutsWell(acc, x, new) ==
    /\ Cut(acc, x, new) # <<>> /\ FlattenSeq(Cut(acc, x, new)) = FlattenSeq(acc) \o <<x>>
    /\ Filled(acc) => Filled(Cut(acc, x, new))

LEMMA CutJoins ==
    ASSUME NEW W, NEW acc \in Seq(Seq(W)), NEW x \in W, NEW new \in BOOLEAN, new \/ acc # <<>>
    PROVE  Cut(acc, x, new) \in Seq(Seq(W)) /\ CutsWell(acc, x, new)
<1>1. PICK T : T = Seq(W)
    OBVIOUS
<1>2. <<x>> \in T /\ <<x>> # <<>>
    BY <1>1
<1>3. CASE new
  <2>1. Cut(acc, x, new) = Append(acc, <<x>>)
      BY <1>3 DEF Cut
  <2>2. Append(acc, <<x>>) \in Seq(T) /\ Append(acc, <<x>>) # <<>>
      BY <1>1, <1>2, AppendProperties
  <2>3. FlattenSeq(Append(acc, <<x>>)) = FlattenSeq(acc) \o <<x>>
      BY <1>1, <1>2, FlattenAppend
  <2>4. Filled(acc) => Filled(Append(acc, <<x>>))
      BY <1>1, <1>2, AppendProperties, LenProperties DEF Filled
  <2> QED BY ONLY <1>1, <2>1, <2>2, <2>3, <2>4 DEF CutsWell
<1>4. CASE ~new
  <2>1. acc # <<>> /\ acc \in Seq(T)
      BY <1>1, <1>4
  <2>2. PICK f \in Seq(T), e \in T : acc = Append(f, e)
      BY ONLY <2>1, SequenceEmptyOrAppend
  <2>3. PICK y : y = Append(e, x)
      OBVIOUS
  <2>4. y \in T /\ y # <<>> /\ y = e \o <<x>>
      BY <1>1, <2>3, AppendProperties, AppendIsConcat
  <2>5. Cut(acc, x, new) = Append(f, y)
    <3>1. new = FALSE
        BY <1>4
    <3>2. Cut(acc, x, FALSE) = Append(f, Append(e, x))
      <4>1. f \in Seq(Seq(W)) /\ e \in Seq(W) /\ acc = Append(f, e) /\ x \in W
          BY ONLY <1>1, <2>2, x \in W
      <4>2. Extends(acc, f, e, x)
          BY ONLY <4>1, LastExtended
      <4> QED BY ONLY <4>2 DEF Extends
    <3> QED BY ONLY <2>3, <3>1, <3>2
  <2>6. Append(f, y) \in Seq(T) /\ Append(f, y) # <<>>
      BY ONLY <2>2, <2>4, AppendProperties
  <2>7. FlattenSeq(Append(f, y)) = FlattenSeq(f) \o y
      BY <1>1, <2>2, <2>4, FlattenAppend
  <2>8. FlattenSeq(acc) = FlattenSeq(f) \o e
      BY <1>1, <2>2, FlattenAppend
  <2>9. FlattenSeq(f) \in Seq(W) /\ e \in Seq(W) /\ <<x>> \in Seq(W)
      BY <1>1, <1>2, <2>2, FlattenType
  <2>10. FlattenSeq(f) \o (e \o <<x>>) = (FlattenSeq(f) \o e) \o <<x>>
      BY ONLY <2>9, ConcatAssociative
  <2>11. Filled(acc) => Filled(Append(f, y))
    <3>1. PICK n, a : n = Len(f) /\ a = Append(f, y)
        OBVIOUS
    <3>2. /\ n \in Nat /\ acc \in Seq(T) /\ Len(acc) = n + 1
          /\ \A i \in 1..n : acc[i] = f[i]
        BY ONLY <2>2, <3>1, AppendProperties, LenProperties
    <3>3. /\ a \in Seq(T) /\ Len(a) = n + 1 /\ a[n + 1] = y
          /\ \A i \in 1..n : a[i] = f[i]
        BY ONLY <2>2, <2>4, <3>1, AppendProperties
    <3>4. DOMAIN acc = 1..(n + 1) /\ DOMAIN a = 1..(n + 1)
        BY ONLY <3>2, <3>3, LenProperties
    <3>5. ASSUME Filled(acc), NEW i \in DOMAIN a
          PROVE  a[i] # <<>>
        BY ONLY <2>4, <3>2, <3>3, <3>4, <3>5 DEF Filled
    <3> QED BY <3>1, <3>5 DEF Filled
  <2> QED BY ONLY <1>1, <2>4, <2>5, <2>6, <2>7, <2>8, <2>10, <2>11 DEF CutsWell
<1> QED BY <1>3, <1>4

LEMMA CutType ==
    ASSUME NEW W, NEW acc \in Seq(Seq(W)), NEW x \in W, NEW new \in BOOLEAN
    PROVE  Cut(acc, x, new) \in Seq(Seq(W))
<1>1. CASE new \/ acc # <<>>
    BY <1>1, CutJoins
<1>2. CASE ~new /\ acc = <<>>
  <2>1. Cut(acc, x, new) = [<<>> EXCEPT ![Len(<<>>)] = Append(@, x)]
      BY <1>2 DEF Cut
  <2>2. [<<>> EXCEPT ![Len(<<>>)] = Append(@, x)] = <<>>
      BY EmptySeq
  <2> QED BY <1>2, <2>1, <2>2
<1> QED BY <1>1, <1>2

\* Pieces(s, places) is what its recursion says.
Cutting(f, s, places, n) ==
    /\ f[0] = <<>>
    /\ \A i \in 1..n : f[i] = Cut(f[i - 1], s[i], i = 1 \/ i \in places)

LEMMA PiecesUnfold ==
    ASSUME NEW W, NEW s \in Seq(W), NEW places
    PROVE  \E f : /\ f \in [0..Len(s) -> Seq(Seq(W))] /\ Cutting(f, s, places, Len(s))
                  /\ Pieces(s, places) = f[Len(s)]
<1>1. PICK n, S, none : n = Len(s) /\ S = Seq(Seq(W)) /\ none = <<>>
    OBVIOUS
<1>2. n \in Nat /\ \A i \in 1..n : s[i] \in W
    BY <1>1, LenProperties
<1>3. none \in S
    BY <1>1, EmptySeq
<1>4. \A acc \in S : \A i \in 1..n : Cut(acc, s[i], i = 1 \/ i \in places) \in S
    BY <1>1, <1>2, CutType
<1>5. PICK step : step = [i \in 1..n |-> [acc \in S |-> Cut(acc, s[i], i = 1 \/ i \in places)]]
    OBVIOUS
<1>6. step \in [1..n -> [S -> S]]
    BY ONLY <1>4, <1>5
<1>7. PICK g : Follows(g, S, none, n, step)
    BY ONLY <1>2, <1>3, <1>6, RecursionExists
<1>8. g \in [0..n -> S] /\ g[0] = <<>> /\ \A i \in 1..n : g[i] = step[i][g[i - 1]]
    BY ONLY <1>1, <1>7 DEF Follows
<1>9. ASSUME NEW i \in 1..n
      PROVE  g[i] = Cut(g[i - 1], s[i], i = 1 \/ i \in places)
  <2>1. g[i - 1] \in S
      BY ONLY <1>2, <1>8
  <2> QED BY ONLY <1>5, <1>8, <2>1
<1>10. ASSUME NEW i \in 0..n
       PROVE  g[i] = IF i = 0 THEN <<>>
                     ELSE IF i = 1 \/ i \in places THEN Append(g[i - 1], <<s[i]>>)
                     ELSE [g[i - 1] EXCEPT ![Len(g[i - 1])] = Append(@, s[i])]
  <2>1. CASE i = 0
      BY ONLY <1>8, <2>1
  <2>2. CASE i # 0
    <3>1. i \in 1..n
        BY ONLY <1>2, <1>10, <2>2
    <3> QED BY ONLY <1>9, <2>2, <3>1 DEF Cut
  <2> QED BY <2>1, <2>2
<1>11. g = [i \in 0..n |-> IF i = 0 THEN <<>>
                     ELSE IF i = 1 \/ i \in places THEN Append(g[i - 1], <<s[i]>>)
                     ELSE [g[i - 1] EXCEPT ![Len(g[i - 1])] = Append(@, s[i])]]
    BY ONLY <1>8, <1>10
<1> DEFINE pieces == CHOOSE f : f = [i \in 0..n |-> IF i = 0 THEN <<>>
                     ELSE IF i = 1 \/ i \in places THEN Append(f[i - 1], <<s[i]>>)
                     ELSE [f[i - 1] EXCEPT ![Len(f[i - 1])] = Append(@, s[i])]]
<1>12. PICK f : f = pieces
    OBVIOUS
<1>13. f = [i \in 0..n |-> IF i = 0 THEN <<>>
                     ELSE IF i = 1 \/ i \in places THEN Append(f[i - 1], <<s[i]>>)
                     ELSE [f[i - 1] EXCEPT ![Len(f[i - 1])] = Append(@, s[i])]]
    BY ONLY <1>11, <1>12
<1>14. Pieces(s, places) = f[n]
    BY ONLY <1>1, <1>12 DEF Pieces
<1> HIDE DEF pieces
<1>15. f[0] = <<>>
    BY ONLY <1>2, <1>13
<1>16. ASSUME NEW i \in 1..n
       PROVE  f[i] = Cut(f[i - 1], s[i], i = 1 \/ i \in places)
  <2>1. i \in 0..n /\ i # 0
      BY ONLY <1>2, <1>16
  <2>2. f[i] = IF i = 1 \/ i \in places THEN Append(f[i - 1], <<s[i]>>)
               ELSE [f[i - 1] EXCEPT ![Len(f[i - 1])] = Append(@, s[i])]
      BY ONLY <1>13, <2>1
  <2> QED BY ONLY <2>2 DEF Cut
<1>17. PICK bad : bad = {i \in 0..n : f[i] # g[i]}
    OBVIOUS
<1>18. ASSUME bad # {} PROVE FALSE
  <2>1. bad \subseteq Nat
      BY ONLY <1>17
  <2>2. PICK m \in bad : \A y \in bad : m <= y
      BY ONLY <1>18, <2>1, LeastNumber
  <2>3. m \in 0..n /\ f[m] # g[m]
      BY ONLY <1>17, <2>2
  <2>4. m # 0
      BY ONLY <1>8, <1>15, <2>3
  <2>5. m \in 1..n /\ m - 1 \in 0..n /\ m - 1 < m
      BY ONLY <1>2, <2>3, <2>4
  <2>6. m - 1 \notin bad
      BY ONLY <2>2, <2>3, <2>5, <1>2
  <2>7. f[m - 1] = g[m - 1]
      BY ONLY <1>17, <2>5, <2>6
  <2> QED BY ONLY <1>9, <1>16, <2>3, <2>5, <2>7
<1>19. \A i \in 0..n : f[i] = g[i]
    BY ONLY <1>17, <1>18
<1>20. f \in [0..n -> S]
    BY ONLY <1>8, <1>13, <1>19
<1>21. Cutting(f, s, places, n)
    BY ONLY <1>15, <1>16 DEF Cutting
<1> QED BY <1>1, <1>14, <1>20, <1>21

MakeUp(p, s, W) == p \in Seq(Seq(W)) /\ FlattenSeq(p) = s /\ Filled(p)

LEMMA PiecesJoin ==
    ASSUME NEW W, NEW s \in Seq(W), NEW places
    PROVE  MakeUp(Pieces(s, places), s, W)
<1>1. PICK n : n = Len(s)
    OBVIOUS
<1>2. PICK f : /\ f \in [0..n -> Seq(Seq(W))] /\ Cutting(f, s, places, n)
               /\ Pieces(s, places) = f[n]
    BY <1>1, PiecesUnfold
<1>3. n \in Nat /\ \A i \in 1..n : s[i] \in W
    BY <1>1, LenProperties
<1> DEFINE Good(i) == /\ FlattenSeq(f[i]) = SubSeq(s, 1, i) /\ Filled(f[i])
                      /\ i > 0 => f[i] # <<>>
<1>4. PICK bad : bad = {i \in 0..n : ~Good(i)}
    OBVIOUS
<1>5. ASSUME bad # {} PROVE FALSE
  <2>1. bad \subseteq Nat
      BY ONLY <1>4
  <2>2. PICK m \in bad : \A y \in bad : m <= y
      BY ONLY <1>5, <2>1, LeastNumber
  <2>3. m \in 0..n /\ ~Good(m)
      BY ONLY <1>4, <2>2
  <2>4. CASE m = 0
    <3>1. f[0] = <<>>
        BY ONLY <1>2 DEF Cutting
    <3>2. SubSeq(s, 1, 0) = <<>>
        BY ONLY SubSeqEmpty
    <3>3. Filled(<<>>)
        BY DEF Filled
    <3>4. FlattenSeq(f[0]) = SubSeq(s, 1, 0) /\ Filled(f[0])
        BY ONLY <3>1, <3>2, <3>3, FlattenEmpty
    <3>5. Good(0)
        BY ONLY <3>4
    <3> QED BY ONLY <2>3, <2>4, <3>5
  <2>5. CASE m # 0
    <3>1. m \in 1..n /\ m - 1 \in 0..n /\ m - 1 < m
        BY ONLY <1>3, <2>3, <2>5
    <3>2. m - 1 \notin bad
        BY ONLY <1>3, <2>2, <2>3, <3>1
    <3>3. Good(m - 1)
        BY ONLY <1>4, <3>1, <3>2
    <3>4. PICK new \in BOOLEAN : new = (m = 1 \/ m \in places)
        OBVIOUS
    <3>5. f[m] = Cut(f[m - 1], s[m], new)
        BY ONLY <1>2, <3>1, <3>4 DEF Cutting
    <3>6. f[m - 1] \in Seq(Seq(W)) /\ s[m] \in W
        BY ONLY <1>2, <1>3, <3>1
    <3>7. new \/ f[m - 1] # <<>>
      <4>1. m # 1 => m - 1 > 0
          BY ONLY <3>1, <1>3
      <4> QED BY ONLY <3>3, <3>4, <4>1
    <3>8. /\ f[m] # <<>> /\ FlattenSeq(f[m]) = FlattenSeq(f[m - 1]) \o <<s[m]>>
          /\ Filled(f[m - 1]) => Filled(f[m])
      <4>1. PICK x, acc : x = s[m] /\ acc = f[m - 1]
          OBVIOUS
      <4>2. acc \in Seq(Seq(W)) /\ x \in W /\ (new \/ acc # <<>>)
          BY ONLY <3>6, <3>7, <4>1
      <4>3. CutsWell(acc, x, new)
          BY ONLY <4>2, new \in BOOLEAN, CutJoins
      <4> QED BY ONLY <3>5, <4>1, <4>3 DEF CutsWell
    <3>9. SubSeq(s, 1, m) = SubSeq(s, 1, m - 1) \o <<s[m]>>
      <4>1. 1 \in 1..Len(s) /\ m \in 1..Len(s)
          BY ONLY <1>1, <1>3, <3>1
      <4> QED BY ONLY s \in Seq(W), <4>1, SubSeqRecursiveSecond
    <3> QED BY ONLY <2>3, <3>3, <3>8, <3>9
  <2> QED BY <2>4, <2>5
<1>6. Good(n)
  <2>1. n \in 0..n
      BY ONLY <1>3
  <2> QED BY ONLY <1>4, <1>5, <2>1
<1>7. f[n] \in Seq(Seq(W))
    BY ONLY <1>2, <1>3
<1>8. SubSeq(s, 1, n) = s
    BY <1>1, SubSeqFull
<1> QED BY ONLY <1>2, <1>6, <1>7, <1>8 DEF MakeUp

LEMMA GreedyJoins ==
    ASSUME NEW W, NEW s \in Seq(W), NEW joins
    PROVE  MakeUp(Greedy(s, joins), s, W)
BY PiecesJoin DEF Greedy

-----------------------------------------------------------------------------
(* The words of the units                                                  *)

\* A word is a unit and its place in it.
Words == Nat \X Nat

AnyUnit == UNION {UNION Range(Shapes[a]) : a \in DOMAIN Shapes}
UnitsRead == units \in Seq(AnyUnit)

LEMMA SequenceOf ==
    ASSUME NEW n \in Nat, NEW T, NEW s, DOMAIN s = 1..n, s = [i \in 1..n |-> s[i]],
           \A i \in 1..n : s[i] \in T
    PROVE  s \in Seq(T) /\ Len(s) = n
<1>1. s \in [1..n -> T]
    OBVIOUS
<1> QED BY <1>1, FunctionIsSeq

LEMMA WordsAre ==
    ASSUME UnitsRead, NEW u \in DOMAIN units
    PROVE  /\ WordsOf(u) \in Seq(Words) /\ WordsOf(u) # <<>>
           /\ \A w \in DOMAIN WordsOf(u) : WordsOf(u)[w][1] = u
<1>1. Len(units) \in Nat /\ DOMAIN units = 1..Len(units) /\ units[u] \in AnyUnit
    BY LenProperties, ElementOfSeq DEF UnitsRead
<1>2. u \in Nat
    BY <1>1
<1>3. units[u].text # <<>> /\ units[u].text \in Seq(Range(units[u].text))
  <2>1. PICK a \in DOMAIN Shapes : units[u] \in UNION Range(Shapes[a])
      BY <1>1 DEF AnyUnit
  <2>2. PICK n \in DOMAIN Shapes[a] : units[u] \in Shapes[a][n]
      BY <2>1 DEF Range
  <2> QED BY <2>2, ChunkerAssumption
<1>4. PICK n : n = Len(units[u].text)
    OBVIOUS
<1>5. n \in Nat /\ n # 0
    BY <1>3, <1>4, EmptySeq
<1>6. PICK x : x = WordsOf(u)
    OBVIOUS
<1>7. x = [w \in 1..n |-> <<u, w>>]
    BY <1>4, <1>6 DEF WordsOf
<1>8. x \in [1..n -> Words] /\ \A w \in 1..n : x[w][1] = u
    BY ONLY <1>2, <1>5, <1>7 DEF Words
<1>9. x \in Seq(Words) /\ Len(x) = n /\ DOMAIN x = 1..n
    BY ONLY <1>5, <1>8, FunctionIsSeq
<1>10. x # <<>>
    BY ONLY <1>5, <1>9, EmptySeq
<1> QED BY ONLY <1>6, <1>8, <1>9, <1>10

LEMMA FlattenSingles ==
    ASSUME NEW W, NEW x \in Seq(W), NEW s, DOMAIN s = DOMAIN x, s = [i \in DOMAIN x |-> s[i]],
           \A i \in DOMAIN x : s[i] = <<x[i]>>
    PROVE  s \in Seq(Seq(W)) /\ FlattenSeq(s) = x
<1>1. PICK n, T : n = Len(x) /\ T = Seq(W)
    OBVIOUS
<1>2. n \in Nat /\ DOMAIN x = 1..n /\ \A i \in 1..n : x[i] \in W
    BY <1>1, LenProperties
<1>3. \A i \in 1..n : s[i] = <<x[i]>> /\ s[i] \in T
  <2>1. ASSUME NEW i \in 1..n
        PROVE  s[i] = <<x[i]>> /\ s[i] \in T
    <3>1. x[i] \in W /\ s[i] = <<x[i]>>
        BY <1>2
    <3>2. <<x[i]>> \in Seq(W)
        BY ONLY <3>1
    <3> QED BY ONLY <1>1, <3>1, <3>2
  <2> QED BY <2>1
<1>4. s \in Seq(T) /\ Len(s) = n
    BY ONLY <1>2, <1>3, DOMAIN s = DOMAIN x, s = [i \in DOMAIN x |-> s[i]], SequenceOf
<1>5. PICK g : g = [i \in 0..n |-> SubSeq(x, 1, i)]
    OBVIOUS
<1>6. g \in [0..n -> T]
  <2>1. ASSUME NEW i \in 0..n
        PROVE  SubSeq(x, 1, i) \in Seq(W)
    <3>1. \A j \in 1..i : x[j] \in W
        BY ONLY <1>2, <2>1
    <3>2. 1 \in Int /\ i \in Int
        BY ONLY <1>2
    <3> QED BY ONLY <3>1, <3>2, SubSeqProperties
  <2> QED BY ONLY <1>1, <1>5, <2>1
<1>7. g[0] = <<>>
  <2>1. SubSeq(x, 1, 0) = <<>>
      BY ONLY SubSeqEmpty
  <2> QED BY ONLY <1>2, <1>5, <2>1
<1>8. ASSUME NEW i \in 1..n
      PROVE  g[i] = g[i - 1] \o s[i]
  <2>1. 1 \in 1..Len(x) /\ i \in 1..Len(x) /\ i \in 0..n /\ i - 1 \in 0..n
      BY ONLY <1>1, <1>2, <1>8
  <2>2. SubSeq(x, 1, i) = SubSeq(x, 1, i - 1) \o <<x[i]>>
      BY ONLY x \in Seq(W), <2>1, SubSeqRecursiveSecond
  <2> QED BY ONLY <1>3, <1>5, <1>8, <2>1, <2>2
<1>9. JoinsUp(g, s, n, T)
    BY ONLY <1>6, <1>7, <1>8 DEF JoinsUp
<1>10. FlattenSeq(s) = g[n]
    BY ONLY <1>1, <1>4, <1>9, FlattenIs
<1>11. g[n] = x
    BY ONLY <1>1, <1>2, <1>5, x \in Seq(W), SubSeqFull
<1> QED BY ONLY <1>1, <1>4, <1>10, <1>11

\* What Keep keeps of a word
KeptOf(u) == [word \in Words |-> IF word[1] = u THEN <<word>> ELSE <<>>]

LEMMA KeptOfType ==
    ASSUME NEW u
    PROVE  KeptOf(u) \in [Words -> Seq(Words)]
<1>1. \A word \in Words : <<word>> \in Seq(Words) /\ <<>> \in Seq(Words)
    BY EmptySeq
<1> QED BY <1>1 DEF KeptOf

LEMMA KeepIs ==
    ASSUME NEW text \in Seq(Words), NEW u
    PROVE  Keep(text, u) = FlatMap(text, KeptOf(u))
<1>1. DOMAIN text = 1..Len(text) /\ \A w \in DOMAIN text : text[w] \in Words
    BY LenProperties
<1>2. Mapped(text, KeptOf(u)) = [w \in DOMAIN text |-> IF text[w][1] = u THEN <<text[w]>> ELSE <<>>]
    BY <1>1 DEF Mapped, KeptOf
<1> QED BY <1>2 DEF Keep, FlatMap

LEMMA KeepAll ==
    ASSUME NEW u, NEW text \in Seq(Words), \A w \in DOMAIN text : text[w][1] = u
    PROVE  FlatMap(text, KeptOf(u)) = text
<1>1. PICK s : s = Mapped(text, KeptOf(u))
    OBVIOUS
<1>2. DOMAIN text = 1..Len(text) /\ \A w \in DOMAIN text : text[w] \in Words
    BY LenProperties
<1>3. DOMAIN s = DOMAIN text /\ s = [i \in DOMAIN text |-> s[i]]
    BY <1>1 DEF Mapped
<1>4. \A w \in DOMAIN text : s[w] = <<text[w]>>
    BY <1>1, <1>2 DEF Mapped, KeptOf
<1>5. FlattenSeq(s) = text
    BY ONLY <1>3, <1>4, text \in Seq(Words), FlattenSingles
<1> QED BY <1>1, <1>5 DEF FlatMap

LEMMA KeepNone ==
    ASSUME NEW u, NEW text \in Seq(Words), \A w \in DOMAIN text : text[w][1] # u
    PROVE  FlatMap(text, KeptOf(u)) = <<>>
<1>1. PICK s : s = Mapped(text, KeptOf(u))
    OBVIOUS
<1>2. DOMAIN text = 1..Len(text) /\ \A w \in DOMAIN text : text[w] \in Words
    BY LenProperties
<1>3. s \in Seq(Seq(Words))
    BY <1>1, KeptOfType, MappedSeq DEF IsMapped
<1>4. \A w \in DOMAIN s : s[w] = <<>>
    BY <1>1, <1>2 DEF Mapped, KeptOf
<1>5. FlattenSeq(s) = <<>>
    BY ONLY <1>3, <1>4, FlattenBlank
<1> QED BY <1>1, <1>5 DEF FlatMap

-----------------------------------------------------------------------------
(* Texts that leave units out                                              *)

\* The words of units one after the other, but for units that are left out
ShownWords(us, out) == [i \in DOMAIN us |-> IF us[i] \in out THEN <<>> ELSE WordsOf(us[i])]
TextWithout(us, out) == FlattenSeq(ShownWords(us, out))

LEMMA ShownWordsType ==
    ASSUME UnitsRead, NEW us \in Seq(DOMAIN units), NEW out
    PROVE  ShownWords(us, out) \in Seq(Seq(Words)) /\ Len(ShownWords(us, out)) = Len(us)
<1>1. PICK n, T, s : n = Len(us) /\ T = Seq(Words) /\ s = ShownWords(us, out)
    OBVIOUS
<1>2. n \in Nat /\ DOMAIN us = 1..n /\ \A i \in 1..n : us[i] \in DOMAIN units
    BY <1>1, LenProperties
<1>3. <<>> \in T /\ \A u \in DOMAIN units : WordsOf(u) \in T
    BY <1>1, EmptySeq, WordsAre
<1>4. s \in [1..n -> T]
    BY ONLY <1>1, <1>2, <1>3 DEF ShownWords
<1>5. s \in Seq(T) /\ Len(s) = n
    BY ONLY <1>2, <1>4, FunctionIsSeq
<1> QED BY ONLY <1>1, <1>5

LEMMA BodyIs ==
    ASSUME NEW us
    PROVE  Body(us) = TextWithout(us, {})
<1>1. [i \in DOMAIN us |-> WordsOf(us[i])] = ShownWords(us, {})
    BY DEF ShownWords
<1> QED BY <1>1 DEF Body, TextWithout

\* Units that are there once are said once, or not at all.
LEMMA KeptOnce ==
    ASSUME UnitsRead, NEW us \in Seq(DOMAIN units), Injective(us), NEW out, NEW u \in DOMAIN units
    PROVE  /\ TextWithout(us, out) \in Seq(Words)
           /\ Keep(TextWithout(us, out), u) = IF u \in Range(us) /\ u \notin out THEN WordsOf(u) ELSE <<>>
<1>1. PICK s, m, e, text : s = ShownWords(us, out) /\ m = KeptOf(u) /\ e = EachMapped(s, m)
                           /\ text = TextWithout(us, out)
    OBVIOUS
<1>2. s \in Seq(Seq(Words)) /\ Len(s) = Len(us) /\ m \in [Words -> Seq(Words)]
    BY <1>1, ShownWordsType, KeptOfType
<1>3. text = FlattenSeq(s) /\ text \in Seq(Words)
    BY <1>1, <1>2, FlattenType DEF TextWithout
<1>4. e \in Seq(Seq(Words)) /\ Keep(text, u) = FlattenSeq(e)
  <2>1. Keep(text, u) = FlatMap(text, m)
      BY ONLY <1>1, <1>3, KeepIs
  <2>2. FlatMapsThrough(s, m, Words)
      BY ONLY <1>2, FlatMapFlatten
  <2> QED BY ONLY <1>1, <1>3, <2>1, <2>2 DEF FlatMapsThrough
<1>5. PICK n : n = Len(us)
    OBVIOUS
<1>6. DOMAIN us = 1..n /\ DOMAIN s = 1..n /\ DOMAIN e = 1..n /\ \A i \in 1..n : us[i] \in DOMAIN units
    BY <1>1, <1>2, <1>5, LenProperties DEF EachMapped
<1>7. ASSUME NEW i \in 1..n
      PROVE  e[i] = IF us[i] = u /\ u \notin out THEN WordsOf(u) ELSE <<>>
  <2>1. e[i] = FlatMap(s[i], m) /\ s[i] = IF us[i] \in out THEN <<>> ELSE WordsOf(us[i])
      BY ONLY <1>1, <1>6, <1>7 DEF EachMapped, ShownWords
  <2>2. FlatMap(<<>>, m) = <<>>
      BY ONLY FlatMapEmpty
  <2>3. PICK v \in DOMAIN units : v = us[i]
      BY ONLY <1>6, <1>7
  <2>4. PICK x : x = WordsOf(v)
      OBVIOUS
  <2>5. x \in Seq(Words) /\ \A w \in DOMAIN x : x[w][1] = v
      BY <2>4, WordsAre
  <2>6. v = u => FlatMap(x, m) = x
      BY ONLY <1>1, <2>5, KeepAll
  <2>7. v # u => FlatMap(x, m) = <<>>
      BY ONLY <1>1, <2>5, KeepNone
  <2> QED BY ONLY <2>1, <2>2, <2>3, <2>4, <2>6, <2>7
<1>8. CASE u \in Range(us) /\ u \notin out
  <2>1. PICK k \in 1..n : us[k] = u
      BY ONLY <1>6, <1>8 DEF Range
  <2>2. \A i \in DOMAIN e : i # k => e[i] = <<>>
      BY ONLY <1>6, <1>7, <2>1, Injective(us) DEF Injective
  <2>3. FlattenSeq(e) = e[k]
      BY ONLY <1>4, <1>6, <2>1, <2>2, FlattenOnly
  <2> QED BY ONLY <1>1, <1>3, <1>4, <1>7, <1>8, <2>1, <2>3
<1>9. CASE ~(u \in Range(us) /\ u \notin out)
  <2>1. \A i \in DOMAIN e : e[i] = <<>>
      BY ONLY <1>6, <1>7, <1>9 DEF Range
  <2>2. FlattenSeq(e) = <<>>
      BY ONLY <1>4, <2>1, FlattenBlank
  <2> QED BY ONLY <1>1, <1>3, <1>4, <1>9, <2>2
<1> QED BY <1>8, <1>9

\* Items, or chunks, with the words they say
HasWords(x) == "words" \in DOMAIN x /\ x.words \in Seq(Words)
IsTexts(items) == items \in Seq(Range(items)) /\ \A i \in DOMAIN items : HasWords(items[i])

AllIn(ss) == {x \in UNION {Range(ss[i]) : i \in DOMAIN ss} : HasWords(x)}
TextMap(I) == [x \in I |-> x.words]

LEMMA TextsIn ==
    ASSUME NEW I, \A x \in I : HasWords(x), NEW items \in Seq(I)
    PROVE  IsTexts(items) /\ TextOf(items) = FlatMap(items, TextMap(I))
<1>1. Len(items) \in Nat /\ DOMAIN items = 1..Len(items) /\ \A i \in 1..Len(items) : items[i] \in I
    BY LenProperties
<1>2. items \in Seq(Range(items))
  <2>1. PICK n : n = Len(items)
      OBVIOUS
  <2>2. \A i \in 1..n : items[i] \in Range(items)
      BY <1>1, <2>1 DEF Range
  <2>3. items = [i \in 1..n |-> items[i]]
      BY <1>1, <2>1, LenProperties
  <2> QED BY ONLY <1>1, <2>1, <2>2, <2>3, SequenceOf
<1>3. Mapped(items, TextMap(I)) = [i \in DOMAIN items |-> items[i].words]
    BY <1>1 DEF Mapped, TextMap
<1> QED BY <1>1, <1>2, <1>3 DEF IsTexts, TextOf, FlatMap, HasWords

LEMMA TextOfFlatten ==
    ASSUME NEW ss, ss \in Seq(Range(ss)), \A i \in DOMAIN ss : IsTexts(ss[i])
    PROVE  /\ IsTexts(FlattenSeq(ss))
           /\ [i \in DOMAIN ss |-> TextOf(ss[i])] \in Seq(Seq(Words))
           /\ TextOf(FlattenSeq(ss)) = FlattenSeq([i \in DOMAIN ss |-> TextOf(ss[i])])
<1>1. PICK I : I = AllIn(ss)
    OBVIOUS
<1>2. \A x \in I : HasWords(x)
    BY ONLY <1>1 DEF AllIn
<1>3. PICK n : n = Len(ss)
    OBVIOUS
<1>4. n \in Nat /\ DOMAIN ss = 1..n /\ ss = [i \in 1..n |-> ss[i]]
    BY <1>3, LenProperties
<1>5. ASSUME NEW i \in 1..n
      PROVE  ss[i] \in Seq(I)
  <2>1. ss[i] \in Seq(Range(ss[i])) /\ \A j \in DOMAIN ss[i] : HasWords(ss[i][j])
      BY <1>4 DEF IsTexts
  <2>2. Range(ss[i]) \subseteq I
      BY ONLY <1>1, <1>4, <1>5, <2>1 DEF AllIn, Range
  <2> QED BY ONLY <2>1, <2>2, SeqMonotonic
<1>6. ss \in Seq(Seq(I))
  <2>1. PICK T : T = Seq(I)
      OBVIOUS
  <2> QED BY ONLY <1>4, <1>5, <2>1, SequenceOf
<1>7. PICK m : m = TextMap(I)
    OBVIOUS
<1>8. m \in [I -> Seq(Words)]
    BY ONLY <1>2, <1>7 DEF TextMap, HasWords
<1>9. FlattenSeq(ss) \in Seq(I)
    BY ONLY <1>6, FlattenType
<1>10. IsTexts(FlattenSeq(ss)) /\ TextOf(FlattenSeq(ss)) = FlatMap(FlattenSeq(ss), m)
    BY ONLY <1>2, <1>7, <1>9, TextsIn
<1>11. \A i \in 1..n : TextOf(ss[i]) = FlatMap(ss[i], m)
    BY ONLY <1>2, <1>5, <1>7, TextsIn
<1>12. [i \in DOMAIN ss |-> TextOf(ss[i])] = EachMapped(ss, m)
    BY ONLY <1>4, <1>11 DEF EachMapped
<1>13. FlatMapsThrough(ss, m, Words)
    BY ONLY <1>6, <1>8, FlatMapFlatten
<1>14. [i \in DOMAIN ss |-> TextOf(ss[i])] \in Seq(Seq(Words))
    BY ONLY <1>12, <1>13 DEF FlatMapsThrough
<1>15. TextOf(FlattenSeq(ss)) = FlattenSeq([i \in DOMAIN ss |-> TextOf(ss[i])])
    BY ONLY <1>10, <1>12, <1>13 DEF FlatMapsThrough
<1> QED BY ONLY <1>10, <1>14, <1>15

\* What chunks made from draft o say
Says(o, c) == IF c.origin = o THEN c.primary ELSE <<>>
OriginText(cs, o) == FlattenSeq([i \in DOMAIN cs |-> Says(o, cs[i])])
IsChunks(cs) == cs \in Seq(Range(cs)) /\ \A i \in DOMAIN cs : cs[i].primary \in Seq(Words)

LEMMA PrimariesAre ==
    ASSUME NEW o
    PROVE  Primaries(o) = OriginText(chunks, o)
BY DEF Primaries, OriginText, Says

OriginMapped(cs, o, m, I) == m \in [I -> Seq(Words)] /\ OriginText(cs, o) = FlatMap(cs, m)

LEMMA OriginIsMapped ==
    ASSUME NEW I, \A c \in I : c.primary \in Seq(Words), NEW cs \in Seq(I), NEW o,
           NEW m, m = [c \in I |-> Says(o, c)]
    PROVE  OriginMapped(cs, o, m, I)
<1>1. DOMAIN cs = 1..Len(cs) /\ \A i \in 1..Len(cs) : cs[i] \in I
    BY LenProperties
<1>2. Mapped(cs, m) = [i \in DOMAIN cs |-> Says(o, cs[i])]
    BY <1>1 DEF Mapped
<1>3. m \in [I -> Seq(Words)]
    BY EmptySeq DEF Says
<1> QED BY <1>2, <1>3 DEF OriginText, FlatMap, OriginMapped

LEMMA OriginTextConcat ==
    ASSUME NEW cs, NEW new, IsChunks(cs), IsChunks(new), NEW o
    PROVE  /\ IsChunks(cs \o new)
           /\ OriginText(cs \o new, o) = OriginText(cs, o) \o OriginText(new, o)
           /\ OriginText(cs, o) \in Seq(Words) /\ OriginText(new, o) \in Seq(Words)
<1>1. PICK I : I = Range(cs) \cup Range(new)
    OBVIOUS
<1>2. \A c \in I : c.primary \in Seq(Words)
    BY <1>1 DEF IsChunks, Range
<1>3. cs \in Seq(I) /\ new \in Seq(I)
    BY <1>1, SeqMonotonic DEF IsChunks
<1>4. PICK both : both = cs \o new
    OBVIOUS
<1>5. both \in Seq(I)
    BY ONLY <1>3, <1>4, ConcatProperties
<1>6. PICK m : m = [c \in I |-> Says(o, c)]
    OBVIOUS
<1>7. /\ m \in [I -> Seq(Words)] /\ OriginText(cs, o) = FlatMap(cs, m)
      /\ OriginText(new, o) = FlatMap(new, m) /\ OriginText(both, o) = FlatMap(both, m)
  <2>1. OriginMapped(cs, o, m, I)
      BY ONLY <1>2, <1>3, <1>6, OriginIsMapped
  <2>2. OriginMapped(new, o, m, I)
      BY ONLY <1>2, <1>3, <1>6, OriginIsMapped
  <2>3. OriginMapped(both, o, m, I)
      BY ONLY <1>2, <1>5, <1>6, OriginIsMapped
  <2> QED BY ONLY <2>1, <2>2, <2>3 DEF OriginMapped
<1>8. FlatMap(both, m) = FlatMap(cs, m) \o FlatMap(new, m)
    BY ONLY <1>3, <1>4, <1>7, FlatMapConcat
<1>9. FlatMap(cs, m) \in Seq(Words) /\ FlatMap(new, m) \in Seq(Words)
    BY ONLY <1>3, <1>7, FlatMapType
<1>10. IsChunks(both)
  <2>1. PICK n : n = Len(both)
      OBVIOUS
  <2>2. n \in Nat /\ DOMAIN both = 1..n /\ both = [i \in 1..n |-> both[i]] /\ \A i \in 1..n : both[i] \in I
      BY <1>5, <2>1, LenProperties
  <2>3. both \in Seq(Range(both))
    <3>1. \A i \in 1..n : both[i] \in Range(both)
        BY ONLY <2>2 DEF Range
    <3> QED BY ONLY <2>2, <3>1, SequenceOf
  <2> QED BY ONLY <1>2, <2>2, <2>3 DEF IsChunks
<1> QED BY ONLY <1>4, <1>7, <1>8, <1>9, <1>10

-----------------------------------------------------------------------------
(* Tables                                                                  *)

\* Joining lists of lists, inside first or outside first
EachFlat(ss) == [i \in DOMAIN ss |-> FlattenSeq(ss[i])]

FlattensTwice(ss, W) ==
    /\ EachFlat(ss) \in Seq(Seq(W)) /\ FlattenSeq(ss) \in Seq(Seq(W))
    /\ FlattenSeq(FlattenSeq(ss)) = FlattenSeq(EachFlat(ss))

LEMMA FlattenFlatten ==
    ASSUME NEW W, NEW ss \in Seq(Seq(Seq(W)))
    PROVE  FlattensTwice(ss, W)
<1>1. PICK I, m : I = Seq(W) /\ m = [x \in I |-> x]
    OBVIOUS
<1>2. ss \in Seq(Seq(I)) /\ m \in [I -> Seq(W)]
    BY <1>1
<1>3. FlatMapsThrough(ss, m, W)
    BY ONLY <1>2, FlatMapFlatten
<1>4. ASSUME NEW s \in Seq(I)
      PROVE  FlatMap(s, m) = FlattenSeq(s)
  <2>1. DOMAIN s = 1..Len(s) /\ s = [i \in 1..Len(s) |-> s[i]] /\ \A i \in 1..Len(s) : s[i] \in I
      BY LenProperties
  <2>2. Mapped(s, m) = s
      BY ONLY <1>1, <2>1 DEF Mapped
  <2> QED BY ONLY <2>2 DEF FlatMap
<1>5. FlattenSeq(ss) \in Seq(I)
    BY ONLY <1>2, FlattenType
<1>6. \A i \in DOMAIN ss : ss[i] \in Seq(I)
    BY ONLY <1>2, LenProperties, ElementOfSeq
<1>7. EachMapped(ss, m) = EachFlat(ss)
    BY ONLY <1>4, <1>6 DEF EachMapped, EachFlat
<1>8. FlatMap(FlattenSeq(ss), m) = FlattenSeq(FlattenSeq(ss))
    BY ONLY <1>4, <1>5
<1> QED BY ONLY <1>1, <1>3, <1>5, <1>7, <1>8 DEF FlatMapsThrough, FlattensTwice

TableRead == table.header \in Nat /\ table.rows \in Seq(Nat)
Rows == DOMAIN table.rows
RowMap == [r \in Rows |-> RowWords(r)]

LEMMA RowsAre ==
    ASSUME TableRead
    PROVE  /\ RowMap \in [Rows -> Seq(Words)] /\ AllRows \in Seq(Rows)
           /\ \A rs \in Seq(Rows) : RowsText(rs) = FlatMap(rs, RowMap) /\ RowsText(rs) \in Seq(Words)
<1>1. PICK n : n = Len(table.rows)
    OBVIOUS
<1>2. n \in Nat /\ Rows = 1..n /\ \A r \in 1..n : table.rows[r] \in Nat
    BY <1>1, LenProperties, ElementOfSeq DEF TableRead, Rows
<1>3. ASSUME NEW r \in Rows
      PROVE  RowWords(r) \in Seq(Words)
  <2>1. PICK x, k : x = RowWords(r) /\ k = table.rows[r]
      OBVIOUS
  <2>2. k \in Nat /\ r \in Nat
      BY ONLY <1>2, <1>3, <2>1
  <2>3. x = [w \in 1..k |-> <<r, w>>]
      BY ONLY <2>1 DEF RowWords
  <2>4. x \in [1..k -> Words]
      BY ONLY <2>2, <2>3 DEF Words
  <2> QED BY ONLY <2>1, <2>2, <2>4, FunctionIsSeq
<1>4. RowMap \in [Rows -> Seq(Words)]
    BY ONLY <1>3 DEF RowMap
<1>5. AllRows \in Seq(Rows)
  <2>1. PICK x : x = AllRows
      OBVIOUS
  <2>2. x \in [1..n -> Rows]
      BY ONLY <1>2, <2>1 DEF AllRows, Rows
  <2> QED BY ONLY <1>2, <2>1, <2>2, FunctionIsSeq
<1>6. ASSUME NEW rs \in Seq(Rows)
      PROVE  RowsText(rs) = FlatMap(rs, RowMap) /\ RowsText(rs) \in Seq(Words)
  <2>1. \A i \in DOMAIN rs : rs[i] \in Rows
      BY ONLY <1>6, LenProperties, ElementOfSeq
  <2>2. Mapped(rs, RowMap) = [i \in DOMAIN rs |-> RowWords(rs[i])]
      BY ONLY <2>1 DEF Mapped, RowMap
  <2>3. RowsText(rs) = FlatMap(rs, RowMap)
      BY ONLY <2>2 DEF RowsText, FlatMap
  <2>4. PICK m : m = RowMap
      OBVIOUS
  <2>5. m \in [Rows -> Seq(Words)]
      BY ONLY <1>4, <2>4
  <2>6. FlatMap(rs, m) \in Seq(Words)
      BY ONLY <1>6, <2>5, FlatMapType
  <2> QED BY ONLY <2>3, <2>4, <2>6
<1> QED BY ONLY <1>4, <1>5, <1>6

\* The segments of the table are its rows, one after the other.
LEMMA RowsGathered ==
    ASSUME TableRead
    PROVE  FlattenSeq(GatherRows) = RowsText(AllRows)
<1> DEFINE joins == [b, n \in DOMAIN AllRows |-> InTarget(RowsText(SubSeq(AllRows, b, n)))]
<1> DEFINE gathered == Greedy(AllRows, joins)
<1> DEFINE text(g) == RowsText(gathered[g])
<1> DEFINE parts == [g \in DOMAIN gathered |-> IF InTarget(text(g)) THEN <<text(g)>> ELSE SplitRow(text(g))]
<1>2. GatherRows = FlattenSeq(parts)
    BY ONLY DEF GatherRows
<1> HIDE DEF joins
<1>3. AllRows \in Seq(Rows)
    BY RowsAre
<1>4. MakeUp(gathered, AllRows, Rows)
    BY ONLY <1>3, GreedyJoins
<1> HIDE DEF gathered
<1>5. PICK n : n = Len(gathered)
    OBVIOUS
<1>6. n \in Nat /\ DOMAIN gathered = 1..n /\ \A g \in 1..n : gathered[g] \in Seq(Rows)
  <2>1. gathered \in Seq(Seq(Rows))
      BY ONLY <1>4 DEF MakeUp
  <2> QED BY ONLY <1>5, <2>1, LenProperties, ElementOfSeq
<1>7. ASSUME NEW g \in 1..n
      PROVE  /\ text(g) \in Seq(Words) /\ text(g) = FlatMap(gathered[g], RowMap)
             /\ parts[g] \in Seq(Seq(Words)) /\ FlattenSeq(parts[g]) = text(g)
  <2>1. text(g) \in Seq(Words) /\ text(g) = FlatMap(gathered[g], RowMap)
      BY <1>6, RowsAre
  <2>2. PICK t : t = text(g)
      OBVIOUS
  <2>3. parts[g] = IF InTarget(t) THEN <<t>> ELSE SplitRow(t)
      BY ONLY <1>6, <1>7, <2>2
  <2>4. CASE InTarget(t)
    <3>1. PICK T, x : T = Seq(Words) /\ x = <<t>>
        OBVIOUS
    <3>2. t \in T
        BY ONLY <2>1, <2>2, <3>1
    <3>3. x \in Seq(T)
        BY ONLY <3>1, <3>2
    <3>4. FlattenSeq(x) = t
        BY ONLY <3>1, <3>2, FlattenOne
    <3> QED BY ONLY <2>1, <2>2, <2>3, <2>4, <3>1, <3>3, <3>4
  <2>5. CASE ~InTarget(t)
    <3>1. t \in Seq(Words)
        BY ONLY <2>1, <2>2
    <3>2. MakeUp(SplitRow(t), t, Words)
        BY ONLY <3>1, GreedyJoins DEF SplitRow
    <3> QED BY ONLY <2>1, <2>2, <2>3, <2>5, <3>2 DEF MakeUp
  <2> QED BY <2>4, <2>5
<1>8. PICK pp : pp = parts
    OBVIOUS
<1>9. pp \in Seq(Seq(Seq(Words))) /\ Len(pp) = n /\ DOMAIN pp = 1..n
  <2>1. DOMAIN pp = 1..n /\ pp = [g \in 1..n |-> pp[g]]
      BY ONLY <1>6, <1>8
  <2>2. PICK T : T = Seq(Seq(Words))
      OBVIOUS
  <2>3. \A g \in 1..n : pp[g] \in T
      BY ONLY <1>7, <1>8, <2>2
  <2> QED BY ONLY <1>6, <2>1, <2>2, <2>3, SequenceOf
<1>10. FlattensTwice(pp, Words)
    BY ONLY <1>9, FlattenFlatten
<1>11. PICK m : m = RowMap
    OBVIOUS
<1>12. EachFlat(pp) = EachMapped(gathered, m)
    BY ONLY <1>6, <1>7, <1>8, <1>9, <1>11 DEF EachFlat, EachMapped
<1>13. FlatMapsThrough(gathered, m, Words)
  <2>1. m \in [Rows -> Seq(Words)]
      BY <1>11, RowsAre
  <2>2. gathered \in Seq(Seq(Rows))
      BY ONLY <1>4 DEF MakeUp
  <2> QED BY ONLY <2>1, <2>2, FlatMapFlatten
<1>14. FlattenSeq(gathered) = AllRows
    BY ONLY <1>4 DEF MakeUp
<1>15. RowsText(AllRows) = FlatMap(AllRows, m)
    BY <1>3, <1>11, RowsAre
<1> QED BY ONLY <1>2, <1>8, <1>10, <1>12, <1>13, <1>14, <1>15 DEF FlattensTwice, FlatMapsThrough

LEMMA TableSaid ==
    ASSUME TableRead
    PROVE  FlattenSeq(TableSegments) = RowsText(AllRows)
<1>1. PICK all : all = RowsText(AllRows)
    OBVIOUS
<1>2. all \in Seq(Words) /\ all = FlatMap(AllRows, RowMap)
    BY <1>1, RowsAre
<1>3. FlattenSeq(<<all>>) = all
    BY ONLY <1>2, FlattenOne
<1>4. table.rows = <<>> => FlattenSeq(<<<<>>>>) = all
  <2>1. HAVE table.rows = <<>>
  <2>2. AllRows = <<>>
      BY ONLY <2>1 DEF AllRows
  <2>3. all = <<>>
      BY ONLY <1>2, <2>2, FlatMapEmpty
  <2> QED BY ONLY <1>3, <2>3
<1>5. FlattenSeq([r \in DOMAIN table.rows |-> RowWords(r)]) = all
  <2>1. [r \in DOMAIN table.rows |-> RowWords(r)] = [i \in DOMAIN AllRows |-> RowWords(AllRows[i])]
      BY ONLY DEF AllRows
  <2> QED BY ONLY <1>1, <2>1 DEF RowsText
<1>6. FlattenSeq(GatherRows) = all
    BY <1>1, RowsGathered
<1> QED BY ONLY <1>1, <1>3, <1>4, <1>5, <1>6 DEF TableSegments

-----------------------------------------------------------------------------
(* What the items of a draft say                                           *)

\* A list of lists of words, as a list of items
LEMMA TextsOf ==
    ASSUME NEW items, NEW n \in Nat, DOMAIN items = 1..n, items = [i \in 1..n |-> items[i]],
           \A i \in 1..n : HasWords(items[i])
    PROVE  IsTexts(items)
<1>1. \A i \in 1..n : items[i] \in Range(items)
    BY DEF Range
<1>2. items \in Seq(Range(items))
    BY ONLY <1>1, n \in Nat, DOMAIN items = 1..n, items = [i \in 1..n |-> items[i]], SequenceOf
<1> QED BY <1>2 DEF IsTexts

\* The items say these words.
SaysIn(items, words) == IsTexts(items) /\ TextOf(items) = words

LEMMA ItemHas ==
    ASSUME NEW u, NEW words \in Seq(Words), NEW label, NEW prefix, NEW parent, NEW sub
    PROVE  HasWords(Item(u, words, label, prefix, parent, sub))
           /\ Item(u, words, label, prefix, parent, sub).words = words
BY DEF Item, HasWords

LEMMA PointSaid ==
    ASSUME UnitsRead, NEW u \in DOMAIN units
    PROVE  SaysIn(PointItems(u), WordsOf(u))
<1>1. PICK x, places, p : x = WordsOf(u) /\ places = Marks(u) /\ p = Pieces(x, places)
    OBVIOUS
<1>2. x \in Seq(Words)
    BY <1>1, WordsAre
<1>3. MakeUp(p, x, Words)
    BY ONLY <1>1, <1>2, PiecesJoin
<1>4. PICK n : n = Len(p)
    OBVIOUS
<1>5. n \in Nat /\ DOMAIN p = 1..n /\ p = [i \in 1..n |-> p[i]] /\ \A i \in 1..n : p[i] \in Seq(Words)
  <2>1. p \in Seq(Seq(Words))
      BY ONLY <1>3 DEF MakeUp
  <2> QED BY ONLY <1>4, <2>1, LenProperties, ElementOfSeq
<1>6. PICK items : items = PointItems(u)
    OBVIOUS
<1>7. DOMAIN items = 1..n /\ items = [i \in 1..n |-> items[i]]
    BY ONLY <1>1, <1>5, <1>6 DEF PointItems
<1>8. ASSUME NEW i \in 1..n
      PROVE  HasWords(items[i]) /\ items[i].words = p[i]
  <2>1. PICK label, prefix, parent, sub : items[i] = Item(u, p[i], label, prefix, parent, sub)
    <3>1. CASE p[i][1][2] \in places
        BY ONLY <1>1, <1>5, <1>6, <1>8, <3>1 DEF PointItems
    <3>2. CASE ~(p[i][1][2] \in places)
        BY ONLY <1>1, <1>5, <1>6, <1>8, <3>2 DEF PointItems
    <3> QED BY <3>1, <3>2
  <2>2. p[i] \in Seq(Words)
      BY ONLY <1>5, <1>8
  <2> QED BY ONLY <2>1, <2>2, ItemHas
<1>9. IsTexts(items)
    BY ONLY <1>5, <1>7, <1>8, TextsOf
<1>10. [i \in DOMAIN items |-> items[i].words] = p
    BY ONLY <1>5, <1>7, <1>8
<1> QED BY ONLY <1>1, <1>3, <1>6, <1>9, <1>10 DEF SaysIn, TextOf, MakeUp

LEMMA OneSaid ==
    ASSUME NEW item, HasWords(item)
    PROVE  SaysIn(<<item>>, item.words)
<1>1. PICK items : items = <<item>>
    OBVIOUS
<1>2. DOMAIN items = 1..1 /\ items = [i \in 1..1 |-> items[i]] /\ items[1] = item
    BY <1>1
<1>3. 1 \in Nat /\ \A i \in 1..1 : HasWords(items[i])
    BY <1>2
<1>4. IsTexts(items)
    BY ONLY <1>2, <1>3, TextsOf
<1>5. [i \in DOMAIN items |-> items[i].words] = <<item.words>>
    BY ONLY <1>2
<1>6. FlattenSeq(<<item.words>>) = item.words
    BY FlattenOne DEF HasWords
<1> QED BY ONLY <1>1, <1>4, <1>5, <1>6 DEF SaysIn, TextOf

LEMMA NothingSaid == SaysIn(<<>>, <<>>)
<1>1. <<>> \in Seq(Range(<<>>)) /\ DOMAIN <<>> = {}
    BY EmptySeq
<1>2. [i \in DOMAIN <<>> |-> <<>>[i].words] = <<>>
    BY ONLY <1>1
<1> QED BY ONLY <1>1, <1>2, FlattenEmpty DEF SaysIn, IsTexts, TextOf

LEMMA LineSaid ==
    ASSUME UnitsRead, NEW u \in DOMAIN units
    PROVE  SaysIn(<<LineItem(u)>>, WordsOf(u))
<1>1. PICK item : item = LineItem(u)
    OBVIOUS
<1>2. PICK label, prefix, parent, sub : item = Item(u, WordsOf(u), label, prefix, parent, sub)
    BY ONLY <1>1 DEF LineItem
<1>3. PICK x : x = WordsOf(u)
    OBVIOUS
<1>4. x \in Seq(Words)
    BY <1>3, WordsAre
<1>5. HasWords(item) /\ item.words = x
    BY ONLY <1>2, <1>3, <1>4, ItemHas
<1>6. SaysIn(<<item>>, item.words)
    BY ONLY <1>5, OneSaid
<1> QED BY ONLY <1>1, <1>3, <1>5, <1>6

\* What each list says, the whole says.
SaidBy(ss, ws) ==
    /\ Len(ss) = Len(ws) /\ ws \in Seq(Seq(Words))
    /\ \A i \in 1..Len(ss) : SaysIn(ss[i], ws[i])

LEMMA AllSaid ==
    ASSUME NEW ss, ss \in Seq(Range(ss)), NEW ws, SaidBy(ss, ws)
    PROVE  SaysIn(FlattenSeq(ss), FlattenSeq(ws))
<1>1. PICK n : n = Len(ss)
    OBVIOUS
<1>2. n \in Nat /\ DOMAIN ss = 1..n /\ DOMAIN ws = 1..n /\ ws = [i \in 1..n |-> ws[i]]
    BY <1>1, LenProperties DEF SaidBy
<1>3. \A i \in 1..n : IsTexts(ss[i]) /\ TextOf(ss[i]) = ws[i]
    BY ONLY <1>1, SaidBy(ss, ws) DEF SaidBy, SaysIn
<1>4. \A i \in DOMAIN ss : IsTexts(ss[i])
    BY ONLY <1>2, <1>3
<1>5. [i \in DOMAIN ss |-> TextOf(ss[i])] = ws
    BY ONLY <1>2, <1>3
<1>6. IsTexts(FlattenSeq(ss)) /\ TextOf(FlattenSeq(ss)) = FlattenSeq([i \in DOMAIN ss |-> TextOf(ss[i])])
    BY ONLY <1>4, ss \in Seq(Range(ss)), TextOfFlatten
<1> QED BY ONLY <1>5, <1>6 DEF SaysIn

LEMMA RangeSeq ==
    ASSUME NEW n \in Nat, NEW s, DOMAIN s = 1..n, s = [i \in 1..n |-> s[i]]
    PROVE  s \in Seq(Range(s)) /\ Len(s) = n
<1>1. \A i \in 1..n : s[i] \in Range(s)
    BY DEF Range
<1> QED BY ONLY <1>1, n \in Nat, DOMAIN s = 1..n, s = [i \in 1..n |-> s[i]], SequenceOf

\* The clause of a group of points is left out of its segments.
Skipped(d) == IF d.kind = "points" THEN {u \in DOMAIN units : units[u].type = "clause"} ELSE {}

LEMMA ItemsSay ==
    ASSUME UnitsRead, NEW d, NEW us \in Seq(DOMAIN units), us = d.lead \o d.units
    PROVE  SaysIn(Items(d), TextWithout(us, Skipped(d)))
<1> DEFINE itemsFor == [i \in DOMAIN us |->
            CASE units[us[i]].type = "point" -> PointItems(us[i])
              [] d.kind = "points" /\ units[us[i]].type = "clause" -> <<>>
              [] OTHER -> <<LineItem(us[i])>>]
<1>1. Items(d) = FlattenSeq(itemsFor)
    BY ONLY us = d.lead \o d.units DEF Items
<1>2. PICK n, ss, ws, out : n = Len(us) /\ ss = itemsFor /\ out = Skipped(d) /\ ws = ShownWords(us, out)
    OBVIOUS
<1>3. n \in Nat /\ DOMAIN us = 1..n /\ \A i \in 1..n : us[i] \in DOMAIN units
    BY ONLY us \in Seq(DOMAIN units), <1>2, LenProperties, ElementOfSeq
<1>4. DOMAIN ss = 1..n /\ ss = [i \in 1..n |-> ss[i]]
    BY ONLY <1>2, <1>3
<1>5. ss \in Seq(Range(ss)) /\ Len(ss) = n
    BY ONLY <1>3, <1>4, RangeSeq
<1>6. ws \in Seq(Seq(Words)) /\ Len(ws) = n
    BY <1>2, ShownWordsType
<1>7. ASSUME NEW i \in 1..n
      PROVE  SaysIn(ss[i], ws[i])
  <2>1. PICK u \in DOMAIN units : u = us[i]
      BY ONLY <1>3, <1>7
  <2>2. SaysIn(PointItems(u), WordsOf(u)) /\ SaysIn(<<LineItem(u)>>, WordsOf(u)) /\ SaysIn(<<>>, <<>>)
      BY PointSaid, LineSaid, NothingSaid
  <2>3. ws[i] = IF u \in out THEN <<>> ELSE WordsOf(u)
      BY ONLY <1>2, <1>3, <1>7, <2>1 DEF ShownWords
  <2>4. CASE units[u].type = "point"
    <3>1. ss[i] = PointItems(u)
        BY ONLY <1>2, <1>3, <1>7, <2>1, <2>4
    <3>2. u \notin out
        BY ONLY <1>2, <2>4 DEF Skipped
    <3> QED BY ONLY <2>2, <2>3, <3>1, <3>2
  <2>5. CASE units[u].type # "point" /\ d.kind = "points" /\ units[u].type = "clause"
    <3>1. ss[i] = <<>>
        BY ONLY <1>2, <1>3, <1>7, <2>1, <2>5
    <3>2. u \in out
        BY ONLY <1>2, <2>1, <2>5 DEF Skipped
    <3> QED BY ONLY <2>2, <2>3, <3>1, <3>2
  <2>6. CASE units[u].type # "point" /\ ~(d.kind = "points" /\ units[u].type = "clause")
    <3>1. ss[i] = <<LineItem(u)>>
        BY ONLY <1>2, <1>3, <1>7, <2>1, <2>6
    <3>2. u \notin out
        BY ONLY <1>2, <2>6 DEF Skipped
    <3> QED BY ONLY <2>2, <2>3, <3>1, <3>2
  <2> QED BY <2>4, <2>5, <2>6
<1>8. SaidBy(ss, ws)
    BY ONLY <1>5, <1>6, <1>7 DEF SaidBy
<1>9. SaysIn(FlattenSeq(ss), FlattenSeq(ws))
    BY ONLY <1>5, <1>8, AllSaid
<1> QED BY ONLY <1>1, <1>2, <1>9 DEF TextWithout

LEMMA SplitSays ==
    ASSUME NEW d, NEW item, HasWords(item)
    PROVE  SaysIn(SplitItem(d, item), item.words)
<1>1. CASE ItemsFit(d, <<item>>)
    BY <1>1, OneSaid DEF SplitItem
<1>2. CASE ~ItemsFit(d, <<item>>)
  <2> DEFINE again == IF item.type = "point" /\ item.sub = Blank THEN ContextPrefix(item.words) ELSE <<>>
             frame == [contexts |-> ContextsOf(d, <<item>>) \o (IF again # <<>> THEN <<again>> ELSE <<>>),
                       clause |-> d.clause, labels |-> LabelsOf(<<item>>)]
             whole == SplitText(item.words, frame)
  <2>1. SplitItem(d, item) = [p \in DOMAIN whole |->
                [item EXCEPT !.words = whole[p],
                             !.prefix = IF @ # <<>> \/ p = 1 THEN @ ELSE again]]
      BY ONLY <1>2 DEF SplitItem
  <2>2. PICK x : x = item.words
      OBVIOUS
  <2>3. x \in Seq(Words)
      BY <2>2 DEF HasWords
  <2> HIDE DEF frame
  <2>4. MakeUp(whole, x, Words)
      BY ONLY <2>2, <2>3, GreedyJoins DEF SplitText
  <2> HIDE DEF again, whole
  <2>5. PICK parts, n : parts = whole /\ n = Len(parts)
      OBVIOUS
  <2>6. n \in Nat /\ DOMAIN parts = 1..n /\ parts = [i \in 1..n |-> parts[i]]
        /\ \A i \in 1..n : parts[i] \in Seq(Words)
    <3>1. parts \in Seq(Seq(Words))
        BY ONLY <2>4, <2>5 DEF MakeUp
    <3> QED BY ONLY <2>5, <3>1, LenProperties, ElementOfSeq
  <2>7. PICK items : items = SplitItem(d, item)
      OBVIOUS
  <2>8. DOMAIN items = 1..n /\ items = [i \in 1..n |-> items[i]]
      BY ONLY <2>1, <2>5, <2>6, <2>7
  <2>9. ASSUME NEW i \in 1..n
        PROVE  HasWords(items[i]) /\ items[i].words = parts[i]
    <3>1. items[i] = [item EXCEPT !.words = parts[i],
                             !.prefix = IF @ # <<>> \/ i = 1 THEN @ ELSE again]
        BY ONLY <2>1, <2>5, <2>6, <2>7, <2>9
    <3>2. "words" \in DOMAIN item
        BY DEF HasWords
    <3>3. "words" \in DOMAIN items[i] /\ items[i].words = parts[i]
        BY ONLY <3>1, <3>2
    <3> QED BY ONLY <2>6, <2>9, <3>3 DEF HasWords
  <2>10. IsTexts(items)
      BY ONLY <2>6, <2>8, <2>9, TextsOf
  <2>11. [i \in DOMAIN items |-> items[i].words] = parts
      BY ONLY <2>6, <2>8, <2>9
  <2> QED BY ONLY <2>2, <2>4, <2>5, <2>7, <2>10, <2>11 DEF SaysIn, TextOf, MakeUp
<1> QED BY <1>1, <1>2

-----------------------------------------------------------------------------
(* What the segments of a draft say                                        *)

\* Chunks that say a text of draft o and nothing of the others
SaidFrom(new, o, text) ==
    /\ IsChunks(new) /\ OriginText(new, o) = text
    /\ \A q : q # o => OriginText(new, q) = <<>>

LEMMA ChunksSay ==
    ASSUME NEW new, NEW n \in Nat, DOMAIN new = 1..n, new = [i \in 1..n |-> new[i]],
           NEW o, NEW texts \in Seq(Seq(Words)), Len(texts) = n,
           \A i \in 1..n : new[i].origin = o /\ new[i].primary = texts[i]
    PROVE  SaidFrom(new, o, FlattenSeq(texts))
<1>1. DOMAIN texts = 1..n /\ texts = [i \in 1..n |-> texts[i]] /\ \A i \in 1..n : texts[i] \in Seq(Words)
    BY LenProperties, ElementOfSeq
<1>2. new \in Seq(Range(new))
    BY ONLY n \in Nat, DOMAIN new = 1..n, new = [i \in 1..n |-> new[i]], RangeSeq
<1>3. IsChunks(new)
    BY <1>1, <1>2 DEF IsChunks
<1>4. [i \in DOMAIN new |-> Says(o, new[i])] = texts
    BY <1>1 DEF Says
<1>5. ASSUME NEW q, q # o
      PROVE  OriginText(new, q) = <<>>
  <2>1. PICK s : s = [i \in DOMAIN new |-> Says(q, new[i])]
      OBVIOUS
  <2>2. DOMAIN s = 1..n /\ s = [i \in 1..n |-> s[i]] /\ \A i \in 1..n : s[i] = <<>>
      BY <1>5, <2>1 DEF Says
  <2>3. PICK T : T = Seq(Words)
      OBVIOUS
  <2>4. \A i \in 1..n : s[i] \in T
      BY <2>2, <2>3, EmptySeq
  <2>5. s \in Seq(T)
      BY ONLY n \in Nat, <2>2, <2>4, SequenceOf
  <2>6. FlattenSeq(s) = <<>>
      BY ONLY <2>2, <2>3, <2>5, FlattenBlank
  <2> QED BY ONLY <2>1, <2>6 DEF OriginText
<1> QED BY ONLY <1>3, <1>4, <1>5 DEF SaidFrom, OriginText

LEMMA WholeSays ==
    ASSUME UnitsRead, NEW d, NEW us \in Seq(DOMAIN units), us = d.lead \o d.units, NEW o
    PROVE  SaidFrom(<<Whole(d, o)>>, o, TextWithout(us, {}))
<1>1. PICK new, text, texts : new = <<Whole(d, o)>> /\ text = Body(us) /\ texts = <<text>>
    OBVIOUS
<1>2. text = TextWithout(us, {})
    BY ONLY <1>1, BodyIs
<1>3. text \in Seq(Words)
  <2>1. ShownWords(us, {}) \in Seq(Seq(Words))
      BY ShownWordsType
  <2> QED BY ONLY <1>2, <2>1, FlattenType DEF TextWithout
<1>4. new[1].origin = o /\ new[1].primary = text
    BY ONLY <1>1, us = d.lead \o d.units DEF Whole, Chunk
<1>5. DOMAIN new = 1..1 /\ new = [i \in 1..1 |-> new[i]] /\ 1 \in Nat
    BY ONLY <1>1
<1>6. texts \in Seq(Seq(Words)) /\ Len(texts) = 1 /\ texts[1] = text
  <2>1. PICK T : T = Seq(Words)
      OBVIOUS
  <2> QED BY ONLY <1>1, <1>3, <2>1
<1>7. \A i \in 1..1 : new[i].origin = o /\ new[i].primary = texts[i]
    BY ONLY <1>4, <1>6
<1>8. SaidFrom(new, o, FlattenSeq(texts))
    BY ONLY <1>5, <1>6, <1>7, ChunksSay
<1>9. FlattenSeq(texts) = text
    BY ONLY <1>1, <1>3, FlattenOne
<1> QED BY ONLY <1>1, <1>2, <1>8, <1>9

LEMMA SegmentsSay ==
    ASSUME UnitsRead, NEW d, NEW us \in Seq(DOMAIN units), us = d.lead \o d.units, NEW o
    PROVE  SaidFrom(SegmentsOf(d, o), o, TextWithout(us, Skipped(d)))
<1>1. PICK items, text : items = Items(d) /\ text = TextWithout(us, Skipped(d))
    OBVIOUS
<1>2. SaysIn(items, text)
    BY <1>1, ItemsSay
<1>3. PICK n : n = Len(items)
    OBVIOUS
<1>4. n \in Nat /\ DOMAIN items = 1..n /\ \A i \in 1..n : HasWords(items[i])
  <2>1. items \in Seq(Range(items))
      BY <1>2 DEF SaysIn, IsTexts
  <2> QED BY <1>2, <1>3, <2>1, LenProperties DEF SaysIn, IsTexts
<1>5. PICK ss, ws : ss = [i \in DOMAIN items |-> SplitItem(d, items[i])]
                    /\ ws = [i \in DOMAIN items |-> items[i].words]
    OBVIOUS
<1>6. ss \in Seq(Range(ss)) /\ Len(ss) = n
  <2>1. DOMAIN ss = 1..n /\ ss = [i \in 1..n |-> ss[i]]
      BY ONLY <1>4, <1>5
  <2> QED BY ONLY <1>4, <2>1, RangeSeq
<1>7. ws \in Seq(Seq(Words)) /\ Len(ws) = n
  <2>1. PICK T : T = Seq(Words)
      OBVIOUS
  <2>2. DOMAIN ws = 1..n /\ ws = [i \in 1..n |-> ws[i]] /\ \A i \in 1..n : ws[i] \in T
      BY ONLY <1>4, <1>5, <2>1 DEF HasWords
  <2> QED BY ONLY <1>4, <2>1, <2>2, SequenceOf
<1>8. SaidBy(ss, ws)
  <2>1. \A i \in 1..n : SaysIn(ss[i], ws[i])
      BY ONLY <1>4, <1>5, SplitSays
  <2> QED BY ONLY <1>6, <1>7, <2>1 DEF SaidBy
<1>9. PICK split : split = FlattenSeq(ss)
    OBVIOUS
<1>10. SaysIn(split, text)
  <2>1. SaysIn(FlattenSeq(ss), FlattenSeq(ws))
      BY ONLY <1>6, <1>8, AllSaid
  <2>2. FlattenSeq(ws) = text
      BY ONLY <1>2, <1>5 DEF SaysIn, TextOf
  <2> QED BY ONLY <1>9, <2>1, <2>2
<1>11. split \in Seq(Range(split)) /\ \A i \in DOMAIN split : HasWords(split[i])
    BY ONLY <1>10 DEF SaysIn, IsTexts
<1>12. PICK I : I = Range(split)
    OBVIOUS
<1>13. PICK packed, k : packed = Pack(d, split) /\ k = Len(packed)
    OBVIOUS
<1>14. MakeUp(packed, split, I)
  <2>1. split \in Seq(I)
      BY ONLY <1>11, <1>12
  <2> QED BY ONLY <1>13, <2>1, GreedyJoins DEF Pack
<1>15. /\ k \in Nat /\ DOMAIN packed = 1..k /\ packed = [i \in 1..k |-> packed[i]]
       /\ \A i \in 1..k : packed[i] \in Seq(I)
  <2>1. packed \in Seq(Seq(I))
      BY ONLY <1>14 DEF MakeUp
  <2> QED BY ONLY <1>13, <2>1, LenProperties, ElementOfSeq
<1>16. \A i \in 1..k : IsTexts(packed[i])
  <2>1. \A x \in I : HasWords(x)
      BY ONLY <1>11, <1>12 DEF Range
  <2> QED BY ONLY <1>15, <2>1, TextsIn
<1>17. packed \in Seq(Range(packed))
    BY ONLY <1>15, RangeSeq
<1>18. PICK texts : texts = [i \in DOMAIN packed |-> TextOf(packed[i])]
    OBVIOUS
<1>19. texts \in Seq(Seq(Words)) /\ FlattenSeq(texts) = text
  <2>1. \A i \in DOMAIN packed : IsTexts(packed[i])
      BY ONLY <1>15, <1>16
  <2>2. /\ [i \in DOMAIN packed |-> TextOf(packed[i])] \in Seq(Seq(Words))
        /\ TextOf(FlattenSeq(packed)) = FlattenSeq([i \in DOMAIN packed |-> TextOf(packed[i])])
      BY ONLY <1>17, <2>1, TextOfFlatten
  <2> QED BY ONLY <1>10, <1>14, <1>18, <2>2 DEF MakeUp, SaysIn
<1>20. Len(texts) = k
  <2>1. DOMAIN texts = 1..k /\ texts = [i \in 1..k |-> texts[i]]
      BY ONLY <1>15, <1>18
  <2> QED BY ONLY <1>15, <2>1, RangeSeq
<1>21. PICK new : new = SegmentsOf(d, o)
    OBVIOUS
<1>22. new = [i \in DOMAIN packed |-> Segment(d, packed[i], i, o)]
    BY ONLY <1>1, <1>5, <1>9, <1>13, <1>21 DEF SegmentsOf
<1>23. DOMAIN new = 1..k /\ new = [i \in 1..k |-> new[i]]
    BY ONLY <1>15, <1>22
<1>24. \A i \in 1..k : new[i].origin = o /\ new[i].primary = texts[i]
  <2>1. ASSUME NEW i \in 1..k
        PROVE  new[i].origin = o /\ new[i].primary = texts[i]
    <3>1. new[i] = Segment(d, packed[i], i, o) /\ texts[i] = TextOf(packed[i])
        BY ONLY <1>15, <1>18, <1>22, <2>1
    <3>2. Segment(d, packed[i], i, o).origin = o /\ Segment(d, packed[i], i, o).primary = TextOf(packed[i])
        BY ONLY DEF Segment, Chunk
    <3> QED BY ONLY <3>1, <3>2
  <2> QED BY <2>1
<1>25. SaidFrom(new, o, FlattenSeq(texts))
    BY ONLY <1>15, <1>19, <1>20, <1>23, <1>24, ChunksSay
<1> QED BY ONLY <1>1, <1>19, <1>21, <1>25

\* What the chunks of a draft will say
DraftUnits(d) == d.lead \o d.units
DraftText(d) == TextWithout(DraftUnits(d), IF d.over THEN Skipped(d) ELSE {})
NewChunks(d, o) == IF d.over THEN SegmentsOf(d, o) ELSE <<Whole(d, o)>>

LEMMA DraftSays ==
    ASSUME UnitsRead, NEW d, DraftUnits(d) \in Seq(DOMAIN units), NEW o
    PROVE  SaidFrom(NewChunks(d, o), o, DraftText(d))
<1>1. PICK us : us = DraftUnits(d)
    OBVIOUS
<1>2. us \in Seq(DOMAIN units) /\ us = d.lead \o d.units
    BY ONLY <1>1, DraftUnits(d) \in Seq(DOMAIN units) DEF DraftUnits
<1>3. SaidFrom(<<Whole(d, o)>>, o, TextWithout(us, {}))
    BY ONLY UnitsRead, <1>2, WholeSays
<1>4. SaidFrom(SegmentsOf(d, o), o, TextWithout(us, Skipped(d)))
    BY ONLY UnitsRead, <1>2, SegmentsSay
<1> QED BY ONLY <1>1, <1>3, <1>4 DEF NewChunks, DraftText

-----------------------------------------------------------------------------
(* Drafts and their units                                                  *)

\* Units, each named once
IdsIn(us, D) == us \in Seq(D) /\ Injective(us)
IsIds(us) == IdsIn(us, DOMAIN units)

CoveredBy(ds) == UNION {Range(DraftUnits(ds[i])) : i \in DOMAIN ds}
DraftsIn(ds, D) == ds \in Seq(Range(ds)) /\ \A i \in DOMAIN ds : IdsIn(DraftUnits(ds[i]), D)
IsDrafts(ds) == DraftsIn(ds, DOMAIN units)

\* Drafts that hold all of these units
Drafted(new, us, D) == DraftsIn(new, D) /\ Range(us) \subseteq CoveredBy(new)

DraftOf(kind, g, us, lead) == Draft(kind, g.clause, g.occurrence, us, lead)

LEMMA EmptyIds ==
    ASSUME NEW D
    PROVE  IdsIn(<<>>, D) /\ Range(<<>>) = {}
BY EmptySeq DEF IdsIn, Injective, Range

LEMMA RangeOfConcat ==
    ASSUME NEW W, NEW s \in Seq(W), NEW t \in Seq(W)
    PROVE  Range(s \o t) = Range(s) \cup Range(t)
<1>1. PICK z, a, b : z = s \o t /\ a = Len(s) /\ b = Len(t)
    OBVIOUS
<1>2. IsJoined(z, s, a, t, b, W)
    BY ONLY <1>1, s \in Seq(W), t \in Seq(W), ConcatList
<1>3. a \in Nat /\ b \in Nat /\ DOMAIN z = 1..(a + b) /\ DOMAIN s = 1..a /\ DOMAIN t = 1..b
    BY <1>1, <1>2, LenProperties DEF IsJoined
<1>4. \A i \in 1..(a + b) : z[i] = IF i <= a THEN s[i] ELSE t[i - a]
    BY ONLY <1>2 DEF IsJoined, Behind
<1>5. ASSUME NEW x \in Range(z)
      PROVE  x \in Range(s) \cup Range(t)
  <2>1. PICK i \in 1..(a + b) : x = z[i]
      BY ONLY <1>3, <1>5 DEF Range
  <2>2. i <= a => i \in 1..a
      BY ONLY <1>3, <2>1
  <2>3. ~(i <= a) => i - a \in 1..b
      BY ONLY <1>3, <2>1
  <2> QED BY ONLY <1>3, <1>4, <2>1, <2>2, <2>3 DEF Range
<1>6. ASSUME NEW x \in Range(s)
      PROVE  x \in Range(z)
  <2>1. PICK i \in 1..a : x = s[i]
      BY ONLY <1>3, <1>6 DEF Range
  <2>2. i \in 1..(a + b) /\ z[i] = s[i]
      BY ONLY <1>3, <1>4, <2>1
  <2> QED BY ONLY <1>3, <2>1, <2>2 DEF Range
<1>7. ASSUME NEW x \in Range(t)
      PROVE  x \in Range(z)
  <2>1. PICK i \in 1..b : x = t[i]
      BY ONLY <1>3, <1>7 DEF Range
  <2>2. i + a \in 1..(a + b) /\ ~(i + a <= a) /\ (i + a) - a = i
      BY ONLY <1>3, <2>1
  <2>3. z[i + a] = t[i]
      BY ONLY <1>4, <2>2
  <2> QED BY ONLY <1>3, <2>1, <2>2, <2>3 DEF Range
<1> QED BY ONLY <1>1, <1>5, <1>6, <1>7

LEMMA JoinIds ==
    ASSUME NEW D, NEW s, NEW t, IdsIn(s, D), IdsIn(t, D), Range(s) \cap Range(t) = {}
    PROVE  IdsIn(s \o t, D)
<1>1. PICK z, a, b : z = s \o t /\ a = Len(s) /\ b = Len(t)
    OBVIOUS
<1>2. s \in Seq(D) /\ t \in Seq(D) /\ Injective(s) /\ Injective(t)
    BY DEF IdsIn
<1>3. IsJoined(z, s, a, t, b, D)
    BY ONLY <1>1, <1>2, ConcatList
<1>4. a \in Nat /\ b \in Nat /\ DOMAIN z = 1..(a + b) /\ DOMAIN s = 1..a /\ DOMAIN t = 1..b
    BY <1>1, <1>2, <1>3, LenProperties DEF IsJoined
<1>5. \A i \in 1..(a + b) : z[i] = IF i <= a THEN s[i] ELSE t[i - a]
    BY ONLY <1>3 DEF IsJoined, Behind
<1>6. \A i \in 1..a, j \in 1..b : s[i] # t[j]
    BY ONLY <1>4, Range(s) \cap Range(t) = {} DEF Range
<1>7. ASSUME NEW i \in 1..(a + b), NEW j \in 1..(a + b), z[i] = z[j]
      PROVE  i = j
  <2>1. /\ i <= a => i \in 1..a /\ z[i] = s[i]
        /\ ~(i <= a) => i - a \in 1..b /\ z[i] = t[i - a]
      BY ONLY <1>4, <1>5, <1>7
  <2>2. /\ j <= a => j \in 1..a /\ z[j] = s[j]
        /\ ~(j <= a) => j - a \in 1..b /\ z[j] = t[j - a]
      BY ONLY <1>4, <1>5, <1>7
  <2>3. CASE i <= a /\ j <= a
      BY ONLY <1>2, <1>4, <1>7, <2>1, <2>2, <2>3 DEF Injective
  <2>4. CASE ~(i <= a) /\ ~(j <= a)
    <3>1. i - a = j - a
        BY ONLY <1>2, <1>4, <1>7, <2>1, <2>2, <2>4 DEF Injective
    <3> QED BY ONLY <1>4, <1>7, <3>1
  <2>5. CASE (i <= a) # (j <= a)
      BY ONLY <1>6, <1>7, <2>1, <2>2, <2>5
  <2> QED BY <2>3, <2>4, <2>5
<1>8. z \in Seq(D)
    BY ONLY <1>3 DEF IsJoined
<1> QED BY ONLY <1>1, <1>4, <1>7, <1>8 DEF IdsIn, Injective

LEMMA AppendIds ==
    ASSUME NEW n \in Nat, NEW us, IdsIn(us, 1..n)
    PROVE  /\ IdsIn(Append(us, n + 1), 1..(n + 1)) /\ IdsIn(us, 1..(n + 1))
           /\ Range(Append(us, n + 1)) = Range(us) \cup {n + 1}
<1>1. PICK D, x : D = 1..(n + 1) /\ x = <<n + 1>>
    OBVIOUS
<1>2. us \in Seq(1..n) /\ Injective(us)
    BY DEF IdsIn
<1>3. us \in Seq(D)
    BY ONLY <1>1, <1>2, SeqMonotonic, n \in Nat, 1..n \subseteq 1..(n + 1)
<1>4. Range(us) \subseteq 1..n
    BY ONLY <1>2, LenProperties, ElementOfSeq DEF Range
<1>5. n + 1 \in D
    BY <1>1
<1>6. x \in Seq(D) /\ Range(x) = {n + 1} /\ Injective(x)
    BY ONLY <1>1, <1>5 DEF Range, Injective
<1>7. IdsIn(us, D) /\ IdsIn(x, D)
    BY ONLY <1>2, <1>3, <1>6 DEF IdsIn
<1>8. Range(us) \cap Range(x) = {}
    BY ONLY <1>4, <1>6, n \in Nat
<1>9. IdsIn(us \o x, D)
    BY ONLY <1>7, <1>8, JoinIds
<1>10. Append(us, n + 1) = us \o x
    BY ONLY <1>1, <1>3, <1>5, AppendIsConcat
<1>11. Range(us \o x) = Range(us) \cup Range(x)
    BY ONLY <1>3, <1>6, RangeOfConcat
<1> QED BY ONLY <1>1, <1>6, <1>7, <1>9, <1>10, <1>11

LEMMA OneDraft ==
    ASSUME NEW D, NEW d, IdsIn(DraftUnits(d), D)
    PROVE  Drafted(<<d>>, DraftUnits(d), D)
BY DEF Drafted, DraftsIn, CoveredBy, Range

LEMMA AppendDrafts ==
    ASSUME NEW D, NEW a, NEW b, DraftsIn(a, D), DraftsIn(b, D)
    PROVE  /\ DraftsIn(a \o b, D)
           /\ CoveredBy(a) \subseteq CoveredBy(a \o b) /\ CoveredBy(b) \subseteq CoveredBy(a \o b)
<1>1. PICK I : I = Range(a) \cup Range(b)
    OBVIOUS
<1>2. a \in Seq(I) /\ b \in Seq(I)
    BY <1>1, SeqMonotonic DEF DraftsIn
<1>3. PICK z, m, n : z = a \o b /\ m = Len(a) /\ n = Len(b)
    OBVIOUS
<1>4. IsJoined(z, a, m, b, n, I)
    BY ONLY <1>2, <1>3, ConcatList
<1>5. /\ m \in Nat /\ n \in Nat /\ DOMAIN z = 1..(m + n) /\ z = [i \in 1..(m + n) |-> z[i]]
      /\ DOMAIN a = 1..m /\ DOMAIN b = 1..n
    BY <1>2, <1>3, <1>4, LenProperties DEF IsJoined
<1>6. Range(z) = Range(a) \cup Range(b)
    BY ONLY <1>2, <1>3, RangeOfConcat
<1>7. \A x \in Range(z) : IdsIn(DraftUnits(x), D)
    BY ONLY <1>6, DraftsIn(a, D), DraftsIn(b, D) DEF DraftsIn, Range
<1>8. \A i \in DOMAIN z : IdsIn(DraftUnits(z[i]), D)
    BY ONLY <1>7 DEF Range
<1>9. m + n \in Nat
    BY ONLY <1>5
<1>10. z \in Seq(Range(z))
    BY ONLY <1>5, <1>9, RangeSeq
<1>11. /\ CoveredBy(z) = UNION {Range(DraftUnits(x)) : x \in Range(z)}
       /\ CoveredBy(a) = UNION {Range(DraftUnits(x)) : x \in Range(a)}
       /\ CoveredBy(b) = UNION {Range(DraftUnits(x)) : x \in Range(b)}
    BY ONLY DEF CoveredBy, Range
<1> QED BY ONLY <1>3, <1>6, <1>8, <1>10, <1>11 DEF DraftsIn

-----------------------------------------------------------------------------
(* The drafts of a clause group                                            *)

\* Gathering blocks keeps what they hold, in order.
LEMMA GatherSaid ==
    ASSUME NEW D, NEW blocks \in Seq(Seq(D)), NEW lead, NEW clause
    PROVE  /\ Gather(blocks, lead, clause) \in Seq(Seq(D))
           /\ FlattenSeq(Gather(blocks, lead, clause)) = FlattenSeq(blocks)
<1> DEFINE gathered(b, n) == FlattenSeq(SubSeq(blocks, b, n))
           joins == [b, n \in DOMAIN blocks |->
                        Fits(Body(lead \o gathered(b, n)), <<>>, clause, Labels(gathered(b, n)))]
           groupsOf == Greedy(blocks, joins)
<1>1. Gather(blocks, lead, clause) = [i \in DOMAIN groupsOf |-> FlattenSeq(groupsOf[i])]
    BY ONLY DEF Gather
<1> HIDE DEF joins
<1>2. PICK T : T = Seq(D)
    OBVIOUS
<1>3. MakeUp(groupsOf, blocks, T)
  <2>1. blocks \in Seq(T)
      BY ONLY <1>2, blocks \in Seq(Seq(D))
  <2> QED BY ONLY <2>1, GreedyJoins
<1> HIDE DEF groupsOf
<1>4. FlattensTwice(groupsOf, D)
  <2>1. groupsOf \in Seq(Seq(Seq(D)))
      BY ONLY <1>2, <1>3 DEF MakeUp
  <2> QED BY ONLY <2>1, FlattenFlatten
<1> QED BY ONLY <1>1, <1>3, <1>4 DEF FlattensTwice, EachFlat, MakeUp

\* A list that stands in one where nothing is there twice
LEMMA Within ==
    ASSUME NEW D, NEW a \in Seq(D), NEW x \in Seq(D), NEW p \in Seq(D), NEW y \in Seq(D),
           NEW all, IdsIn(all, D), all = a \o (x \o (p \o y))
    PROVE  IdsIn(a \o p, D)
<1>1. Injective(a \o (x \o (p \o y)))
    BY DEF IdsIn
<1>2. Injective(a \o p)
    BY ONLY <1>1, a \in Seq(D), x \in Seq(D), p \in Seq(D), y \in Seq(D), InjectivePart
<1>3. a \o p \in Seq(D)
    BY ONLY a \in Seq(D), p \in Seq(D), ConcatProperties
<1> QED BY ONLY <1>2, <1>3 DEF IdsIn

LEMMA SplitAt ==
    ASSUME NEW D, NEW us \in Seq(D), NEW first \in 1..Len(us)
    PROVE  /\ SubSeq(us, 1, first - 1) \in Seq(D) /\ SubSeq(us, first, Len(us)) \in Seq(D)
           /\ us = SubSeq(us, 1, first - 1) \o SubSeq(us, first, Len(us))
           /\ SubSeq(us, first, Len(us)) # <<>>
<1>1. Len(us) \in Nat /\ \A i \in 1..Len(us) : us[i] \in D
    BY LenProperties, ElementOfSeq
<1>2. 1 \in Int /\ first - 1 \in Int /\ first \in Int /\ Len(us) \in Int
    BY <1>1
<1>3. SubSeq(us, 1, first - 1) \in Seq(D)
  <2>1. \A i \in 1..(first - 1) : us[i] \in D
      BY <1>1
  <2> QED BY ONLY <1>2, <2>1, SubSeqProperties
<1>4. SubSeq(us, first, Len(us)) \in Seq(D) /\ Len(SubSeq(us, first, Len(us))) = Len(us) - first + 1
  <2>1. \A i \in first..Len(us) : us[i] \in D
      BY <1>1
  <2>2. first <= Len(us) + 1
      BY <1>1
  <2> QED BY ONLY <1>2, <2>1, <2>2, SubSeqProperties
<1>5. SubSeq(us, 1, first - 1) \o SubSeq(us, (first - 1) + 1, Len(us)) = SubSeq(us, 1, Len(us))
  <2>1. 1 \in 1..(Len(us) + 1) /\ first - 1 \in (1 - 1)..Len(us) /\ Len(us) \in (first - 1)..Len(us)
      BY <1>1
  <2> QED BY ONLY us \in Seq(D), <2>1, ConcatAdjacentSubSeq
<1>6. SubSeq(us, 1, Len(us)) = us /\ (first - 1) + 1 = first
    BY <1>1, SubSeqFull
<1>7. Len(SubSeq(us, first, Len(us))) # 0
    BY ONLY <1>1, <1>4, first \in 1..Len(us)
<1> QED BY ONLY <1>3, <1>4, <1>5, <1>6, <1>7, EmptySeq

LEMMA DraftHolds ==
    ASSUME NEW kind, NEW clause, NEW occurrence, NEW us, NEW lead
    PROVE  DraftUnits(Draft(kind, clause, occurrence, us, lead)) = lead \o us
BY DEF DraftUnits, Draft

LEMMA WholeDraft ==
    ASSUME NEW D, NEW kind, NEW clause, NEW occurrence, NEW us, IdsIn(us, D)
    PROVE  Drafted(<<Draft(kind, clause, occurrence, us, <<>>)>>, us, D)
<1>1. PICK d : d = Draft(kind, clause, occurrence, us, <<>>)
    OBVIOUS
<1>2. DraftUnits(d) = <<>> \o us
    BY ONLY <1>1, DraftHolds
<1>3. <<>> \o us = us
    BY ConcatEmptySeq DEF IdsIn
<1>4. Drafted(<<d>>, DraftUnits(d), D)
  <2>1. IdsIn(DraftUnits(d), D)
      BY ONLY <1>2, <1>3, IdsIn(us, D)
  <2> QED BY ONLY <2>1, OneDraft
<1> QED BY ONLY <1>1, <1>2, <1>3, <1>4

\* The points of a clause, gathered behind a lead
LEMMA PointDrafts ==
    ASSUME NEW D, NEW lead \in Seq(D), NEW rest \in Seq(D), IdsIn(lead \o rest, D),
           NEW gathered \in Seq(Seq(D)), FlattenSeq(gathered) = rest, rest # <<>>,
           NEW clause, NEW occurrence
    PROVE  Drafted([b \in DOMAIN gathered |-> Draft("points", clause, occurrence, gathered[b], lead)],
                   lead \o rest, D)
<1>1. PICK n, new : /\ n = Len(gathered)
                    /\ new = [b \in DOMAIN gathered |-> Draft("points", clause, occurrence, gathered[b], lead)]
    OBVIOUS
<1>2. n \in Nat /\ DOMAIN gathered = 1..n /\ \A b \in 1..n : gathered[b] \in Seq(D)
    BY ONLY gathered \in Seq(Seq(D)), <1>1, LenProperties, ElementOfSeq
<1>3. DOMAIN new = 1..n /\ new = [b \in 1..n |-> new[b]]
    BY ONLY <1>1, <1>2
<1>4. ASSUME NEW b \in 1..n
      PROVE  DraftUnits(new[b]) = lead \o gathered[b]
  <2>1. PICK p : p = gathered[b]
      OBVIOUS
  <2>2. new[b] = Draft("points", clause, occurrence, p, lead)
      BY ONLY <1>1, <1>2, <1>4, <2>1
  <2>3. DraftUnits(new[b]) = lead \o p
      BY ONLY <2>2, DraftHolds
  <2> QED BY ONLY <2>1, <2>3
<1>5. ASSUME NEW b \in 1..n
      PROVE  IdsIn(DraftUnits(new[b]), D)
  <2>1. PICK x \in Seq(D), y \in Seq(D) : rest = x \o (gathered[b] \o y)
    <3>1. b \in DOMAIN gathered
        BY ONLY <1>2, <1>5
    <3> QED BY ONLY <3>1, gathered \in Seq(Seq(D)), FlattenSeq(gathered) = rest, PartOfFlatten
  <2>2. PICK p, all : p = gathered[b] /\ all = lead \o rest
      OBVIOUS
  <2>3. p \in Seq(D) /\ IdsIn(all, D) /\ all = lead \o (x \o (p \o y))
      BY ONLY <1>2, <1>5, <2>1, <2>2, IdsIn(lead \o rest, D)
  <2>4. IdsIn(lead \o p, D)
      BY ONLY <2>1, <2>3, lead \in Seq(D), Within
  <2> QED BY ONLY <1>4, <1>5, <2>2, <2>4
<1>6. new \in Seq(Range(new))
    BY ONLY <1>2, <1>3, RangeSeq
<1>7. ASSUME NEW b \in 1..n
      PROVE  Range(lead) \cup Range(gathered[b]) \subseteq CoveredBy(new)
  <2>1. PICK p : p = gathered[b]
      OBVIOUS
  <2>2. p \in Seq(D)
      BY ONLY <1>2, <1>7, <2>1
  <2>3. Range(lead \o p) = Range(lead) \cup Range(p)
      BY ONLY <2>2, lead \in Seq(D), RangeOfConcat
  <2>4. Range(DraftUnits(new[b])) \subseteq CoveredBy(new)
      BY ONLY <1>3, <1>7 DEF CoveredBy
  <2> QED BY ONLY <1>4, <1>7, <2>1, <2>3, <2>4
<1>8. ASSUME NEW x \in Range(rest)
      PROVE  x \in CoveredBy(new)
  <2>1. PICK b \in DOMAIN gathered : x \in Range(gathered[b])
      BY ONLY <1>8, gathered \in Seq(Seq(D)), FlattenSeq(gathered) = rest, FlattenHas
  <2> QED BY ONLY <1>2, <1>7, <2>1
<1>9. Range(lead) \subseteq CoveredBy(new)
  <2>1. n # 0
    <3>1. ASSUME n = 0 PROVE FALSE
      <4>1. gathered = <<>>
          BY ONLY <1>1, <3>1, gathered \in Seq(Seq(D)), EmptySeq
      <4> QED BY ONLY <4>1, FlattenSeq(gathered) = rest, rest # <<>>, FlattenEmpty
    <3> QED BY ONLY <3>1
  <2>2. 1 \in 1..n
      BY ONLY <1>2, <2>1
  <2> QED BY ONLY <1>7, <2>2
<1>10. Range(lead \o rest) = Range(lead) \cup Range(rest)
    BY ONLY lead \in Seq(D), rest \in Seq(D), RangeOfConcat
<1> QED BY ONLY <1>1, <1>3, <1>5, <1>6, <1>8, <1>9, <1>10 DEF Drafted, DraftsIn

LEMMA GroupDrafted ==
    ASSUME NEW D, NEW g, IdsIn(g.units, D)
    PROVE  Drafted(DraftsOf(g), g.units, D)
<1> DEFINE pointsOf(us) == {i \in DOMAIN us : units[us[i]].type = "point"}
           first == FirstIn(pointsOf(g.units))
           lead == SubSeq(g.units, 1, first - 1)
           rest == SubSeq(g.units, first, Len(g.units))
           long == ~Fits(Body(lead), <<>>, g.clause, <<>>)
           front == IF long THEN <<>> ELSE lead
           gathered == Gather(Pieces(rest, pointsOf(rest)), front, g.clause)
           fits == Fits(Body(g.units), <<>>, g.clause, Labels(g.units))
           opened == IF long THEN <<Draft("lead", g.clause, g.occurrence, lead, <<>>)>> ELSE <<>>
           behind == [b \in DOMAIN gathered |-> Draft("points", g.clause, g.occurrence, gathered[b], front)]
<1>1. DraftsOf(g) = CASE fits -> <<Draft("clause", g.clause, g.occurrence, g.units, <<>>)>>
                      [] pointsOf(g.units) = {} -> <<Draft("unbroken", g.clause, g.occurrence, g.units, <<>>)>>
                      [] OTHER -> opened \o behind
    BY ONLY DEF DraftsOf
<1>2. PICK us : us = g.units
    OBVIOUS
<1>3. us \in Seq(D) /\ IdsIn(us, D)
    BY ONLY <1>2, IdsIn(g.units, D) DEF IdsIn
<1>4. \A kind : Drafted(<<Draft(kind, g.clause, g.occurrence, us, <<>>)>>, us, D)
    BY ONLY <1>3, WholeDraft
<1>5. pointsOf(us) # {} => first \in 1..Len(us)
  <2>1. Len(us) \in Nat /\ pointsOf(us) \subseteq 1..Len(us) /\ pointsOf(us) \subseteq Nat
      BY ONLY <1>3, LenProperties
  <2>2. PICK S : S = pointsOf(us)
      OBVIOUS
  <2>3. S # {} => \E x \in S : \A y \in S : x <= y
      BY ONLY <2>1, <2>2, LeastNumber
  <2>4. S # {} => FirstIn(S) \in S
      BY ONLY <2>3 DEF FirstIn
  <2> QED BY ONLY <1>2, <2>1, <2>2, <2>4
<1>6. ASSUME pointsOf(us) # {}
      PROVE  Drafted(opened \o behind, us, D)
  <2>1. /\ lead \in Seq(D) /\ rest \in Seq(D) /\ us = lead \o rest /\ rest # <<>>
    <3>1. PICK f : f = first
        OBVIOUS
    <3>2. f \in 1..Len(us)
        BY ONLY <1>5, <1>6, <3>1
    <3> QED BY ONLY <1>2, <1>3, <3>1, <3>2, SplitAt
  <2>2. PICK r, blocks : r = rest /\ blocks = Pieces(r, pointsOf(r))
      OBVIOUS
  <2>3. MakeUp(blocks, r, D)
      BY ONLY <2>1, <2>2, PiecesJoin
  <2>4. PICK h : h = gathered
      OBVIOUS
  <2>5. h \in Seq(Seq(D)) /\ FlattenSeq(h) = r
    <3>1. PICK l, c : l = front /\ c = g.clause
        OBVIOUS
    <3>2. h = Gather(blocks, l, c)
        BY ONLY <2>2, <2>4, <3>1
    <3>3. blocks \in Seq(Seq(D)) /\ FlattenSeq(blocks) = r
        BY ONLY <2>3 DEF MakeUp
    <3> QED BY ONLY <3>2, <3>3, GatherSaid
  <2>6. PICK l : l = lead
      OBVIOUS
  <2>7. l \in Seq(D) /\ r \in Seq(D) /\ us = l \o r /\ r # <<>> /\ <<>> \in Seq(D)
      BY ONLY <2>1, <2>2, <2>6, EmptySeq
  <2>8. PICK new : new = behind
      OBVIOUS
  <2>9. new = [b \in DOMAIN h |-> Draft("points", g.clause, g.occurrence, h[b], front)]
      BY ONLY <2>4, <2>8
  <2>10. CASE ~long
    <3>1. opened = <<>> /\ front = l
        BY ONLY <2>6, <2>10
    <3>2. IdsIn(l \o r, D)
        BY ONLY <1>3, <2>7
    <3>3. Drafted([b \in DOMAIN h |-> Draft("points", g.clause, g.occurrence, h[b], l)], l \o r, D)
        BY ONLY <2>5, <2>7, <3>2, PointDrafts
    <3>4. Drafted(new, us, D)
        BY ONLY <2>7, <2>9, <3>1, <3>3
    <3>5. <<>> \o new = new
      <4>1. new \in Seq(Range(new))
          BY ONLY <3>4 DEF Drafted, DraftsIn
      <4> QED BY ONLY <4>1, ConcatEmptySeq
    <3> QED BY ONLY <2>8, <3>1, <3>4, <3>5
  <2>11. CASE long
    <3>1. PICK opening1 : opening1 = <<Draft("lead", g.clause, g.occurrence, l, <<>>)>>
        OBVIOUS
    <3>2. opened = opening1 /\ front = <<>>
        BY ONLY <2>6, <2>11, <3>1
    <3>3. PICK none : none = <<>>
        OBVIOUS
    <3>4. none \in Seq(D) /\ r \o none = r /\ none \o r = r /\ l \o none = l /\ none \o l = l
        BY ONLY <2>7, <3>3, ConcatEmptySeq
    <3>5. IdsIn(none \o r, D)
      <4>1. us = none \o (l \o (r \o none))
        <5>1. none \o us = us
            BY ONLY <1>3, <3>3, ConcatEmptySeq
        <5> QED BY ONLY <2>7, <3>4, <5>1
      <4> QED BY ONLY <1>3, <2>7, <3>4, <4>1, Within
    <3>6. IdsIn(l, D)
      <4>1. us = l \o (none \o (none \o r))
          BY ONLY <2>7, <3>4
      <4>2. IdsIn(l \o none, D)
          BY ONLY <1>3, <2>7, <3>4, <4>1, Within
      <4> QED BY ONLY <3>4, <4>2
    <3>7. Drafted(opening1, l, D)
        BY ONLY <3>1, <3>6, WholeDraft
    <3>8. Drafted([b \in DOMAIN h |-> Draft("points", g.clause, g.occurrence, h[b], none)], none \o r, D)
        BY ONLY <2>5, <2>7, <3>4, <3>5, PointDrafts
    <3>9. Drafted(new, r, D)
        BY ONLY <2>9, <3>2, <3>3, <3>4, <3>8
    <3>10. /\ DraftsIn(opening1 \o new, D) /\ CoveredBy(opening1) \subseteq CoveredBy(opening1 \o new)
           /\ CoveredBy(new) \subseteq CoveredBy(opening1 \o new)
      <4>1. DraftsIn(opening1, D) /\ DraftsIn(new, D)
          BY ONLY <3>7, <3>9 DEF Drafted
      <4> QED BY ONLY <4>1, AppendDrafts
    <3>11. Range(us) = Range(l) \cup Range(r)
        BY ONLY <2>7, RangeOfConcat
    <3> QED BY ONLY <2>8, <3>2, <3>7, <3>9, <3>10, <3>11 DEF Drafted
  <2> QED BY <2>10, <2>11
<1> HIDE DEF opened, behind, fits
<1>7. \/ DraftsOf(g) = <<Draft("clause", g.clause, g.occurrence, us, <<>>)>>
      \/ DraftsOf(g) = <<Draft("unbroken", g.clause, g.occurrence, us, <<>>)>>
      \/ pointsOf(us) # {} /\ DraftsOf(g) = opened \o behind
    BY ONLY <1>1, <1>2
<1> QED BY ONLY <1>2, <1>4, <1>6, <1>7

-----------------------------------------------------------------------------
(* The invariant                                                           *)

\* The builder, from the first unit of an article to its last check
ChunkerSpec == ChunkerInit /\ [][ChunkerNext]_chunkerVars

\* Groups whose units are in D, each named once in its group
GroupsIn(gs, D) ==
    gs \in Seq(Range(gs)) /\ \A g \in DOMAIN gs : "units" \in DOMAIN gs[g] /\ IdsIn(gs[g].units, D)

\* The units of the groups from the k-th on
InGroups(gs, k) == UNION {Range(gs[g].units) : g \in {h \in DOMAIN gs : h >= k}}

ArticleRead ==
    /\ shape \in DOMAIN Shapes /\ UnitsRead /\ TableRead
    /\ active \in 0..Len(groups) /\ at \in Nat \ {0}

\* Every list names units, each once.
ListsHold ==
    /\ IdsIn(opening, DOMAIN units) /\ IdsIn(orphans, DOMAIN units)
    /\ GroupsIn(groups, DOMAIN units) /\ DraftsIn(drafts, DOMAIN units)

\* Every unit read so far is in one of the lists.
ReadingHolds ==
    phase = "reading" =>
        /\ drafts = <<>> /\ at = 1
        /\ \A u \in Range(opening) : units[u].type = "preamble"
        /\ \A u \in InGroups(groups, 1) : units[u].type # "preamble"
        /\ DOMAIN units \subseteq Range(opening) \cup Range(orphans) \cup InGroups(groups, 1)

\* Every unit is in a draft, or in a list that is still to be drafted.
DraftingHolds ==
    /\ phase = "groups" =>
          DOMAIN units \subseteq Range(orphans) \cup CoveredBy(drafts) \cup InGroups(groups, at)
    /\ phase \notin {"reading", "groups"} => DOMAIN units \subseteq CoveredBy(drafts)

TableHolds ==
    phase \notin {"reading", "groups", "tables"} => FlattenSeq(segments) = RowsText(AllRows)

\* The chunks say what the drafts before `at' hold.
ChunksHold ==
    /\ IsChunks(chunks)
    /\ phase \in {"reading", "groups", "tables"} => chunks = <<>>
    /\ phase \notin {"reading", "groups", "tables"} =>
          \A o \in DOMAIN drafts :
              OriginText(chunks, o) = IF o < at THEN DraftText(drafts[o]) ELSE <<>>
    /\ Built => at > Len(drafts)

ChunkerInv ==
    ArticleRead /\ ListsHold /\ ReadingHolds /\ DraftingHolds /\ TableHolds /\ ChunksHold

LEMMA MoreIds ==
    ASSUME NEW D, NEW E, D \subseteq E, NEW us, IdsIn(us, D)
    PROVE  IdsIn(us, E)
BY SeqMonotonic DEF IdsIn

\* Groups of which the g-th now has these units
IsSet(new, gs, g, us, E) ==
    /\ GroupsIn(new, E) /\ DOMAIN new = DOMAIN gs /\ Len(new) = Len(gs)
    /\ new[g].units = us /\ \A h \in DOMAIN gs : h # g => new[h] = gs[h]

\* Groups with one more behind them
IsAdded(new, gs, g, E) ==
    /\ GroupsIn(new, E) /\ DOMAIN new = 1..(Len(gs) + 1) /\ Len(new) = Len(gs) + 1
    /\ new[Len(gs) + 1] = g /\ \A h \in DOMAIN gs : new[h] = gs[h]

LEMMA GroupSet ==
    ASSUME NEW D, NEW E, D \subseteq E, NEW gs, GroupsIn(gs, D), NEW g \in DOMAIN gs,
           NEW us, IdsIn(us, E), NEW new, new = [gs EXCEPT ![g].units = us]
    PROVE  IsSet(new, gs, g, us, E)
<1>1. PICK n : n = Len(gs)
    OBVIOUS
<1>2. n \in Nat /\ DOMAIN gs = 1..n /\ gs = [i \in 1..n |-> gs[i]]
    BY <1>1, LenProperties DEF GroupsIn
<1>3. DOMAIN new = 1..n /\ new = [i \in 1..n |-> new[i]]
    BY ONLY <1>2, new = [gs EXCEPT ![g].units = us]
<1>4. new \in Seq(Range(new)) /\ Len(new) = n
    BY ONLY <1>2, <1>3, RangeSeq
<1>5. "units" \in DOMAIN gs[g]
    BY DEF GroupsIn
<1>6. new[g] = [gs[g] EXCEPT !.units = us]
    BY ONLY <1>2, g \in DOMAIN gs, new = [gs EXCEPT ![g].units = us]
<1>7. "units" \in DOMAIN new[g] /\ new[g].units = us
    BY ONLY <1>5, <1>6
<1>8. \A h \in DOMAIN gs : h # g => new[h] = gs[h]
    BY ONLY <1>2, new = [gs EXCEPT ![g].units = us]
<1>9. \A h \in DOMAIN gs : "units" \in DOMAIN gs[h] /\ IdsIn(gs[h].units, E)
    BY MoreIds DEF GroupsIn
<1> QED BY ONLY <1>1, <1>2, <1>3, <1>4, <1>7, <1>8, <1>9, IdsIn(us, E) DEF GroupsIn, IsSet

LEMMA GroupAppended ==
    ASSUME NEW D, NEW E, D \subseteq E, NEW gs, GroupsIn(gs, D), NEW g, "units" \in DOMAIN g,
           IdsIn(g.units, E), NEW new, new = Append(gs, g)
    PROVE  IsAdded(new, gs, g, E)
<1>1. PICK n, T : n = Len(gs) /\ T = Range(gs) \cup {g}
    OBVIOUS
<1>2. gs \in Seq(T) /\ g \in T
    BY <1>1, SeqMonotonic DEF GroupsIn
<1>3. n \in Nat /\ DOMAIN gs = 1..n
    BY ONLY <1>1, <1>2, LenProperties
<1>4. new \in Seq(T) /\ Len(new) = n + 1 /\ new[n + 1] = g /\ \A i \in 1..n : new[i] = gs[i]
    BY ONLY <1>1, <1>2, new = Append(gs, g), AppendProperties
<1>5. DOMAIN new = 1..(n + 1) /\ new = [i \in 1..(n + 1) |-> new[i]]
    BY ONLY <1>4, LenProperties
<1>6. new \in Seq(Range(new))
    BY ONLY <1>3, <1>5, RangeSeq, n + 1 \in Nat
<1>7. \A h \in DOMAIN gs : "units" \in DOMAIN gs[h] /\ IdsIn(gs[h].units, E)
    BY MoreIds DEF GroupsIn
<1>8. \A h \in 1..(n + 1) : h \in 1..n \/ h = n + 1
    BY ONLY <1>3
<1> QED BY ONLY <1>1, <1>3, <1>4, <1>5, <1>6, <1>7, <1>8, "units" \in DOMAIN g, IdsIn(g.units, E) DEF GroupsIn, IsAdded

\* What reading a unit does to the groups
Grown(gs, new, n) ==
    /\ GroupsIn(new, 1..(n + 1)) /\ Len(new) >= Len(gs)
    /\ InGroups(new, 1) = InGroups(gs, 1) \cup {n + 1}

LEMMA UnitAdded ==
    ASSUME NEW n \in Nat, NEW gs, GroupsIn(gs, 1..n), NEW g \in DOMAIN gs,
           NEW new, new = [gs EXCEPT ![g].units = Append(@, n + 1)]
    PROVE  Grown(gs, new, n) /\ Len(new) = Len(gs)
<1>1. PICK us, more : us = gs[g].units /\ more = Append(us, n + 1)
    OBVIOUS
<1>2. IdsIn(us, 1..n)
    BY <1>1 DEF GroupsIn
<1>3. IdsIn(more, 1..(n + 1)) /\ Range(more) = Range(us) \cup {n + 1}
    BY ONLY <1>1, <1>2, n \in Nat, AppendIds
<1>4. new = [gs EXCEPT ![g].units = more]
    BY ONLY <1>1, new = [gs EXCEPT ![g].units = Append(@, n + 1)]
<1>5. PICK D, E : D = 1..n /\ E = 1..(n + 1)
    OBVIOUS
<1>6. D \subseteq E /\ GroupsIn(gs, D) /\ IdsIn(more, E)
    BY <1>3, <1>5
<1>7. /\ GroupsIn(new, E) /\ DOMAIN new = DOMAIN gs /\ Len(new) = Len(gs)
      /\ new[g].units = more /\ \A h \in DOMAIN gs : h # g => new[h] = gs[h]
  <2>1. IsSet(new, gs, g, more, E)
      BY ONLY <1>4, <1>6, g \in DOMAIN gs, GroupSet
  <2> QED BY ONLY <2>1 DEF IsSet
<1>8. Len(gs) \in Nat /\ DOMAIN gs = 1..Len(gs)
    BY LenProperties DEF GroupsIn
<1>9. \A h \in DOMAIN gs : h >= 1
    BY <1>8
<1>10. InGroups(new, 1) = InGroups(gs, 1) \cup {n + 1}
  <2>1. {h \in DOMAIN gs : h >= 1} = DOMAIN gs /\ {h \in DOMAIN new : h >= 1} = DOMAIN gs
      BY ONLY <1>7, <1>9
  <2>2. InGroups(new, 1) = UNION {Range(new[h].units) : h \in DOMAIN gs}
      BY ONLY <2>1 DEF InGroups
  <2>3. InGroups(gs, 1) = UNION {Range(gs[h].units) : h \in DOMAIN gs}
      BY ONLY <2>1 DEF InGroups
  <2>4. \A h \in DOMAIN gs : Range(new[h].units) = IF h = g THEN Range(gs[h].units) \cup {n + 1} ELSE Range(gs[h].units)
      BY ONLY <1>1, <1>3, <1>7
  <2>5. ASSUME NEW x \in InGroups(new, 1)
        PROVE  x \in InGroups(gs, 1) \cup {n + 1}
    <3>1. PICK h \in DOMAIN gs : x \in Range(new[h].units)
        BY ONLY <2>2, <2>5
    <3>2. x \in Range(gs[h].units) \cup {n + 1}
        BY ONLY <2>4, <3>1
    <3> QED BY ONLY <2>3, <3>2
  <2>6. ASSUME NEW x \in InGroups(gs, 1) \cup {n + 1}
        PROVE  x \in InGroups(new, 1)
    <3>1. CASE x = n + 1
      <4>1. x \in Range(new[g].units)
          BY ONLY <2>4, <3>1, g \in DOMAIN gs
      <4> QED BY ONLY <2>2, <4>1, g \in DOMAIN gs
    <3>2. CASE x # n + 1
      <4>1. PICK h \in DOMAIN gs : x \in Range(gs[h].units)
          BY ONLY <2>3, <2>6, <3>2
      <4>2. x \in Range(new[h].units)
          BY ONLY <2>4, <4>1
      <4> QED BY ONLY <2>2, <4>2
    <3> QED BY <3>1, <3>2
  <2> QED BY ONLY <2>5, <2>6
<1> QED BY ONLY <1>5, <1>7, <1>8, <1>10 DEF Grown

LEMMA GroupOpened ==
    ASSUME NEW n \in Nat, NEW gs, GroupsIn(gs, 1..n), NEW g, "units" \in DOMAIN g, g.units = <<n + 1>>,
           NEW new, new = Append(gs, g)
    PROVE  Grown(gs, new, n) /\ Len(new) = Len(gs) + 1
<1>1. PICK D, E, k : D = 1..n /\ E = 1..(n + 1) /\ k = Len(gs)
    OBVIOUS
<1>2. D \subseteq E /\ GroupsIn(gs, D)
    BY <1>1
<1>3. IdsIn(g.units, E) /\ Range(g.units) = {n + 1}
  <2>1. n + 1 \in E
      BY <1>1
  <2>2. <<n + 1>> \in Seq(E) /\ Injective(<<n + 1>>) /\ Range(<<n + 1>>) = {n + 1}
      BY ONLY <2>1 DEF Injective, Range
  <2> QED BY ONLY <2>2, g.units = <<n + 1>> DEF IdsIn
<1>4. /\ GroupsIn(new, E) /\ DOMAIN new = 1..(k + 1) /\ Len(new) = k + 1
      /\ new[k + 1] = g /\ \A h \in DOMAIN gs : new[h] = gs[h]
  <2>1. IsAdded(new, gs, g, E)
      BY ONLY <1>2, <1>3, "units" \in DOMAIN g, new = Append(gs, g), GroupAppended
  <2> QED BY ONLY <1>1, <2>1 DEF IsAdded
<1>5. k \in Nat /\ DOMAIN gs = 1..k
    BY <1>1, LenProperties DEF GroupsIn
<1>6. InGroups(new, 1) = InGroups(gs, 1) \cup {n + 1}
  <2>1. {h \in DOMAIN gs : h >= 1} = DOMAIN gs /\ {h \in DOMAIN new : h >= 1} = DOMAIN gs \cup {k + 1}
      BY ONLY <1>4, <1>5
  <2>2. InGroups(new, 1) = UNION {Range(new[h].units) : h \in DOMAIN gs \cup {k + 1}}
      BY ONLY <2>1 DEF InGroups
  <2>3. InGroups(gs, 1) = UNION {Range(gs[h].units) : h \in DOMAIN gs}
      BY ONLY <2>1 DEF InGroups
  <2>4. \A h \in DOMAIN gs : Range(new[h].units) = Range(gs[h].units)
      BY ONLY <1>4
  <2>5. Range(new[k + 1].units) = {n + 1}
      BY ONLY <1>3, <1>4
  <2> QED BY ONLY <2>2, <2>3, <2>4, <2>5
<1> QED BY ONLY <1>1, <1>4, <1>5, <1>6 DEF Grown

LEMMA GroupsKept ==
    ASSUME NEW n \in Nat, NEW gs, GroupsIn(gs, 1..n)
    PROVE  GroupsIn(gs, 1..(n + 1))
<1>1. PICK D, E : D = 1..n /\ E = 1..(n + 1)
    OBVIOUS
<1>2. D \subseteq E /\ GroupsIn(gs, D)
    BY <1>1
<1> QED BY ONLY <1>1, <1>2, MoreIds DEF GroupsIn

-----------------------------------------------------------------------------
(* Reading the units                                                       *)

LEMMA ChunkerInitInv == ChunkerInit => ChunkerInv
<1> SUFFICES ASSUME ChunkerInit PROVE ChunkerInv
    OBVIOUS
<1>1. /\ shape \in DOMAIN Shapes /\ table \in Tables[shape] \cup {NoTable}
      /\ units = <<>> /\ opening = <<>> /\ groups = <<>> /\ orphans = <<>> /\ active = 0
      /\ drafts = <<>> /\ segments = <<>> /\ chunks = <<>> /\ at = 1 /\ phase = "reading"
    BY DEF ChunkerInit
<1>2. \A S : <<>> \in Seq(S)
    BY EmptySeq
<1>3. DOMAIN <<>> = {} /\ Range(<<>>) = {} /\ Len(<<>>) = 0
    BY EmptySeq DEF Range
<1>4. TableRead
  <2>1. CASE table = NoTable
      BY ONLY <1>2, <2>1 DEF NoTable, TableRead
  <2>2. CASE table \in Tables[shape]
    <3>1. shape \in DOMAIN Tables
        BY <1>1, ChunkerAssumption
    <3> QED BY <2>2, <3>1, ChunkerAssumption DEF TableRead
  <2> QED BY <1>1, <2>1, <2>2
<1>5. ArticleRead
    BY <1>1, <1>2, <1>3, <1>4 DEF ArticleRead, UnitsRead
<1>6. ListsHold
    BY ONLY <1>1, <1>2, <1>3 DEF ListsHold, IdsIn, Injective, GroupsIn, DraftsIn
<1>7. ReadingHolds
    BY ONLY <1>1, <1>3 DEF ReadingHolds, InGroups
<1>8. DraftingHolds /\ TableHolds
    BY ONLY <1>1 DEF DraftingHolds, TableHolds
<1>9. ChunksHold
    BY ONLY <1>1, <1>2, <1>3 DEF ChunksHold, IsChunks, Built
<1> QED BY ONLY <1>5, <1>6, <1>7, <1>8, <1>9 DEF ChunkerInv

\* A unit of the article goes to one of the lists.
LEMMA UnitPlaced ==
    ASSUME ChunkerInv, ReadUnit
    PROVE  \E unit \in AnyUnit :
              /\ units' = Append(units, unit)
              /\ \/ /\ unit.type = "preamble" /\ opening' = Append(opening, Len(units) + 1)
                    /\ UNCHANGED <<groups, orphans, active>>
                 \/ /\ unit.type # "preamble" /\ opening' = opening
                    /\ active' \in 0..Len(groups') /\ orphans' = orphans
                    /\ Grown(groups, groups', Len(units))
                 \/ /\ unit.type # "preamble" /\ opening' = opening
                    /\ UNCHANGED <<groups, active>> /\ orphans' = Append(orphans, Len(units) + 1)
<1>1. PICK unit \in NextUnits :
        /\ units' = Append(units, unit)
        /\ opening' = IF unit.type = "preamble" THEN Append(opening, Len(units) + 1) ELSE opening
        /\ active' = IF unit.type = "clause" THEN Len(groups) + 1 ELSE active
        /\ CASE unit.type = "preamble" -> UNCHANGED <<groups, orphans>>
             [] unit.type = "clause" ->
                    /\ groups' = Append(groups, [clause |-> unit.clause,
                                                 occurrence |-> unit.occurrence, units |-> <<Len(units) + 1>>])
                    /\ UNCHANGED orphans
             [] unit.type = "clause_continuation" /\ active # 0 ->
                    AddToGroup(active, Len(units) + 1) /\ UNCHANGED orphans
             [] unit.type = "point" /\ GroupOfPoint(unit) # 0 ->
                    AddToGroup(GroupOfPoint(unit), Len(units) + 1) /\ UNCHANGED orphans
             [] OTHER -> orphans' = Append(orphans, Len(units) + 1) /\ UNCHANGED groups
    BY DEF ReadUnit
<1>2. PICK n : n = Len(units)
    OBVIOUS
<1>3. n \in Nat /\ DOMAIN units = 1..n /\ shape \in DOMAIN Shapes /\ active \in 0..Len(groups)
    BY <1>2, LenProperties DEF ChunkerInv, ArticleRead, UnitsRead
<1>4. unit \in AnyUnit
  <2>1. unit \in Shapes[shape][n + 1] /\ n < Len(Shapes[shape])
      BY <1>1, <1>2 DEF NextUnits
  <2>2. Shapes[shape] \in Seq(Range(Shapes[shape]))
      BY <1>3, ChunkerAssumption
  <2>3. n + 1 \in DOMAIN Shapes[shape]
      BY <1>3, <2>1, <2>2, LenProperties
  <2> QED BY <1>3, <2>1, <2>3 DEF AnyUnit, Range
<1>5. GroupsIn(groups, 1..n) /\ Len(groups) \in Nat /\ DOMAIN groups = 1..Len(groups)
    BY <1>3, LenProperties DEF ChunkerInv, ListsHold, GroupsIn
<1>6. ASSUME NEW g \in DOMAIN groups, AddToGroup(g, n + 1)
      PROVE  Grown(groups, groups', n) /\ Len(groups') = Len(groups)
  <2>1. groups' = [groups EXCEPT ![g].units = Append(@, n + 1)]
      BY ONLY <1>6 DEF AddToGroup
  <2> QED BY ONLY <1>3, <1>5, <2>1, g \in DOMAIN groups, UnitAdded
<1>7. ASSUME unit.type # "preamble", NEW g, g \in 0..Len(groups), g # 0, AddToGroup(g, n + 1),
             active' = active, orphans' = orphans
      PROVE  active' \in 0..Len(groups') /\ Grown(groups, groups', n)
    BY ONLY <1>3, <1>5, <1>6, <1>7
<1>8. CASE unit.type = "preamble"
    BY <1>1, <1>4, <1>8
<1>9. CASE unit.type = "clause"
  <2>1. PICK g : g = [clause |-> unit.clause, occurrence |-> unit.occurrence, units |-> <<n + 1>>]
      OBVIOUS
  <2>2. "units" \in DOMAIN g /\ g.units = <<n + 1>>
      BY ONLY <2>1
  <2>3. groups' = Append(groups, g) /\ orphans' = orphans /\ active' = Len(groups) + 1 /\ opening' = opening
      BY ONLY <1>1, <1>2, <1>9, <2>1
  <2>4. Grown(groups, groups', n) /\ Len(groups') = Len(groups) + 1
      BY ONLY <1>3, <1>5, <2>2, <2>3, GroupOpened
  <2>5. active' \in 0..Len(groups')
      BY ONLY <1>5, <2>3, <2>4
  <2> QED BY <1>1, <1>2, <1>4, <1>9, <2>3, <2>4, <2>5
<1>10. CASE unit.type = "clause_continuation" /\ active # 0
  <2>1. AddToGroup(active, n + 1) /\ orphans' = orphans /\ active' = active /\ opening' = opening
      BY ONLY <1>1, <1>2, <1>10
  <2>2. active' \in 0..Len(groups') /\ Grown(groups, groups', n)
      BY ONLY <1>3, <1>7, <1>10, <2>1
  <2> QED BY <1>1, <1>2, <1>4, <1>10, <2>1, <2>2
<1>11. CASE unit.type = "point" /\ GroupOfPoint(unit) # 0
  <2>1. PICK g : g = GroupOfPoint(unit)
      OBVIOUS
  <2>2. AddToGroup(g, n + 1) /\ orphans' = orphans /\ active' = active /\ opening' = opening
      BY ONLY <1>1, <1>2, <1>11, <2>1
  <2>3. g \in 0..Len(groups)
    <3>1. PICK same : same = {h \in DOMAIN groups : groups[h].clause = unit.clause}
        OBVIOUS
    <3>2. same # {} => \E x \in same : \A y \in same : y <= x
        BY ONLY <1>5, <3>1, LastNumber
    <3>3. same # {} => LastIn(same) \in same
        BY ONLY <3>2 DEF LastIn
    <3> QED BY ONLY <1>3, <1>5, <2>1, <3>1, <3>3 DEF GroupOfPoint
  <2>4. active' \in 0..Len(groups') /\ Grown(groups, groups', n)
      BY ONLY <1>7, <1>11, <2>1, <2>2, <2>3
  <2> QED BY <1>1, <1>2, <1>4, <1>11, <2>2, <2>4
<1>12. CASE /\ unit.type \notin {"preamble", "clause"}
            /\ ~(unit.type = "clause_continuation" /\ active # 0)
            /\ ~(unit.type = "point" /\ GroupOfPoint(unit) # 0)
  <2>1. orphans' = Append(orphans, n + 1) /\ groups' = groups /\ active' = active /\ opening' = opening
      BY ONLY <1>1, <1>2, <1>12
  <2> QED BY <1>1, <1>2, <1>4, <1>12, <2>1
<1> QED BY <1>8, <1>9, <1>10, <1>11, <1>12

LEMMA ReadUnitKeeps ==
    ASSUME ChunkerInv, ReadUnit
    PROVE  ChunkerInv'
<1>1. PICK unit \in AnyUnit :
        /\ units' = Append(units, unit)
        /\ \/ /\ unit.type = "preamble" /\ opening' = Append(opening, Len(units) + 1)
              /\ UNCHANGED <<groups, orphans, active>>
           \/ /\ unit.type # "preamble" /\ opening' = opening
              /\ active' \in 0..Len(groups') /\ orphans' = orphans
              /\ Grown(groups, groups', Len(units))
           \/ /\ unit.type # "preamble" /\ opening' = opening
              /\ UNCHANGED <<groups, active>> /\ orphans' = Append(orphans, Len(units) + 1)
    BY UnitPlaced
<1>2. phase = "reading" /\ UNCHANGED <<shape, table, drafts, segments, chunks, at, phase>>
    BY DEF ReadUnit
<1>3. PICK n, D, E : n = Len(units) /\ D = 1..n /\ E = 1..(n + 1)
    OBVIOUS
<1>4. n \in Nat /\ DOMAIN units = D /\ D \subseteq E /\ units \in Seq(AnyUnit)
    BY <1>3, LenProperties DEF ChunkerInv, ArticleRead, UnitsRead
<1>5. /\ units' \in Seq(AnyUnit) /\ DOMAIN units' = E
      /\ units'[n + 1] = unit /\ \A u \in D : units'[u] = units[u]
  <2>1. Len(units') = n + 1 /\ units' \in Seq(AnyUnit)
      BY ONLY <1>1, <1>3, <1>4, AppendProperties
  <2>2. units'[n + 1] = unit /\ \A u \in 1..n : units'[u] = units[u]
      BY ONLY <1>1, <1>3, <1>4, AppendProperties
  <2> QED BY ONLY <1>3, <2>1, <2>2, LenProperties
<1>6. IdsIn(opening, D) /\ IdsIn(orphans, D) /\ GroupsIn(groups, D) /\ drafts = <<>> /\ at = 1
    BY <1>2, <1>4 DEF ChunkerInv, ListsHold, ReadingHolds
<1>7. /\ \A us : IdsIn(us, D) => /\ IdsIn(Append(us, n + 1), E) /\ IdsIn(us, E)
                                 /\ Range(Append(us, n + 1)) = Range(us) \cup {n + 1}
    BY ONLY <1>3, <1>4, AppendIds
<1>8. GroupsIn(groups, E)
    BY ONLY <1>3, <1>4, <1>6, GroupsKept
<1>9. ListsHold'
  <2>1. DraftsIn(drafts', E)
      BY ONLY <1>2, <1>6, EmptySeq DEF DraftsIn
  <2>2. IdsIn(opening', E) /\ IdsIn(orphans', E) /\ GroupsIn(groups', E)
      BY ONLY <1>1, <1>3, <1>6, <1>7, <1>8 DEF Grown
  <2> QED BY ONLY <1>5, <2>1, <2>2 DEF ListsHold
<1>10. ArticleRead'
  <2>1. shape' \in DOMAIN Shapes /\ TableRead' /\ at' \in Nat \ {0}
      BY <1>2 DEF ChunkerInv, ArticleRead, TableRead
  <2>2. active \in 0..Len(groups)
      BY DEF ChunkerInv, ArticleRead
  <2>3. active' \in 0..Len(groups')
      BY ONLY <1>1, <2>2
  <2> QED BY ONLY <1>5, <2>1, <2>3 DEF ArticleRead, UnitsRead
<1>11. ReadingHolds'
  <2>1. /\ \A u \in Range(opening) : units[u].type = "preamble"
        /\ \A u \in InGroups(groups, 1) : units[u].type # "preamble"
        /\ D \subseteq Range(opening) \cup Range(orphans) \cup InGroups(groups, 1)
      BY <1>2, <1>4 DEF ChunkerInv, ReadingHolds
  <2>2. Range(opening) \subseteq D /\ InGroups(groups, 1) \subseteq D
    <3>1. \A us : IdsIn(us, D) => Range(us) \subseteq D
        BY ONLY LenProperties, ElementOfSeq DEF IdsIn, Range
    <3> QED BY ONLY <1>6, <3>1 DEF GroupsIn, InGroups
  <2>3. /\ Range(opening') = IF unit.type = "preamble" THEN Range(opening) \cup {n + 1} ELSE Range(opening)
        /\ InGroups(groups', 1) \in {InGroups(groups, 1), InGroups(groups, 1) \cup {n + 1}}
        /\ unit.type = "preamble" => InGroups(groups', 1) = InGroups(groups, 1)
        /\ n + 1 \in Range(opening') \cup Range(orphans') \cup InGroups(groups', 1)
        /\ Range(orphans) \subseteq Range(orphans')
      BY ONLY <1>1, <1>3, <1>6, <1>7 DEF Grown
  <2>4. \A u \in Range(opening') : units'[u].type = "preamble"
      BY ONLY <1>5, <2>1, <2>2, <2>3
  <2>5. \A u \in InGroups(groups', 1) : units'[u].type # "preamble"
      BY ONLY <1>5, <2>1, <2>2, <2>3
  <2>6. E \subseteq Range(opening') \cup Range(orphans') \cup InGroups(groups', 1)
    <3>1. E = D \cup {n + 1}
        BY ONLY <1>3, <1>4
    <3> QED BY ONLY <2>1, <2>3, <3>1
  <2> QED BY ONLY <1>2, <1>5, <1>6, <2>4, <2>5, <2>6 DEF ReadingHolds
<1>12. DraftingHolds' /\ TableHolds'
    BY ONLY <1>2 DEF DraftingHolds, TableHolds
<1>13. ChunksHold'
  <2>1. IsChunks(chunks') /\ chunks' = <<>> /\ phase' = "reading"
      BY <1>2 DEF ChunkerInv, ChunksHold
  <2> QED BY ONLY <2>1 DEF ChunksHold, Built
<1> QED BY ONLY <1>9, <1>10, <1>11, <1>12, <1>13 DEF ChunkerInv

-----------------------------------------------------------------------------
(* Drafting                                                                *)

\* What the steps after the reading leave alone
LEMMA StaysRead ==
    ASSUME ChunkerInv, UNCHANGED <<shape, units, table, active>>, Len(groups') = Len(groups),
           at' \in Nat \ {0}
    PROVE  ArticleRead'
BY DEF ChunkerInv, ArticleRead, UnitsRead, TableRead

LEMMA AllAreIds ==
    ASSUME ChunkerInv
    PROVE  /\ Range(AllUnits) = DOMAIN units /\ IdsIn(AllUnits, DOMAIN units)
           /\ AllUnits # <<>> <=> units # <<>>
<1>1. PICK n, all : n = Len(units) /\ all = AllUnits
    OBVIOUS
<1>2. n \in Nat /\ DOMAIN units = 1..n
    BY <1>1, LenProperties DEF ChunkerInv, ArticleRead, UnitsRead
<1>3. all = [i \in 1..n |-> i] /\ all \in [1..n -> 1..n]
    BY ONLY <1>1, <1>2 DEF AllUnits
<1>4. all \in Seq(1..n) /\ Len(all) = n
    BY ONLY <1>2, <1>3, FunctionIsSeq
<1>5. Range(all) = 1..n /\ Injective(all)
    BY ONLY <1>3 DEF Range, Injective
<1>6. all # <<>> <=> units # <<>>
    BY <1>1, <1>2, <1>4, EmptySeq DEF ChunkerInv, ArticleRead, UnitsRead
<1> QED BY ONLY <1>1, <1>2, <1>4, <1>5, <1>6 DEF IdsIn

LEMMA NoDrafts ==
    ASSUME NEW D
    PROVE  DraftsIn(<<>>, D) /\ CoveredBy(<<>>) = {}
BY EmptySeq DEF DraftsIn, CoveredBy

LEMMA StartKeeps ==
    ASSUME ChunkerInv, StartArticle
    PROVE  ChunkerInv'
<1>1. /\ phase = "reading"
      /\ UNCHANGED <<shape, units, table, opening, orphans, active, segments, chunks, at>>
    BY DEF StartArticle
<1>2. PICK D : D = DOMAIN units
    OBVIOUS
<1>3. /\ IdsIn(opening, D) /\ IdsIn(orphans, D) /\ GroupsIn(groups, D) /\ drafts = <<>> /\ at = 1
      /\ \A u \in Range(opening) : units[u].type = "preamble"
      /\ \A u \in InGroups(groups, 1) : units[u].type # "preamble"
      /\ D \subseteq Range(opening) \cup Range(orphans) \cup InGroups(groups, 1)
      /\ chunks = <<>> /\ IsChunks(chunks)
    BY <1>1, <1>2 DEF ChunkerInv, ListsHold, ReadingHolds, ChunksHold
<1>4. DraftsIn(<<>>, D) /\ CoveredBy(<<>>) = {} /\ Range(<<>>) = {}
    BY NoDrafts, EmptySeq DEF Range
<1>5. ASSUME phase' \in {"groups", "tables"}, DraftsIn(drafts', D), GroupsIn(groups', D),
             Len(groups') = Len(groups),
             phase' = "groups" => D \subseteq Range(orphans) \cup CoveredBy(drafts') \cup InGroups(groups', 1),
             phase' = "tables" => D \subseteq CoveredBy(drafts')
      PROVE  ChunkerInv'
  <2>1. ArticleRead'
      BY ONLY <1>1, <1>3, <1>5, ChunkerInv, StaysRead
  <2>2. ListsHold'
      BY ONLY <1>1, <1>2, <1>3, <1>5 DEF ListsHold
  <2>3. ReadingHolds' /\ TableHolds'
      BY ONLY <1>5 DEF ReadingHolds, TableHolds
  <2>4. DraftingHolds'
      BY ONLY <1>1, <1>2, <1>3, <1>5 DEF DraftingHolds
  <2>5. ChunksHold'
      BY ONLY <1>1, <1>3, <1>5 DEF ChunksHold, Built
  <2> QED BY ONLY <2>1, <2>2, <2>3, <2>4, <2>5 DEF ChunkerInv
<1>6. CASE units = <<>>
  <2>1. phase' = "tables" /\ drafts' = drafts /\ groups' = groups
      BY <1>6 DEF StartArticle
  <2>2. D = {}
      BY ONLY <1>2, <1>6
  <2> QED BY ONLY <1>3, <1>4, <1>5, <2>1, <2>2
<1>7. CASE units # <<>> /\ Fits(Body(AllUnits), <<>>, Blank, <<>>)
  <2>1. drafts' = <<Draft("article", Blank, 1, AllUnits, <<>>)>> /\ phase' = "tables" /\ groups' = groups
      BY <1>7 DEF StartArticle
  <2>2. Range(AllUnits) = D /\ IdsIn(AllUnits, D)
      BY <1>2, AllAreIds
  <2>3. Drafted(drafts', AllUnits, D)
      BY ONLY <2>1, <2>2, WholeDraft
  <2> QED BY ONLY <1>3, <1>5, <2>1, <2>2, <2>3 DEF Drafted
<1>8. CASE units # <<>> /\ ~Fits(Body(AllUnits), <<>>, Blank, <<>>)
  <2>1. /\ phase' = "groups"
        /\ IF opening # <<>> /\ groups # <<>>
           THEN IF Fits(Body(opening \o groups[1].units), <<>>, groups[1].clause, <<>>)
                THEN groups' = [groups EXCEPT ![1].units = opening \o @] /\ UNCHANGED drafts
                ELSE drafts' = <<Draft("preamble", Blank, 1, opening, <<>>)>> /\ UNCHANGED groups
           ELSE /\ drafts' = IF opening # <<>>
                             THEN <<Draft("article_over", Blank, 1, opening, <<>>)>> ELSE <<>>
                /\ UNCHANGED groups
      BY <1>8 DEF StartArticle
  <2>2. CASE groups' = groups /\ \E kind : drafts' = <<Draft(kind, Blank, 1, opening, <<>>)>>
    <3>1. Drafted(drafts', opening, D)
        BY ONLY <1>3, <2>2, WholeDraft
    <3> QED BY ONLY <1>3, <1>5, <2>1, <2>2, <3>1 DEF Drafted
  <2>3. CASE groups' = groups /\ drafts' = <<>> /\ opening = <<>>
      BY ONLY <1>3, <1>4, <1>5, <2>1, <2>3
  <2>4. CASE /\ groups # <<>> /\ drafts' = drafts
             /\ groups' = [groups EXCEPT ![1].units = opening \o @]
    <3>1. PICK g, us : g = groups[1].units /\ us = opening \o g
        OBVIOUS
    <3>2. Len(groups) \in Nat /\ DOMAIN groups = 1..Len(groups) /\ 1 \in DOMAIN groups
        BY <1>3, <2>4, LenProperties, EmptySeq DEF GroupsIn
    <3>3. IdsIn(g, D) /\ Range(g) \subseteq InGroups(groups, 1)
        BY ONLY <1>3, <3>1, <3>2 DEF GroupsIn, InGroups
    <3>4. Range(opening) \cap Range(g) = {}
        BY ONLY <1>3, <3>3
    <3>5. IdsIn(us, D)
        BY ONLY <1>3, <3>1, <3>3, <3>4, JoinIds
    <3>6. Range(us) = Range(opening) \cup Range(g)
        BY ONLY <1>3, <3>1, <3>3, RangeOfConcat DEF IdsIn
    <3>7. groups' = [groups EXCEPT ![1].units = us]
        BY ONLY <2>4, <3>1
    <3>8. IsSet(groups', groups, 1, us, D)
      <4>1. D \subseteq D
          OBVIOUS
      <4> QED BY ONLY <1>3, <3>2, <3>5, <3>7, <4>1, GroupSet
    <3>9. Range(opening) \cup InGroups(groups, 1) \subseteq InGroups(groups', 1)
      <4>1. ASSUME NEW h \in DOMAIN groups
            PROVE  /\ h >= 1 /\ h \in DOMAIN groups'
                   /\ Range(groups[h].units) \subseteq Range(groups'[h].units)
        <5>1. h >= 1
            BY ONLY <3>2, <4>1
        <5>2. CASE h = 1
            BY ONLY <3>1, <3>6, <3>8, <4>1, <5>1, <5>2 DEF IsSet
        <5>3. CASE h # 1
          <6>1. groups'[h] = groups[h] /\ h \in DOMAIN groups'
              BY ONLY <3>8, <4>1, <5>3 DEF IsSet
          <6> QED BY ONLY <5>1, <6>1
        <5> QED BY <5>2, <5>3
      <4>2. Range(opening) \subseteq Range(groups'[1].units)
          BY ONLY <3>6, <3>8 DEF IsSet
      <4> QED BY ONLY <3>2, <4>1, <4>2 DEF InGroups
    <3> QED BY ONLY <1>3, <1>4, <1>5, <2>1, <2>4, <3>8, <3>9 DEF IsSet
  <2> QED BY ONLY <2>1, <2>2, <2>3, <2>4
<1> QED BY ONLY <1>6, <1>7, <1>8

LEMMA GroupKeeps ==
    ASSUME ChunkerInv, ChunkGroup
    PROVE  ChunkerInv'
<1>1. /\ phase = "groups" /\ at <= Len(groups) /\ drafts' = drafts \o DraftsOf(groups[at]) /\ at' = at + 1
      /\ UNCHANGED <<shape, units, table, opening, groups, orphans, active, segments, chunks, phase>>
    BY DEF ChunkGroup
<1>2. PICK D, g, new : D = DOMAIN units /\ g = groups[at] /\ new = DraftsOf(g)
    OBVIOUS
<1>3. /\ IdsIn(opening, D) /\ IdsIn(orphans, D) /\ GroupsIn(groups, D) /\ DraftsIn(drafts, D)
      /\ at \in Nat \ {0} /\ IsChunks(chunks) /\ chunks = <<>>
      /\ D \subseteq Range(orphans) \cup CoveredBy(drafts) \cup InGroups(groups, at)
    BY <1>1, <1>2 DEF ChunkerInv, ArticleRead, ListsHold, DraftingHolds, ChunksHold
<1>4. Len(groups) \in Nat /\ DOMAIN groups = 1..Len(groups)
    BY <1>3, LenProperties DEF GroupsIn
<1>5. at \in DOMAIN groups
    BY ONLY <1>1, <1>3, <1>4
<1>6. IdsIn(g.units, D)
    BY ONLY <1>2, <1>3, <1>5 DEF GroupsIn
<1>7. Drafted(new, g.units, D)
    BY ONLY <1>2, <1>6, GroupDrafted
<1>8. /\ DraftsIn(drafts', D)
      /\ CoveredBy(drafts) \subseteq CoveredBy(drafts') /\ CoveredBy(new) \subseteq CoveredBy(drafts')
  <2>1. DraftsIn(new, D)
      BY ONLY <1>7 DEF Drafted
  <2> QED BY ONLY <1>1, <1>2, <1>3, <2>1, AppendDrafts
<1>9. InGroups(groups, at) \subseteq Range(g.units) \cup InGroups(groups, at + 1)
  <2>1. \A h \in DOMAIN groups : h >= at => h = at \/ h >= at + 1
      BY ONLY <1>3, <1>4
  <2> QED BY ONLY <1>2, <2>1 DEF InGroups
<1>10. ArticleRead'
    BY ONLY <1>1, <1>3, ChunkerInv, StaysRead
<1>11. ListsHold'
    BY ONLY <1>1, <1>2, <1>3, <1>8 DEF ListsHold
<1>12. DraftingHolds'
    BY ONLY <1>1, <1>2, <1>3, <1>7, <1>8, <1>9 DEF DraftingHolds, Drafted
<1>13. ReadingHolds' /\ TableHolds'
    BY ONLY <1>1 DEF ReadingHolds, TableHolds
<1>14. ChunksHold'
    BY ONLY <1>1, <1>3 DEF ChunksHold, Built
<1> QED BY ONLY <1>10, <1>11, <1>12, <1>13, <1>14 DEF ChunkerInv

LEMMA CoveredIs == Covered = CoveredBy(drafts)
BY DEF Covered, CoveredBy, DraftUnits

LEMMA CoveredAreUnits ==
    ASSUME NEW D, NEW ds, DraftsIn(ds, D)
    PROVE  CoveredBy(ds) \subseteq D
BY LenProperties, ElementOfSeq DEF DraftsIn, CoveredBy, IdsIn, Range

LEMMA OrphansKeep ==
    ASSUME ChunkerInv, ChunkOrphans
    PROVE  ChunkerInv'
<1>1. /\ phase = "groups" /\ at > Len(groups)
      /\ drafts' = IF orphans # <<>> THEN Append(drafts, Draft("orphan", Blank, 1, orphans, <<>>)) ELSE drafts
      /\ phase' = IF Covered \cup Range(orphans) = DOMAIN units THEN "tables" ELSE "lost"
      /\ UNCHANGED <<shape, units, table, opening, groups, orphans, active, segments, chunks, at>>
    BY DEF ChunkOrphans
<1>2. PICK D : D = DOMAIN units
    OBVIOUS
<1>3. /\ IdsIn(opening, D) /\ IdsIn(orphans, D) /\ GroupsIn(groups, D) /\ DraftsIn(drafts, D)
      /\ at \in Nat \ {0} /\ IsChunks(chunks) /\ chunks = <<>>
      /\ D \subseteq Range(orphans) \cup CoveredBy(drafts) \cup InGroups(groups, at)
    BY <1>1, <1>2 DEF ChunkerInv, ArticleRead, ListsHold, DraftingHolds, ChunksHold
<1>4. InGroups(groups, at) = {}
  <2>1. Len(groups) \in Nat /\ DOMAIN groups = 1..Len(groups)
      BY <1>3, LenProperties DEF GroupsIn
  <2>2. {h \in DOMAIN groups : h >= at} = {}
      BY ONLY <1>1, <1>3, <2>1
  <2> QED BY ONLY <2>2 DEF InGroups
<1>5. phase' = "tables"
  <2>1. Covered \subseteq D
      BY ONLY <1>3, CoveredIs, CoveredAreUnits
  <2>2. Range(orphans) \subseteq D
      BY ONLY <1>3, LenProperties, ElementOfSeq DEF IdsIn, Range
  <2>3. D \subseteq Covered \cup Range(orphans)
      BY ONLY <1>3, <1>4, CoveredIs
  <2> QED BY ONLY <1>1, <1>2, <2>1, <2>2, <2>3
<1>6. DraftsIn(drafts', D) /\ D \subseteq CoveredBy(drafts')
  <2>1. CASE orphans = <<>>
    <3>1. Range(orphans) = {}
        BY <2>1, EmptySeq DEF Range
    <3> QED BY ONLY <1>1, <1>3, <1>4, <2>1, <3>1
  <2>2. CASE orphans # <<>>
    <3>1. PICK d, new : d = Draft("orphan", Blank, 1, orphans, <<>>) /\ new = <<d>>
        OBVIOUS
    <3>2. Drafted(new, orphans, D)
        BY ONLY <1>3, <3>1, WholeDraft
    <3>3. drafts' = drafts \o new
      <4>1. PICK I : I = Range(drafts) \cup {d}
          OBVIOUS
      <4>2. drafts \in Seq(I) /\ d \in I
          BY ONLY <1>3, <4>1, SeqMonotonic DEF DraftsIn
      <4>3. Append(drafts, d) = drafts \o <<d>>
          BY ONLY <4>2, AppendIsConcat
      <4> QED BY ONLY <1>1, <2>2, <3>1, <4>3
    <3>4. /\ DraftsIn(drafts', D)
          /\ CoveredBy(drafts) \subseteq CoveredBy(drafts') /\ CoveredBy(new) \subseteq CoveredBy(drafts')
      <4>1. DraftsIn(new, D)
          BY ONLY <3>2 DEF Drafted
      <4> QED BY ONLY <1>3, <3>3, <4>1, AppendDrafts
    <3> QED BY ONLY <1>3, <1>4, <3>2, <3>4 DEF Drafted
  <2> QED BY <2>1, <2>2
<1>7. ArticleRead'
    BY ONLY <1>1, <1>3, ChunkerInv, StaysRead
<1>8. ListsHold'
    BY ONLY <1>1, <1>2, <1>3, <1>6 DEF ListsHold
<1>9. DraftingHolds' /\ ReadingHolds' /\ TableHolds'
    BY ONLY <1>1, <1>2, <1>5, <1>6 DEF DraftingHolds, ReadingHolds, TableHolds
<1>10. ChunksHold'
    BY ONLY <1>1, <1>3, <1>5 DEF ChunksHold, Built
<1> QED BY ONLY <1>7, <1>8, <1>9, <1>10 DEF ChunkerInv

-----------------------------------------------------------------------------
(* Writing the chunks, and the theorems                                    *)

LEMMA TextsStay ==
    ASSUME UNCHANGED <<units, table, drafts>>
    PROVE  /\ RowsText(AllRows)' = RowsText(AllRows)
           /\ \A o \in DOMAIN drafts : DraftText(drafts[o])' = DraftText(drafts[o])
<1>1. RowsText(AllRows)' = RowsText(AllRows)
    BY DEF RowsText, AllRows, RowWords
<1>2. \A o \in DOMAIN drafts : DraftText(drafts[o])' = DraftText(drafts[o])
    BY DEF DraftText, DraftUnits, TextWithout, ShownWords, Skipped, WordsOf
<1> QED BY <1>1, <1>2

\* What the steps behind the drafts leave alone
LEMMA StaysDrafted ==
    ASSUME ChunkerInv, phase \notin {"reading", "groups"}, phase' \notin {"reading", "groups"},
           UNCHANGED <<shape, units, table, opening, groups, orphans, active, drafts>>,
           at' \in Nat \ {0}
    PROVE  ArticleRead' /\ ListsHold' /\ ReadingHolds' /\ DraftingHolds'
<1>1. ArticleRead'
    BY StaysRead
<1>2. ListsHold'
    BY DEF ChunkerInv, ListsHold
<1>3. ReadingHolds' /\ DraftingHolds'
    BY DEF ChunkerInv, ReadingHolds, DraftingHolds
<1> QED BY <1>1, <1>2, <1>3

LEMMA TablesKeep ==
    ASSUME ChunkerInv, ChunkTables
    PROVE  ChunkerInv'
<1>1. /\ phase = "tables" /\ phase' \in {"splitting", "table_refused"} /\ at' = 1
      /\ segments' = IF table = NoTable THEN <<>> ELSE TableSegments
      /\ UNCHANGED <<shape, units, table, opening, groups, orphans, active, drafts, chunks>>
    BY DEF ChunkTables
<1>2. ArticleRead' /\ ListsHold' /\ ReadingHolds' /\ DraftingHolds'
    BY ONLY <1>1, ChunkerInv, StaysDrafted
<1>3. TableHolds'
  <2>1. FlattenSeq(TableSegments) = RowsText(AllRows)
      BY TableSaid DEF ChunkerInv, ArticleRead
  <2>2. table = NoTable => RowsText(AllRows) = <<>>
    <3>1. HAVE table = NoTable
    <3>2. AllRows = <<>>
        BY ONLY <3>1 DEF NoTable, AllRows
    <3>3. [i \in DOMAIN AllRows |-> RowWords(AllRows[i])] = <<>>
        BY ONLY <3>2
    <3> QED BY ONLY <3>3, FlattenEmpty DEF RowsText
  <2>3. FlattenSeq(segments') = RowsText(AllRows)
      BY ONLY <1>1, <2>1, <2>2, FlattenEmpty
  <2>4. RowsText(AllRows)' = RowsText(AllRows)
      BY ONLY <1>1, TextsStay
  <2> QED BY ONLY <2>3, <2>4 DEF TableHolds
<1>4. ChunksHold'
  <2>1. IsChunks(chunks') /\ chunks' = <<>>
      BY <1>1 DEF ChunkerInv, ChunksHold
  <2>2. \A o : OriginText(<<>>, o) = <<>>
    <3>1. \A o : [i \in DOMAIN <<>> |-> Says(o, <<>>[i])] = <<>>
        BY EmptySeq
    <3> QED BY ONLY <3>1, FlattenEmpty DEF OriginText
  <2>3. \A o \in DOMAIN drafts' : ~(o < at')
    <3>1. drafts \in Seq(Range(drafts))
        BY DEF ChunkerInv, ListsHold, DraftsIn
    <3> QED BY ONLY <1>1, <3>1, LenProperties
  <2> QED BY ONLY <1>1, <2>1, <2>2, <2>3 DEF ChunksHold, Built
<1> QED BY ONLY <1>2, <1>3, <1>4 DEF ChunkerInv

LEMMA SplitKeeps ==
    ASSUME ChunkerInv, SplitDraft
    PROVE  ChunkerInv'
<1>1. /\ phase = "splitting" /\ at <= Len(drafts) /\ at' = at + 1
      /\ chunks' = chunks \o NewChunks(drafts[at], at)
      /\ UNCHANGED <<shape, units, table, opening, groups, orphans, active, drafts, segments, phase>>
    BY DEF SplitDraft, NewChunks
<1>2. PICK d, new : d = drafts[at] /\ new = NewChunks(d, at)
    OBVIOUS
<1>3. /\ UnitsRead /\ at \in Nat \ {0} /\ IsChunks(chunks) /\ DraftsIn(drafts, DOMAIN units)
      /\ \A o \in DOMAIN drafts :
              OriginText(chunks, o) = IF o < at THEN DraftText(drafts[o]) ELSE <<>>
    BY <1>1 DEF ChunkerInv, ArticleRead, ListsHold, ChunksHold
<1>4. DOMAIN drafts \subseteq Nat /\ at \in DOMAIN drafts
    BY ONLY <1>1, <1>3, LenProperties DEF DraftsIn
<1>5. SaidFrom(new, at, DraftText(d))
  <2>1. DraftUnits(d) \in Seq(DOMAIN units)
      BY ONLY <1>2, <1>3, <1>4 DEF DraftsIn, IdsIn
  <2> QED BY ONLY <1>2, <1>3, <2>1, DraftSays
<1>6. ASSUME NEW o
      PROVE  /\ IsChunks(chunks') /\ OriginText(chunks, o) \in Seq(Words) /\ OriginText(new, o) \in Seq(Words)
             /\ OriginText(chunks', o) = OriginText(chunks, o) \o OriginText(new, o)
  <2>1. chunks' = chunks \o new
      BY ONLY <1>1, <1>2
  <2>2. IsChunks(new)
      BY ONLY <1>5 DEF SaidFrom
  <2>3. /\ IsChunks(chunks \o new)
        /\ OriginText(chunks \o new, o) = OriginText(chunks, o) \o OriginText(new, o)
        /\ OriginText(chunks, o) \in Seq(Words) /\ OriginText(new, o) \in Seq(Words)
      BY ONLY <1>3, <2>2, OriginTextConcat
  <2> QED BY ONLY <2>1, <2>3
<1>7. ASSUME NEW o \in DOMAIN drafts
      PROVE  OriginText(chunks', o) = IF o < at + 1 THEN DraftText(drafts[o]) ELSE <<>>
  <2>1. PICK x, y : x = OriginText(chunks, o) /\ y = OriginText(new, o)
      OBVIOUS
  <2>2. x \in Seq(Words) /\ y \in Seq(Words) /\ OriginText(chunks', o) = x \o y
      BY ONLY <1>6, <2>1
  <2>3. x \o <<>> = x /\ <<>> \o y = y
      BY ONLY <2>2, ConcatEmptySeq
  <2>4. CASE o = at
    <3>1. x = <<>> /\ y = DraftText(drafts[o])
        BY ONLY <1>2, <1>3, <1>4, <1>5, <2>1, <2>4 DEF SaidFrom
    <3> QED BY ONLY <1>3, <2>2, <2>3, <2>4, <3>1
  <2>5. CASE o # at
    <3>1. y = <<>> /\ x = IF o < at THEN DraftText(drafts[o]) ELSE <<>>
        BY ONLY <1>3, <1>5, <1>7, <2>1, <2>5 DEF SaidFrom
    <3>2. o < at + 1 <=> o < at
        BY ONLY <1>3, <1>4, <1>7, <2>5
    <3> QED BY ONLY <2>2, <2>3, <3>1, <3>2
  <2> QED BY <2>4, <2>5
<1>8. ArticleRead' /\ ListsHold' /\ ReadingHolds' /\ DraftingHolds'
    BY ONLY <1>1, <1>3, ChunkerInv, StaysDrafted
<1>9. /\ RowsText(AllRows)' = RowsText(AllRows)
      /\ \A o \in DOMAIN drafts : DraftText(drafts[o])' = DraftText(drafts[o])
    BY ONLY <1>1, TextsStay
<1>10. TableHolds'
    BY ONLY <1>1, <1>9, ChunkerInv DEF ChunkerInv, TableHolds
<1>11. ChunksHold'
    BY ONLY <1>1, <1>6, <1>7, <1>9 DEF ChunksHold, Built
<1> QED BY ONLY <1>8, <1>10, <1>11 DEF ChunkerInv

\* The checks at the end change nothing but the phase.
LEMMA ChecksKeep ==
    ASSUME ChunkerInv, Finish \/ ValidateChunks
    PROVE  ChunkerInv'
<1>1. /\ phase \in {"splitting", "built"} /\ phase' \in {"lost", "duplicate_key", "built", "accepted", "rejected"}
      /\ phase = "splitting" => at > Len(drafts)
      /\ UNCHANGED <<shape, units, table, opening, groups, orphans, active, drafts, segments, chunks, at>>
    BY DEF Finish, ValidateChunks
<1>2. at > Len(drafts) /\ at \in Nat \ {0}
    BY <1>1 DEF ChunkerInv, ArticleRead, ChunksHold, Built
<1>3. ArticleRead' /\ ListsHold' /\ ReadingHolds' /\ DraftingHolds'
    BY ONLY <1>1, <1>2, ChunkerInv, StaysDrafted
<1>4. /\ RowsText(AllRows)' = RowsText(AllRows)
      /\ \A o \in DOMAIN drafts : DraftText(drafts[o])' = DraftText(drafts[o])
    BY ONLY <1>1, TextsStay
<1>5. TableHolds'
    BY ONLY <1>1, <1>4, ChunkerInv DEF ChunkerInv, TableHolds
<1>6. ChunksHold'
    BY ONLY <1>1, <1>2, <1>4, ChunkerInv DEF ChunkerInv, ChunksHold, Built
<1> QED BY ONLY <1>3, <1>5, <1>6 DEF ChunkerInv

LEMMA ChunkerStutterKeeps ==
    ASSUME ChunkerInv, UNCHANGED chunkerVars
    PROVE  ChunkerInv'
<1>1. UNCHANGED <<shape, units, table, opening, groups, orphans, active, drafts, segments, chunks, at, phase>>
    BY DEF chunkerVars
<1>2. ArticleRead' /\ ListsHold' /\ ReadingHolds' /\ DraftingHolds'
  <2>1. ArticleRead'
      BY ONLY <1>1, ChunkerInv DEF ChunkerInv, ArticleRead, UnitsRead, TableRead
  <2>2. ListsHold' /\ ReadingHolds' /\ DraftingHolds'
      BY ONLY <1>1, ChunkerInv DEF ChunkerInv, ListsHold, ReadingHolds, DraftingHolds
  <2> QED BY <2>1, <2>2
<1>3. /\ RowsText(AllRows)' = RowsText(AllRows)
      /\ \A o \in DOMAIN drafts : DraftText(drafts[o])' = DraftText(drafts[o])
    BY ONLY <1>1, TextsStay
<1>4. TableHolds'
    BY ONLY <1>1, <1>3, ChunkerInv DEF ChunkerInv, TableHolds
<1>5. ChunksHold'
    BY ONLY <1>1, <1>3, ChunkerInv DEF ChunkerInv, ChunksHold, Built
<1> QED BY ONLY <1>2, <1>4, <1>5 DEF ChunkerInv

LEMMA InvKeepsText == ChunkerInv => TextKept
<1> SUFFICES ASSUME ChunkerInv PROVE TextKept
    OBVIOUS
<1>1. phase \notin {"reading", "groups", "tables"} => FlattenSeq(segments) = RowsText(AllRows)
    BY DEF ChunkerInv, TableHolds
<1>2. ASSUME Built, NEW u \in DOMAIN units, NEW said, said = {o \in DOMAIN drafts : Said(o, u) # <<>>}
      PROVE  (units[u].type # "clause" => said # {}) /\ \A o \in said : Said(o, u) = WordsOf(u)
  <2>1. /\ UnitsRead /\ at \in Nat /\ at > Len(drafts) /\ DraftsIn(drafts, DOMAIN units)
        /\ DOMAIN units \subseteq CoveredBy(drafts)
        /\ \A o \in DOMAIN drafts :
              OriginText(chunks, o) = IF o < at THEN DraftText(drafts[o]) ELSE <<>>
      BY <1>2 DEF ChunkerInv, ArticleRead, ListsHold, DraftingHolds, ChunksHold, Built
  <2>2. \A o \in DOMAIN drafts : o < at
      BY ONLY <2>1, LenProperties DEF DraftsIn
  <2> DEFINE out(o) == IF drafts[o].over THEN Skipped(drafts[o]) ELSE {}
  <2>3. ASSUME NEW o \in DOMAIN drafts
        PROVE  Said(o, u) = IF u \in Range(DraftUnits(drafts[o])) /\ u \notin out(o)
                            THEN WordsOf(u) ELSE <<>>
    <3>1. PICK us, skipped : us = DraftUnits(drafts[o]) /\ skipped = out(o)
        OBVIOUS
    <3>2. us \in Seq(DOMAIN units) /\ Injective(us)
        BY ONLY <2>1, <2>3, <3>1 DEF DraftsIn, IdsIn
    <3>3. Primaries(o) = TextWithout(us, skipped)
        BY ONLY <2>1, <2>2, <2>3, <3>1, PrimariesAre DEF DraftText
    <3>4. Keep(TextWithout(us, skipped), u) =
              IF u \in Range(us) /\ u \notin skipped THEN WordsOf(u) ELSE <<>>
        BY ONLY <1>2, <2>1, <3>2, KeptOnce
    <3> QED BY ONLY <3>1, <3>3, <3>4 DEF Said
  <2>4. WordsOf(u) # <<>>
      BY <1>2, <2>1, WordsAre
  <2>5. \A o \in said : Said(o, u) = WordsOf(u)
      BY ONLY <1>2, <2>3
  <2>6. ASSUME units[u].type # "clause" PROVE said # {}
    <3>1. PICK o \in DOMAIN drafts : u \in Range(DraftUnits(drafts[o]))
        BY ONLY <1>2, <2>1 DEF CoveredBy
    <3>2. u \notin out(o)
        BY ONLY <2>6 DEF Skipped
    <3> HIDE DEF out
    <3> QED BY ONLY <1>2, <2>3, <2>4, <3>1, <3>2
  <2> QED BY ONLY <2>5, <2>6
<1> QED BY ONLY <1>1, <1>2 DEF TextKept

LEMMA ChunkerStepKeeps == ChunkerInv /\ [ChunkerNext]_chunkerVars => ChunkerInv'
BY ReadUnitKeeps, StartKeeps, GroupKeeps, OrphansKeep, TablesKeep, SplitKeeps, ChecksKeep,
   ChunkerStutterKeeps DEF ChunkerNext

\* Throughout build_legal_chunks every unit read so far is in a list, then in a
\* draft, and each list names a unit once (the groups, the preamble units, the
\* orphans and drafts of the first phase); the final chunks say what the drafts
\* they come from hold, and the table's segments what its rows hold.
THEOREM ChunkerInvariance == ChunkerSpec => []ChunkerInv
BY ChunkerInitInv, ChunkerStepKeeps, PTL DEF ChunkerSpec

\* Whatever the units of an article, its table and the limits, an article that
\* build_legal_chunks has built lost no word and moved none: each draft that
\* says a unit says all its words in their order, every unit but a clause's own
\* text is said by some draft, and the segments of a table hold its rows
\* (_group_text_units, build_legal_chunks, split_main_text_to_fit, _build_table_chunks).
THEOREM ChunksKeepTheText == ChunkerSpec => []TextKept
BY ChunkerInvariance, InvKeepsText, PTL

=============================================================================
