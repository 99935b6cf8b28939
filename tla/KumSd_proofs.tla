----------------------------- MODULE KumSd_proofs -----------------------------
(***************************************************************************)
(* The card reader: the safety properties of KumSdHeader (what one block   *)
(* says) and of KumSdFile (what the methods hand out), for every recorder, *)
(* every block and every set of cards.                                     *)
(*                                                                         *)
(* Headers first: the lemmas about sequences and blocks, then Described    *)
(* (with the invariant Behind that the sections behind the reader are what *)
(* the struct says) and ReadsBack (with the invariant Follows that the     *)
(* reader is where the recorder's section begins), and the calendar.       *)
(* The frames of a card come last.                                         *)
(***************************************************************************)
EXTENDS KumSdFile, KumSdHeader, FiniteSetTheorems, SequenceTheorems,
        WellFoundedInduction, TLAPS


-----------------------------------------------------------------------------
(***************************************************************************)
(* Induction                                                               *)
(*                                                                         *)
(* The induction theorems of the library take a formula with a parameter.  *)
(* Here a set of numbers stands in its place.                              *)
(***************************************************************************)

\* The segments 1 .. n, ordered by inclusion, are well-founded.
LEMMA LeastNumber ==
    ASSUME NEW T \in SUBSET Nat, T # {}
    PROVE  \E n \in T : \A m \in T : n <= m
<1> DEFINE Segments == {1 .. n : n \in T}
           Smaller  == StrictSubsetOrdering(Nat)
<1>1. Segments \subseteq FiniteSubsetsOf(Nat) /\ Segments # {}
  <2>1. ASSUME NEW n \in T PROVE 1 .. n \in FiniteSubsetsOf(Nat)
    <3>1. n \in Nat /\ IsFiniteSet(1 .. n) /\ 1 .. n \subseteq Nat
      BY FS_Interval
    <3> QED BY <3>1 DEF FiniteSubsetsOf
  <2> QED BY <2>1
<1>2. IsWellFoundedOn(Smaller, FiniteSubsetsOf(Nat))
  BY FS_StrictSubsetOrderingWellFounded
<1>3. PICK s \in Segments : \A t \in Segments : << t, s >> \notin Smaller
  <2> HIDE DEF Segments, Smaller
  <2> QED BY <1>1, <1>2, WFMin
<1>4. PICK n \in T : s = 1 .. n
  OBVIOUS
<1>5. ASSUME NEW m \in T, m < n PROVE FALSE
  <2>1. 1 .. m \in Segments
    OBVIOUS
  <2>2. << 1 .. m, 1 .. n >> \notin Smaller
    BY <1>3, <1>4, <2>1
  <2>3. /\ 1 .. m \subseteq 1 .. n /\ n \in 1 .. n /\ n \notin 1 .. m
        /\ 1 .. m \subseteq Nat /\ 1 .. n \subseteq Nat
    BY <1>5
  <2> QED BY <2>2, <2>3 DEF StrictSubsetOrdering
<1> QED BY <1>5

LEMMA SetInduction ==
    ASSUME NEW T, 0 \in T, \A n \in Nat : n \in T => n + 1 \in T
    PROVE  Nat \subseteq T
<1>1. SUFFICES ASSUME Nat \ T # {} PROVE FALSE
  OBVIOUS
<1>2. PICK n \in Nat \ T : \A m \in Nat \ T : n <= m
  <2> DEFINE R == Nat \ T
  <2>1. R \in SUBSET Nat /\ R # {}
    BY <1>1
  <2> HIDE DEF R
  <2>2. \E n \in R : \A m \in R : n <= m
    BY <2>1, LeastNumber
  <2> QED BY <2>2 DEF R
<1>3. n # 0 /\ n - 1 \in Nat /\ n - 1 \notin Nat \ T
  BY <1>2
<1> QED BY <1>3

-----------------------------------------------------------------------------
(***************************************************************************)
(* The concatenation of a list of sequences                                *)
(***************************************************************************)

\* g[i] is the concatenation of the first i members of list, up to the n-th.
Running(list, n, g) ==
    g = [i \in 1 .. n |-> IF i = 1 THEN list[i] ELSE g[i - 1] \o list[i]]

LEMMA RunningExists ==
    ASSUME NEW list, NEW n \in Nat
    PROVE  \E g : Running(list, n, g)
<1> DEFINE T == {m \in Nat : \E g : Running(list, m, g)}
<1>1. 0 \in T
  <2> DEFINE g == [i \in 1 .. 0 |-> list[i]]
  <2>1. g = [i \in 1 .. 0 |-> IF i = 1 THEN list[i] ELSE g[i - 1] \o list[i]]
    OBVIOUS
  <2>2. Running(list, 0, g)
    BY <2>1 DEF Running
  <2> HIDE DEF g
  <2> QED BY <2>2
<1>2. ASSUME NEW m \in Nat, m \in T PROVE m + 1 \in T
  <2>1. PICK g : Running(list, m, g)
    BY <1>2
  <2> DEFINE last == IF m = 0 THEN list[1] ELSE g[m] \o list[m + 1]
             h == [i \in 1 .. m + 1 |-> IF i <= m THEN g[i] ELSE last]
  <2>2. ASSUME NEW i \in 1 .. m + 1
        PROVE  h[i] = IF i = 1 THEN list[i] ELSE h[i - 1] \o list[i]
    <3>1. CASE i = m + 1
      BY <3>1
    <3>2. CASE i \in 1 .. m
      <4>1. g[i] = IF i = 1 THEN list[i] ELSE g[i - 1] \o list[i]
        BY <2>1, <3>2 DEF Running
      <4>2. h[i] = g[i] /\ (i # 1 => h[i - 1] = g[i - 1])
        BY <3>2
      <4> HIDE DEF h, last
      <4> QED BY <4>1, <4>2
    <3> QED BY <3>1, <3>2
  <2>3. Running(list, m + 1, h)
    <3>1. h \in [1 .. m + 1 -> {h[i] : i \in 1 .. m + 1}]
      OBVIOUS
    <3> HIDE DEF h, last
    <3>2. h = [i \in 1 .. m + 1 |-> h[i]]
      BY <3>1
    <3> QED BY <2>2, <3>2 DEF Running
  <2> HIDE DEF h
  <2> QED BY <2>3
<1> HIDE DEF T
<1>3. Nat \subseteq T
  BY <1>1, <1>2, SetInduction
<1> QED BY <1>3 DEF T

\* What holds of the beginning and of each further member holds of all.
LEMMA RunningInduction ==
    ASSUME NEW n \in Nat, NEW T, n > 0 => 1 \in T,
           \A i \in 1 .. n - 1 : i \in T => i + 1 \in T
    PROVE  1 .. n \subseteq T
<1> DEFINE U == {i \in Nat : i \in 1 .. n => i \in T}
<1>1. 0 \in U
  OBVIOUS
<1>2. ASSUME NEW i \in Nat, i \in U PROVE i + 1 \in U
  BY <1>2
<1> HIDE DEF U
<1>3. Nat \subseteq U
  BY <1>1, <1>2, SetInduction
<1> QED BY <1>3 DEF U

LEMMA RunningUnique ==
    ASSUME NEW list, NEW n \in Nat, NEW g, NEW h,
           Running(list, n, g), Running(list, n, h)
    PROVE  g = h
<1> DEFINE T == {i \in 1 .. n : g[i] = h[i]}
<1>1. \A i \in 1 .. n : /\ g[i] = IF i = 1 THEN list[i] ELSE g[i - 1] \o list[i]
                        /\ h[i] = IF i = 1 THEN list[i] ELSE h[i - 1] \o list[i]
  BY DEF Running
<1>2. n > 0 => 1 \in T
  BY <1>1
<1>3. ASSUME NEW i \in 1 .. n - 1, i \in T PROVE i + 1 \in T
  <2>1. i + 1 \in 1 .. n /\ i + 1 # 1 /\ i + 1 - 1 = i /\ g[i] = h[i]
    BY <1>3
  <2>2. PICK j \in 1 .. n : j = i + 1 /\ j # 1 /\ j - 1 = i
    BY <2>1
  <2>3. g[j] = g[i] \o list[j] /\ h[j] = h[i] \o list[j]
    BY <1>1, <2>2
  <2> QED BY <2>1, <2>2, <2>3
<1> HIDE DEF T
<1>4. 1 .. n \subseteq T
  BY <1>2, <1>3, RunningInduction
<1>5. \A i \in 1 .. n : g[i] = h[i]
  BY <1>4 DEF T
<1>6. g = [i \in 1 .. n |-> g[i]] /\ h = [i \in 1 .. n |-> h[i]]
  BY DEF Running
<1>7. [i \in 1 .. n |-> g[i]] = [i \in 1 .. n |-> h[i]]
  BY <1>5
<1> QED BY <1>6, <1>7

LEMMA FlattenIsRunning ==
    ASSUME NEW list, Len(list) \in Nat \ {0}, NEW g, Running(list, Len(list), g)
    PROVE  FlattenSeq(list) = g[Len(list)]
<1> DEFINE n == Len(list)
           f == CHOOSE h : h = [i \in 1 .. n |->
                    IF i = 1 THEN list[i] ELSE h[i - 1] \o list[i]]
<1>1. FlattenSeq(list) = f[n]
  BY DEF FlattenSeq
<1>2. Running(list, n, f)
  BY DEF Running
<1> HIDE DEF f
<1>3. f = g
  BY <1>2, RunningUnique
<1> QED BY <1>1, <1>3

LEMMA FunctionIsSeq ==
    ASSUME NEW S, NEW n \in Nat, NEW f \in [1 .. n -> S]
    PROVE  f \in Seq(S) /\ Len(f) = n
<1>1. f \in Seq(S)
  BY SeqDef
<1>2. Len(f) \in Nat /\ DOMAIN f = 1 .. Len(f)
  BY <1>1, LenProperties
<1>3. 1 .. n = 1 .. Len(f)
  BY <1>2
<1> QED BY <1>1, <1>2, <1>3


\* Where the members of a list end in its concatenation.
Cuts(list, cut) ==
    /\ cut \in [0 .. Len(list) -> Nat]
    /\ cut[0] = 0
    /\ \A k \in 1 .. Len(list) : cut[k] = cut[k - 1] + Len(list[k])

LEMMA CutsUnique ==
    ASSUME NEW list, Len(list) \in Nat, \A k \in 1 .. Len(list) : Len(list[k]) \in Nat,
           NEW c, Cuts(list, c), NEW d, Cuts(list, d)
    PROVE  c = d
<1> DEFINE n == Len(list)
           T == {k \in 1 .. n : c[k] = d[k]}
<1>1. /\ \A k \in 1 .. n : /\ c[k] = c[k - 1] + Len(list[k])
                           /\ d[k] = d[k - 1] + Len(list[k])
      /\ c[0] = 0 /\ d[0] = 0 /\ n \in Nat
      /\ c = [k \in 0 .. n |-> c[k]] /\ d = [k \in 0 .. n |-> d[k]]
  BY DEF Cuts
<1> HIDE DEF n
<1>2. n > 0 => 1 \in T
  BY <1>1
<1>3. ASSUME NEW i \in 1 .. n - 1, i \in T PROVE i + 1 \in T
  <2>1. PICK j \in 1 .. n : j = i + 1 /\ j - 1 = i
    BY <1>1
  <2>2. c[j] = d[j]
    BY <1>1, <1>3, <2>1
  <2> QED BY <2>1, <2>2
<1> HIDE DEF T
<1>4. 1 .. n \subseteq T
  BY <1>1, <1>2, <1>3, RunningInduction
<1>5. \A k \in 0 .. n : c[k] = d[k]
  <2>1. \A k \in 1 .. n : c[k] = d[k]
    BY <1>4 DEF T
  <2>2. \A k \in 0 .. n : k = 0 \/ k \in 1 .. n
    BY <1>1
  <2> QED BY <1>1, <2>1, <2>2
<1>6. [k \in 0 .. n |-> c[k]] = [k \in 0 .. n |-> d[k]]
  BY <1>5
<1> QED BY <1>1, <1>6

\* The members stand in the concatenation one behind the other, and nothing else.
Concatenated(list, all) ==
    /\ all \in Seq(Places)
    /\ \E cut : Cuts(list, cut)
    /\ \A cut : Cuts(list, cut) =>
           /\ Len(all) = cut[Len(list)]
           /\ \A k \in 1 .. Len(list) : \A j \in 1 .. Len(list[k]) :
                  cut[k - 1] + j \in 1 .. Len(all) /\ all[cut[k - 1] + j] = list[k][j]
           /\ \A i \in 1 .. Len(all) : \E k \in 1 .. Len(list) :
                  \E j \in 1 .. Len(list[k]) : i = cut[k - 1] + j

LEMMA FlattenCuts ==
    ASSUME NEW list \in Seq(Seq(Places)), Len(list) > 0
    PROVE  Concatenated(list, FlattenSeq(list))
<1> DEFINE all == FlattenSeq(list)
           n   == Len(list)
<1>1. n \in Nat \ {0} /\ \A k \in 1 .. n : list[k] \in Seq(Places) /\ Len(list[k]) \in Nat
  BY LenProperties, ElementOfSeq
<1>2. PICK g : Running(list, n, g)
  BY <1>1, RunningExists
<1>3. all = g[n]
  BY <1>1, <1>2, FlattenIsRunning
<1>4. \A k \in 1 .. n : g[k] = IF k = 1 THEN list[k] ELSE g[k - 1] \o list[k]
  BY <1>2 DEF Running
<1> HIDE DEF all, n
<1> DEFINE cut == [k \in 0 .. n |-> IF k = 0 THEN 0 ELSE Len(g[k])]
           Good(m) ==
               /\ g[m] \in Seq(Places)
               /\ cut[m] = Len(g[m])
               /\ cut[m] = cut[m - 1] + Len(list[m])
               /\ \A k \in 1 .. m : \A j \in 1 .. Len(list[k]) :
                             cut[k - 1] + j \in 1 .. Len(g[m]) /\ g[m][cut[k - 1] + j] = list[k][j]
               /\ \A i \in 1 .. Len(g[m]) : \E k \in 1 .. m :
                             \E j \in 1 .. Len(list[k]) : i = cut[k - 1] + j
           T == {m \in 1 .. n : Good(m)}
<1>5. 1 \in T
  <2>1. g[1] = list[1] /\ cut[0] = 0 /\ cut[1] = Len(list[1]) /\ 1 \in 1 .. n
    BY <1>1, <1>4
  <2> HIDE DEF cut
  <2> QED BY <1>1, <2>1
<1>6. ASSUME NEW i \in 1 .. n - 1, i \in T PROVE i + 1 \in T
  <2>1. PICK m \in 1 .. n : m = i + 1 /\ m # 1 /\ m - 1 = i /\ m # 0 /\ i \in 1 .. n
    BY <1>1
  <2>2. g[m] = g[i] \o list[m]
    BY <1>4, <2>1
  <2>3. cut[m] = Len(g[m])
    BY <2>1
  <2> HIDE DEF cut
  <2>4. /\ g[i] \in Seq(Places) /\ list[m] \in Seq(Places) /\ cut[i] = Len(g[i])
        /\ \A k \in 1 .. i : \A j \in 1 .. Len(list[k]) :
              cut[k - 1] + j \in 1 .. Len(g[i]) /\ g[i][cut[k - 1] + j] = list[k][j]
        /\ \A p \in 1 .. Len(g[i]) : \E k \in 1 .. i :
              \E j \in 1 .. Len(list[k]) : p = cut[k - 1] + j
    BY <1>1, <1>6, <2>1
  <2> HIDE DEF T, Good
  <2>5. PICK a \in Nat, b \in Nat : a = Len(g[i]) /\ b = Len(list[m])
    BY <2>4, LenProperties
  <2>6. /\ g[m] \in Seq(Places) /\ Len(g[m]) = a + b
        /\ \A p \in 1 .. a + b : g[m][p] = IF p <= a THEN g[i][p] ELSE list[m][p - a]
    <3>2. g[i] \in Seq(Places) /\ list[m] \in Seq(Places)
      BY <2>4
    <3>1. /\ g[i] \o list[m] \in Seq(Places) /\ Len(g[i] \o list[m]) = Len(g[i]) + Len(list[m])
          /\ \A p \in 1 .. Len(g[i]) + Len(list[m]) : (g[i] \o list[m])[p] =
                 IF p <= Len(g[i]) THEN g[i][p] ELSE list[m][p - Len(g[i])]
      BY <3>2, ConcatProperties
    <3> QED BY <2>2, <2>5, <3>1
  <2>10. cut[m] = cut[m - 1] + Len(list[m])
    BY <2>1, <2>3, <2>4, <2>5, <2>6
  <2>7. ASSUME NEW k \in 1 .. m, NEW j \in 1 .. Len(list[k])
        PROVE  cut[k - 1] + j \in 1 .. Len(g[m]) /\ g[m][cut[k - 1] + j] = list[k][j]
    <3>1. CASE k = m
      <4>1. cut[k - 1] + j = a + j /\ j \in 1 .. b
        BY <2>1, <2>4, <2>5, <3>1
      <4>2. a + j \in 1 .. a + b /\ ~(a + j <= a) /\ a + j - a = j
        BY <4>1
      <4>3. g[m][a + j] = list[m][j]
        <5>1. \A p \in 1 .. a + b : ~(p <= a) => g[m][p] = list[m][p - a]
          BY <2>6
        <5>2. PICK p \in 1 .. a + b : p = a + j /\ ~(p <= a) /\ p - a = j
          BY <4>2
        <5> QED BY <5>1, <5>2
      <4> QED BY <2>6, <3>1, <4>1, <4>2, <4>3
    <3>2. CASE k \in 1 .. i
      <4>1. cut[k - 1] + j \in 1 .. a /\ g[i][cut[k - 1] + j] = list[k][j]
        BY <2>4, <2>5, <3>2
      <4>2. cut[k - 1] + j \in 1 .. a + b /\ cut[k - 1] + j <= a
        BY <4>1
      <4> QED BY <2>6, <4>1, <4>2
    <3> QED BY <2>1, <3>1, <3>2
  <2>8. ASSUME NEW p \in 1 .. Len(g[m])
        PROVE  \E k \in 1 .. m : \E j \in 1 .. Len(list[k]) : p = cut[k - 1] + j
    <3>0. p \in 1 .. a + b
      BY <2>6
    <3>1. CASE p <= a
      <4>1. p \in 1 .. Len(g[i])
        BY <2>5, <3>0, <3>1
      <4>2. PICK k \in 1 .. i : \E j \in 1 .. Len(list[k]) : p = cut[k - 1] + j
        BY <2>4, <4>1
      <4>3. k \in 1 .. m
        BY <2>1
      <4> QED BY <4>2, <4>3
    <3>2. CASE ~(p <= a)
      <4>1. p - a \in 1 .. b /\ p = a + (p - a)
        BY <3>0, <3>2
      <4>2. m \in 1 .. m /\ cut[m - 1] = a
        BY <2>1, <2>4, <2>5
      <4> QED BY <2>5, <4>1, <4>2
    <3> QED BY <3>1, <3>2
  <2>9. Good(m)
    BY <2>3, <2>6, <2>7, <2>8, <2>10 DEF Good
  <2> QED BY <2>1, <2>9 DEF T
<1> HIDE DEF T
<1>7. 1 .. n \subseteq T
  BY <1>1, <1>5, <1>6, RunningInduction
<1>8. \A m \in 1 .. n : Good(m)
  BY <1>7 DEF T
<1>9. Cuts(list, cut)
  <2>1. \A k \in 0 .. n : cut[k] \in Nat
    <3>1. \A k \in 1 .. n : g[k] \in Seq(Places)
      BY <1>8
    <3> QED BY <1>1, <3>1, LenProperties
  <2>2. cut \in [0 .. n -> Nat] /\ cut[0] = 0
    BY <1>1, <2>1
  <2> HIDE DEF cut
  <2> QED BY <1>8, <2>2 DEF Cuts, n
<1>10. ASSUME NEW c, Cuts(list, c) PROVE c = cut
  <2> HIDE DEF cut, Good
  <2> QED BY <1>1, <1>9, <1>10, CutsUnique DEF n
<1>11. Good(n)
  <2> HIDE DEF Good
  <2> QED BY <1>1, <1>8
<1>12. /\ all \in Seq(Places) /\ Len(all) = cut[n]
       /\ \A k \in 1 .. n : \A j \in 1 .. Len(list[k]) :
              cut[k - 1] + j \in 1 .. Len(all) /\ all[cut[k - 1] + j] = list[k][j]
       /\ \A i \in 1 .. Len(all) : \E k \in 1 .. n :
              \E j \in 1 .. Len(list[k]) : i = cut[k - 1] + j
  <2> HIDE DEF cut
  <2> QED BY <1>3, <1>11
<1> HIDE DEF cut, Good
<1> HIDE DEF all
<1>13. ASSUME NEW c, Cuts(list, c)
       PROVE  /\ Len(all) = c[Len(list)]
              /\ \A k \in 1 .. Len(list) : \A j \in 1 .. Len(list[k]) :
                     c[k - 1] + j \in 1 .. Len(all) /\ all[c[k - 1] + j] = list[k][j]
              /\ \A i \in 1 .. Len(all) : \E k \in 1 .. Len(list) :
                     \E j \in 1 .. Len(list[k]) : i = c[k - 1] + j
  <2>1. c = cut
    BY <1>10, <1>13
  <2> QED BY <1>12, <2>1, Zenon DEF n
<1>14. Concatenated(list, all)
  BY <1>9, <1>12, <1>13, Zenon DEF Concatenated
<1> QED BY <1>14 DEF all

-----------------------------------------------------------------------------
(***************************************************************************)
(* Texts, tags and fields                                                  *)
(***************************************************************************)

LEMMA MinIs ==
    ASSUME NEW P \in SUBSET Nat, P # {}
    PROVE  Min(P) \in P /\ \A p \in P : Min(P) <= p
<1>1. PICK n \in P : \A m \in P : n <= m
  BY LeastNumber
<1>2. \E x \in P : \A y \in P : x <= y
  BY <1>1
<1> QED BY <1>2 DEF Min

\* The text at p ends before the first zero.
LEMMA StrLenFacts ==
    ASSUME Size \in Nat, NEW p \in 1 .. Size, block[Size] = Zero
    PROVE  /\ StrLen(p) \in Nat /\ p + StrLen(p) \in p .. Size
           /\ block[p + StrLen(p)] = Zero
           /\ \A q \in p .. p + StrLen(p) - 1 : block[q] # Zero
<1> DEFINE ends == {q \in p .. Size : block[q] = Zero}
<1>1. Size \in ends /\ ends \in SUBSET Nat
  OBVIOUS
<1>2. StrLen(p) = Min(ends) - p
  BY <1>1 DEF StrLen
<1>3. Min(ends) \in ends /\ \A q \in ends : Min(ends) <= q
  <2> HIDE DEF ends
  <2> QED BY <1>1, MinIs
<1>4. PICK m \in p .. Size : m = Min(ends) /\ block[m] = Zero /\ \A q \in ends : m <= q
  BY <1>3
<1>5. \A q \in p .. m - 1 : block[q] # Zero
  BY <1>4
<1>6. StrLen(p) = m - p
  BY <1>2, <1>4
<1> HIDE DEF ends
<1>7. StrLen(p) \in Nat /\ p + StrLen(p) = m
  BY <1>6
<1> QED BY <1>4, <1>5, <1>7

LEMMA StrLenIs ==
    ASSUME Size \in Nat, NEW p \in 1 .. Size, block[Size] = Zero, NEW n \in Nat,
           p + n <= Size, block[p + n] = Zero, \A q \in p .. p + n - 1 : block[q] # Zero
    PROVE  StrLen(p) = n
<1>1. /\ StrLen(p) \in Nat /\ block[p + StrLen(p)] = Zero
      /\ \A q \in p .. p + StrLen(p) - 1 : block[q] # Zero
  BY StrLenFacts
<1>2. PICK m \in Nat : m = StrLen(p)
  BY <1>1
<1>3. CASE m < n
  <2>1. p + m \in p .. p + n - 1
    BY <1>3
  <2> QED BY <1>1, <1>2, <2>1
<1>4. CASE n < m
  <2>1. p + n \in p .. p + m - 1
    BY <1>4
  <2> QED BY <1>1, <1>2, <2>1
<1> QED BY <1>2, <1>3, <1>4

LEMMA SkipFacts ==
    ASSUME Size \in Nat, NEW p \in 1 .. Size + 1
    PROVE  /\ SkipZeros(p) \in p .. Size + 1
           /\ \A q \in p .. SkipZeros(p) - 1 : block[q] = Zero
           /\ SkipZeros(p) <= Size => block[SkipZeros(p)] # Zero
<1> DEFINE rest == {q \in p .. Size : block[q] # Zero}
<1>1. CASE rest = {}
  BY <1>1 DEF SkipZeros
<1>2. CASE rest # {}
  <2>1. rest \in SUBSET Nat
    OBVIOUS
  <2>2. SkipZeros(p) = Min(rest)
    BY <1>2 DEF SkipZeros
  <2>3. Min(rest) \in rest /\ \A q \in rest : Min(rest) <= q
    <3> HIDE DEF rest
    <3> QED BY <1>2, <2>1, MinIs
  <2>4. PICK m \in p .. Size : m = SkipZeros(p) /\ block[m] # Zero /\ \A q \in rest : m <= q
    BY <2>2, <2>3
  <2>5. \A q \in p .. m - 1 : block[q] = Zero
    BY <2>4
  <2> QED BY <2>4, <2>5
<1> QED BY <1>1, <1>2

LEMMA SkipIs ==
    ASSUME Size \in Nat, NEW p \in 1 .. Size + 1, NEW q \in p .. Size, block[q] # Zero,
           \A r \in p .. q - 1 : block[r] = Zero
    PROVE  SkipZeros(p) = q
<1>1. PICK m \in p .. Size + 1 : /\ m = SkipZeros(p)
                                 /\ \A r \in p .. m - 1 : block[r] = Zero
                                 /\ m <= Size => block[m] # Zero
  BY SkipFacts
<1>2. CASE m < q
  <2>1. m \in p .. q - 1 /\ m <= Size
    BY <1>2
  <2> QED BY <1>1, <2>1
<1>3. CASE q < m
  <2>1. q \in p .. m - 1
    BY <1>3
  <2> QED BY <1>1, <2>1
<1> QED BY <1>1, <1>2, <1>3

\* The sections, with their places.
LEMMA SectionFacts ==
    /\ Len(Sections) = 16
    /\ \A k \in 1 .. 16 :
        /\ Sections[k] \in Numbers <=> k \in {1, 3, 4, 5, 6, 9}
        /\ Sections[k] \in Texts <=> k \in {10, 11, 12, 13}
        /\ Sections[k] = "sync" <=> k = 2
        /\ Sections[k] = "chan" <=> k = 7
        /\ Sections[k] = "gain" <=> k = 8
        /\ Sections[k] = "alia" <=> k = 14
        /\ Sections[k] = "name" <=> k = 15
        /\ Sections[k] = "cmnt" <=> k = 16
        /\ Sections[k] # Zero
    /\ \A k, l \in 1 .. 16 : Sections[k] = Sections[l] => k = l
BY DEF Sections, Numbers, Texts, Zero

LEMMA FieldFacts ==
    ASSUME NEW h \in Struct
    PROVE  /\ \A tag \in Numbers : h[tag] \in Places
           /\ \A tag \in Texts : h[tag] \in Seq(Places)
           /\ h.sync \in Places \X Places \X Places /\ h.gain \in Seq(Places)
           /\ h.alia \in Seq(Seq(Places)) /\ h.cmnt \in Seq(Places)
BY DEF Struct, Numbers, Texts

FieldNames == {"time", "sync", "addr", "rate", "writ", "lost", "gain", "bitd", "rcid",
               "rtci", "lati", "logi", "alia", "cmnt"}

\* The value v suits the field tag.
Suits(tag, v) ==
    \/ tag \in Numbers /\ v \in Places
    \/ tag \in Texts \cup {"gain", "cmnt"} /\ v \in Seq(Places)
    \/ tag = "sync" /\ v \in Places \X Places \X Places
    \/ tag = "alia" /\ v \in Seq(Seq(Places))

\* g is h with the value v in the field tag.
Becomes(h, g, tag, v) ==
    /\ g = [t \in FieldNames |-> g[t]]
    /\ g[tag] = v
    /\ \A t \in FieldNames : t # tag => h[t] = g[t]

LEMMA StructFields ==
    ASSUME NEW h \in Struct
    PROVE  DOMAIN h = FieldNames /\ h = [t \in FieldNames |-> h[t]]
<1>1. DOMAIN h = FieldNames
  BY DEF Struct, FieldNames
<1> QED BY <1>1 DEF Struct

LEMMA ExceptBecomes ==
    ASSUME NEW h, h \in Struct, NEW g, NEW tag, tag \in FieldNames, NEW v, g = [h EXCEPT ![tag] = v]
    PROVE  Becomes(h, g, tag, v)
<1>1. DOMAIN h = FieldNames
  BY StructFields
<1>2. g[tag] = v /\ \A t \in FieldNames : t # tag => h[t] = g[t]
  BY <1>1
<1>3. g = [t \in FieldNames |-> g[t]]
  BY <1>1
<1> QED BY <1>2, <1>3 DEF Becomes

LEMMA FieldSet ==
    ASSUME NEW h \in Struct, NEW g, NEW tag, NEW v, Suits(tag, v), Becomes(h, g, tag, v)
    PROVE  g \in Struct
<1>0. \/ tag \in Numbers /\ v \in Places
      \/ tag \in Texts \cup {"gain", "cmnt"} /\ v \in Seq(Places)
      \/ tag = "sync" /\ v \in Places \X Places \X Places
      \/ tag = "alia" /\ v \in Seq(Seq(Places))
  BY DEF Suits
<1>1. tag \in FieldNames
  BY <1>0 DEF FieldNames, Numbers, Texts
<1>2. g[tag] = v /\ \A t \in FieldNames : t # tag => g[t] = h[t]
  BY DEF Becomes
<1>3. g = [t \in FieldNames |-> g[t]]
  BY DEF Becomes
<1>4. /\ \A t \in Numbers : g[t] \in Places
      /\ \A t \in Texts : g[t] \in Seq(Places)
      /\ g.sync \in Places \X Places \X Places /\ g.gain \in Seq(Places)
      /\ g.alia \in Seq(Seq(Places)) /\ g.cmnt \in Seq(Places)
  <2>1. \A t \in FieldNames : g[t] = IF t = tag THEN v ELSE h[t]
    BY <1>2
  <2>2. /\ Numbers \subseteq FieldNames /\ Texts \subseteq FieldNames
        /\ {"sync", "gain", "alia", "cmnt"} \subseteq FieldNames
        /\ Numbers \cap Texts = {}
        /\ (Numbers \cup Texts) \cap {"sync", "gain", "alia", "cmnt"} = {}
    BY DEF FieldNames, Numbers, Texts
  <2>3. \A t \in Numbers : g[t] \in Places
    BY <1>0, <2>1, <2>2, FieldFacts
  <2>4. \A t \in Texts : g[t] \in Seq(Places)
    BY <1>0, <2>1, <2>2, FieldFacts
  <2>5. g.sync \in Places \X Places \X Places
    BY <1>0, <2>1, <2>2, FieldFacts
  <2>6. g.gain \in Seq(Places)
    BY <1>0, <2>1, <2>2, FieldFacts
  <2>7. g.alia \in Seq(Seq(Places))
    BY <1>0, <2>1, <2>2, FieldFacts
  <2>8. g.cmnt \in Seq(Places)
    BY <1>0, <2>1, <2>2, FieldFacts
  <2> QED BY <2>3, <2>4, <2>5, <2>6, <2>7, <2>8
<1>5. g \in Struct
  <2> QED BY <1>3, <1>4 DEF Struct, FieldNames, Numbers, Texts
<1> QED BY <1>5

-----------------------------------------------------------------------------
(***************************************************************************)
(* Sequences in the places of a block                                      *)
(***************************************************************************)

\* The sequence s stands in the block b, behind the place p.
StandsIn(b, s, p) == \A j \in 1 .. Len(s) : b[p + j] = s[j]

\* The text s stands there, with the zero that ends it.
Ended(b, s, p) == StandsIn(b, s, p) /\ b[p + Len(s) + 1] = Zero

Blank(b, p, q) == \A r \in p .. q : b[r] = Zero

\* The first m names stand one behind the other, the k-th ends at p + ncut[k].
NamesLie(b, names, p, ncut, m) ==
    \A k \in 1 .. m : /\ ncut[k] = ncut[k - 1] + Len(names[k]) + 1
                      /\ Ended(b, names[k], p + ncut[k - 1])

LEMMA ZeroPlace == Zero \in Places
BY PlacesAssumption

LEMMA StandsConcat ==
    ASSUME NEW b, NEW s \in Seq(Places), NEW t \in Seq(Places), NEW p \in Nat
    PROVE  /\ s \o t \in Seq(Places) /\ Len(s \o t) = Len(s) + Len(t)
           /\ StandsIn(b, s \o t, p) <=> StandsIn(b, s, p) /\ StandsIn(b, t, p + Len(s))
<1>1. PICK m \in Nat, n \in Nat : m = Len(s) /\ n = Len(t)
  BY LenProperties
<1>2. /\ s \o t \in Seq(Places) /\ Len(s \o t) = Len(s) + Len(t)
      /\ \A i \in 1 .. Len(s) + Len(t) :
             (s \o t)[i] = IF i <= Len(s) THEN s[i] ELSE t[i - Len(s)]
  BY ConcatProperties
<1>3. PICK u : u = s \o t
  OBVIOUS
<1>4. Len(u) = m + n /\ \A i \in 1 .. m + n : u[i] = IF i <= m THEN s[i] ELSE t[i - m]
  BY <1>1, <1>2, <1>3
<1>5. ASSUME StandsIn(b, u, p) PROVE StandsIn(b, s, p) /\ StandsIn(b, t, p + m)
  <2>1. \A i \in 1 .. m + n : b[p + i] = u[i]
    BY <1>4, <1>5 DEF StandsIn
  <2>2. ASSUME NEW j \in 1 .. m PROVE b[p + j] = s[j]
    BY <1>4, <2>1
  <2>3. ASSUME NEW j \in 1 .. n PROVE b[(p + m) + j] = t[j]
    <3>1. PICK i \in 1 .. m + n : i = m + j /\ ~(i <= m) /\ i - m = j /\ p + i = (p + m) + j
      OBVIOUS
    <3> QED BY <1>4, <2>1, <3>1
  <2> QED BY <1>1, <2>2, <2>3 DEF StandsIn
<1>6. ASSUME StandsIn(b, s, p), StandsIn(b, t, p + m) PROVE StandsIn(b, u, p)
  <2>1. /\ \A j \in 1 .. m : b[p + j] = s[j]
        /\ \A j \in 1 .. n : b[(p + m) + j] = t[j]
    BY <1>1, <1>6 DEF StandsIn
  <2>2. ASSUME NEW i \in 1 .. m + n PROVE b[p + i] = u[i]
    <3>1. CASE i <= m
      BY <1>4, <2>1, <3>1
    <3>2. CASE ~(i <= m)
      <4>1. PICK j \in 1 .. n : j = i - m /\ p + i = (p + m) + j
        BY <3>2
      <4> QED BY <1>4, <2>1, <3>2, <4>1
    <3> QED BY <3>1, <3>2
  <2> QED BY <1>4, <2>2 DEF StandsIn
<1> QED BY <1>1, <1>2, <1>3, <1>5, <1>6

LEMMA StandsOne ==
    ASSUME NEW b, NEW p \in Nat, NEW x \in Places
    PROVE  StandsIn(b, << x >>, p) <=> b[p + 1] = x
<1>1. PICK u : u = << x >> /\ Len(u) = 1 /\ u[1] = x
  <2>1. Len(<< x >>) = 1 /\ << x >>[1] = x
    OBVIOUS
  <2> QED BY <2>1
<1>2. \A j \in 1 .. 1 : j = 1
  OBVIOUS
<1>3. StandsIn(b, u, p) <=> b[p + 1] = x
  BY <1>1, <1>2 DEF StandsIn
<1> QED BY <1>1, <1>3

LEMMA StandsTwo ==
    ASSUME NEW b, NEW p \in Nat, NEW x \in Places, NEW y \in Places
    PROVE  /\ << x, y >> \in Seq(Places) /\ Len(<< x, y >>) = 2
           /\ StandsIn(b, << x, y >>, p) <=> b[p + 1] = x /\ b[p + 2] = y
<1>1. /\ << x, y >> \in Seq(Places) /\ Len(<< x, y >>) = 2
      /\ << x, y >>[1] = x /\ << x, y >>[2] = y
  OBVIOUS
<1>2. PICK u : u = << x, y >> /\ Len(u) = 2 /\ u[1] = x /\ u[2] = y
  BY <1>1
<1>3. \A j \in 1 .. 2 : j = 1 \/ j = 2
  OBVIOUS
<1>4. StandsIn(b, u, p) <=> b[p + 1] = x /\ b[p + 2] = y
  BY <1>2, <1>3 DEF StandsIn
<1> QED BY <1>1, <1>2, <1>4

LEMMA StandsThree ==
    ASSUME NEW b, NEW p \in Nat, NEW s \in Places \X Places \X Places
    PROVE  /\ s \in Seq(Places) /\ Len(s) = 3
           /\ StandsIn(b, s, p) <=> b[p + 1] = s[1] /\ b[p + 2] = s[2] /\ b[p + 3] = s[3]
<1>1. \A j \in 1 .. 3 : j = 1 \/ j = 2 \/ j = 3
  OBVIOUS
<1>2. s \in Seq(Places) /\ Len(s) = 3
  <2>1. PICK x \in Places, y \in Places, z \in Places : << x, y, z >> = s
    <3>1. s[1] \in Places /\ s[2] \in Places /\ s[3] \in Places /\ << s[1], s[2], s[3] >> = s
      OBVIOUS
    <3> QED BY <3>1
  <2>2. << x, y, z >> \in Seq(Places) /\ Len(<< x, y, z >>) = 3
    OBVIOUS
  <2> QED BY <2>1, <2>2
<1> QED BY <1>1, <1>2 DEF StandsIn

LEMMA StandsZeros ==
    ASSUME NEW b, NEW p \in Nat, NEW n \in Nat
    PROVE  /\ Zeros(n) \in Seq(Places) /\ Len(Zeros(n)) = n
           /\ StandsIn(b, Zeros(n), p) <=> Blank(b, p + 1, p + n)
<1>1. Zeros(n) \in [1 .. n -> Places] /\ \A k \in 1 .. n : Zeros(n)[k] = Zero
  BY ZeroPlace DEF Zeros
<1>2. Zeros(n) \in Seq(Places) /\ Len(Zeros(n)) = n
  BY <1>1, FunctionIsSeq
<1>3. ASSUME \A k \in 1 .. n : b[p + k] = Zero PROVE Blank(b, p + 1, p + n)
  <2>1. ASSUME NEW r \in p + 1 .. p + n PROVE b[r] = Zero
    <3>1. PICK k \in 1 .. n : k = r - p /\ p + k = r
      OBVIOUS
    <3> QED BY <1>3, <3>1
  <2> QED BY <2>1 DEF Blank
<1>4. ASSUME Blank(b, p + 1, p + n) PROVE \A k \in 1 .. n : b[p + k] = Zero
  BY <1>4 DEF Blank
<1> QED BY <1>1, <1>2, <1>3, <1>4 DEF StandsIn

LEMMA StandsText ==
    ASSUME NEW b, NEW p \in Nat, NEW s \in Seq(Places)
    PROVE  /\ s \o << Zero >> \in Seq(Places) /\ Len(s \o << Zero >>) = Len(s) + 1
           /\ StandsIn(b, s \o << Zero >>, p) <=> Ended(b, s, p)
<1>1. Len(s) \in Nat /\ Zero \in Places /\ p + Len(s) \in Nat
  <2>1. Len(s) \in Nat
    BY LenProperties
  <2> QED BY <2>1, ZeroPlace
<1>2. << Zero >> \in Seq(Places) /\ Len(<< Zero >>) = 1
  <2>1. PICK z \in Places : z = Zero
    BY <1>1
  <2>2. << z >> \in Seq(Places) /\ Len(<< z >>) = 1
    OBVIOUS
  <2> QED BY <2>1, <2>2
<1>3. StandsIn(b, << Zero >>, p + Len(s)) <=> b[p + Len(s) + 1] = Zero
  <2>1. PICK q \in Nat, z \in Places : q = p + Len(s) /\ z = Zero
    BY <1>1
  <2>2. StandsIn(b, << z >>, q) <=> b[q + 1] = z
    BY StandsOne
  <2> QED BY <2>1, <2>2
<1> QED BY <1>2, <1>3, StandsConcat DEF Ended

Terminated(names) == [n \in 1 .. Len(names) |-> names[n] \o << Zero >>]

NamesStand(b, p, names, all) ==
    /\ all \in Seq(Places)
    /\ StandsIn(b, all, p) => \E ncut \in [0 .. Len(names) -> Nat] :
           ncut[0] = 0 /\ NamesLie(b, names, p, ncut, Len(names)) /\ ncut[Len(names)] = Len(all)
    /\ \A ncut \in [0 .. Len(names) -> Nat] :
           ncut[0] = 0 /\ NamesLie(b, names, p, ncut, Len(names)) =>
               StandsIn(b, all, p) /\ ncut[Len(names)] = Len(all)

LEMMA StandsNames ==
    ASSUME NEW b, NEW p \in Nat, NEW names \in Seq(Seq(Places)), Len(names) > 0
    PROVE  NamesStand(b, p, names, FlattenSeq(Terminated(names)))
<1> DEFINE n == Len(names)
           list == Terminated(names)
           all == FlattenSeq(list)
<1>1. n \in Nat \ {0} /\ \A k \in 1 .. n : names[k] \in Seq(Places)
  BY LenProperties, ElementOfSeq
<1>2. \A k \in 1 .. n : list[k] = names[k] \o << Zero >>
  BY DEF Terminated
<1>3. \A k \in 1 .. n : /\ list[k] \in Seq(Places) /\ Len(list[k]) = Len(names[k]) + 1
                        /\ Len(names[k]) \in Nat
                        /\ \A r \in Nat : StandsIn(b, list[k], r) <=> Ended(b, names[k], r)
  <2>1. ASSUME NEW k \in 1 .. n
        PROVE  /\ list[k] \in Seq(Places) /\ Len(list[k]) = Len(names[k]) + 1
               /\ Len(names[k]) \in Nat
               /\ \A r \in Nat : StandsIn(b, list[k], r) <=> Ended(b, names[k], r)
    <3>1. names[k] \in Seq(Places) /\ list[k] = names[k] \o << Zero >>
      BY <1>1, <1>2
    <3>2. PICK s \in Seq(Places) : s = names[k]
      BY <3>1
    <3>3. PICK l : l = list[k] /\ l = s \o << Zero >>
      BY <3>1, <3>2
    <3>4. Len(s) \in Nat
      BY LenProperties
    <3>5. s \o << Zero >> \in Seq(Places) /\ Len(s \o << Zero >>) = Len(s) + 1
      BY StandsText
    <3>6. \A r \in Nat : StandsIn(b, s \o << Zero >>, r) <=> Ended(b, s, r)
      BY StandsText
    <3> QED BY <3>2, <3>3, <3>4, <3>5, <3>6
  <2> QED BY <2>1
<1>4. list \in Seq(Seq(Places)) /\ Len(list) = n
  <2>1. list \in [1 .. n -> Seq(Places)]
    BY <1>3 DEF Terminated
  <2> QED BY <1>1, <2>1, FunctionIsSeq
<1>5. /\ all \in Seq(Places)
      /\ \E cut : Cuts(list, cut)
      /\ \A cut : Cuts(list, cut) =>
             /\ Len(all) = cut[n]
             /\ \A k \in 1 .. n : \A j \in 1 .. Len(list[k]) :
                    all[cut[k - 1] + j] = list[k][j]
             /\ \A i \in 1 .. Len(all) : \E k \in 1 .. n :
                    \E j \in 1 .. Len(list[k]) : i = cut[k - 1] + j
  <2> HIDE DEF list, n
  <2>1. Concatenated(list, FlattenSeq(list))
    BY <1>1, <1>4, FlattenCuts
  <2> QED BY <1>4, <2>1 DEF Concatenated
<1>6. ASSUME NEW c, Cuts(list, c)
      PROVE  /\ c \in [0 .. n -> Nat] /\ c[0] = 0
             /\ \A k \in 1 .. n : c[k] = c[k - 1] + Len(names[k]) + 1
             /\ \A k \in 1 .. n : c[k] \in Nat /\ c[k - 1] \in Nat
  <2>1. /\ c \in [0 .. n -> Nat] /\ c[0] = 0
        /\ \A k \in 1 .. n : c[k] = c[k - 1] + Len(list[k])
    BY <1>4, <1>6 DEF Cuts
  <2>2. \A k \in 1 .. n : c[k] \in Nat /\ c[k - 1] \in Nat
    <3>1. \A k \in 1 .. n : k \in 0 .. n /\ k - 1 \in 0 .. n
      BY <1>1
    <3> QED BY <2>1, <3>1
  <2> HIDE DEF list, n
  <2>3. ASSUME NEW k \in 1 .. n PROVE c[k] = c[k - 1] + Len(names[k]) + 1
    <3>1. PICK l \in Nat : l = Len(names[k]) /\ Len(list[k]) = l + 1
      BY <1>3
    <3>2. PICK u \in Nat : u = c[k - 1]
      BY <2>2
    <3> QED BY <2>1, <3>1, <3>2
  <2> QED BY <2>1, <2>2, <2>3
<1> HIDE DEF list, all, n
<1>7. ASSUME StandsIn(b, all, p)
      PROVE  \E ncut \in [0 .. n -> Nat] :
                 ncut[0] = 0 /\ NamesLie(b, names, p, ncut, n) /\ ncut[n] = Len(all)
  <2>1. PICK c : Cuts(list, c)
    BY <1>5
  <2>2. /\ Len(all) = c[n]
        /\ \A k \in 1 .. n : \A j \in 1 .. Len(list[k]) : all[c[k - 1] + j] = list[k][j]
    BY <1>5, <2>1
  <2>3. /\ c \in [0 .. n -> Nat] /\ c[0] = 0
        /\ \A k \in 1 .. n : c[k] = c[k - 1] + Len(names[k]) + 1
        /\ \A k \in 1 .. n : c[k] \in Nat /\ c[k - 1] \in Nat
    BY <1>6, <2>1
  <2>4. \A i \in 1 .. n : c[i] <= Len(all)
    <3> DEFINE T == {i \in 1 .. n : c[n - i + 1] <= c[n]}
    <3>1. 1 \in T
      BY <1>1, <2>3
    <3>2. ASSUME NEW i \in 1 .. n - 1, i \in T PROVE i + 1 \in T
      <4>1. PICK k \in 1 .. n : k = n - i + 1 /\ k - 1 \in 1 .. n /\ k - 1 = n - (i + 1) + 1
        BY <1>1
      <4>2. c[k] <= c[n] /\ c[k] = c[k - 1] + Len(names[k]) + 1 /\ Len(names[k]) \in Nat
        BY <1>3, <2>3, <3>2, <4>1
      <4>3. c[k - 1] \in Nat /\ c[n] \in Nat
        BY <1>1, <2>3, <4>1
      <4>4. c[k - 1] <= c[n]
        BY <4>2, <4>3
      <4> QED BY <1>1, <4>1, <4>4
    <3> HIDE DEF T
    <3>3. 1 .. n \subseteq T
      BY <1>1, <3>1, <3>2, RunningInduction
    <3>4. \A i \in 1 .. n : n - i + 1 \in 1 .. n /\ n - (n - i + 1) + 1 = i
      BY <1>1
    <3>5. ASSUME NEW i \in 1 .. n PROVE c[i] <= c[n]
      <4>1. n - i + 1 \in T
        BY <3>3, <3>4
      <4>2. c[n - (n - i + 1) + 1] <= c[n]
        BY <4>1 DEF T
      <4> QED BY <3>4, <4>2
    <3> QED BY <2>2, <3>5
  <2>5. ASSUME NEW k \in 1 .. n PROVE Ended(b, names[k], p + c[k - 1])
    <3>0. PICK m \in Nat : m = Len(names[k]) /\ Len(list[k]) = m + 1
      BY <1>3
    <3>7. PICK z \in Nat : z = c[k - 1] /\ c[k] = z + m + 1
      BY <2>3, <3>0
    <3>8. z + m + 1 = z + (m + 1) /\ m + 1 \in Nat
      OBVIOUS
    <3>1. PICK l \in Nat : l = Len(list[k]) /\ c[k] = c[k - 1] + l
      <4>1. PICK l \in Nat : l = m + 1
        OBVIOUS
      <4>2. l = Len(list[k]) /\ c[k] = c[k - 1] + l
        BY <3>0, <3>7, <3>8, <4>1
      <4> QED BY <4>2
    <3>2. PICK u \in Nat, v \in Nat : u = c[k - 1] /\ v = Len(all) /\ u + l <= v
      <4>1. Len(all) \in Nat
        BY <1>5, LenProperties
      <4> QED BY <2>3, <2>4, <3>1, <4>1
    <3>3. \A i \in 1 .. v : b[p + i] = all[i]
      BY <1>7, <3>2 DEF StandsIn
    <3>4. ASSUME NEW j \in 1 .. l PROVE b[(p + u) + j] = list[k][j]
      <4>1. PICK i \in 1 .. v : i = u + j /\ p + i = (p + u) + j
        <5>1. u + j \in 1 .. v /\ p + (u + j) = (p + u) + j
          BY <3>2
        <5> QED BY <5>1
      <4> QED BY <2>2, <3>1, <3>2, <3>3, <4>1
    <3>5. StandsIn(b, list[k], p + u)
      BY <3>1, <3>4 DEF StandsIn
    <3>6. p + u \in Nat
      OBVIOUS
    <3> QED BY <1>3, <3>2, <3>5, <3>6
  <2>6. NamesLie(b, names, p, c, n)
    BY <2>3, <2>5 DEF NamesLie
  <2> QED BY <2>2, <2>3, <2>6
<1>8. ASSUME NEW c \in [0 .. n -> Nat], c[0] = 0, NamesLie(b, names, p, c, n)
      PROVE  StandsIn(b, all, p) /\ c[n] = Len(all)
  <2>1. \A k \in 1 .. n : c[k - 1] \in Nat
    <3>1. \A k \in 1 .. n : k - 1 \in 0 .. n
      BY <1>1
    <3> QED BY <3>1
  <2>2. ASSUME NEW k \in 1 .. n PROVE c[k] = c[k - 1] + Len(list[k])
    <3>1. PICK l \in Nat : l = Len(names[k]) /\ Len(list[k]) = l + 1
      BY <1>3
    <3>2. PICK u \in Nat : u = c[k - 1]
      BY <2>1
    <3>3. c[k] = c[k - 1] + Len(names[k]) + 1
      BY <1>8 DEF NamesLie
    <3>4. c[k] = u + l + 1
      BY <3>1, <3>2, <3>3
    <3>5. u + l + 1 = u + (l + 1)
      OBVIOUS
    <3> QED BY <3>1, <3>2, <3>4, <3>5
  <2>3. Cuts(list, c)
    BY <1>4, <1>8, <2>2 DEF Cuts
  <2>4. /\ Len(all) = c[n]
        /\ \A k \in 1 .. n : \A j \in 1 .. Len(list[k]) : all[c[k - 1] + j] = list[k][j]
        /\ \A i \in 1 .. Len(all) : \E k \in 1 .. n :
               \E j \in 1 .. Len(list[k]) : i = c[k - 1] + j
    BY <1>5, <2>3
  <2>5. ASSUME NEW i \in 1 .. Len(all) PROVE b[p + i] = all[i]
    <3>1. PICK k \in 1 .. n : \E j \in 1 .. Len(list[k]) : i = c[k - 1] + j
      BY <2>4
    <3>2. PICK l \in Nat, u \in Nat : l = Len(list[k]) /\ u = c[k - 1]
      <4>1. Len(list[k]) \in Nat
        BY <1>3, LenProperties
      <4> QED BY <2>1, <4>1
    <3>3. PICK j \in 1 .. l : i = u + j
      BY <3>1, <3>2
    <3>4. p + u \in Nat /\ (p + u) + j = p + i
      BY <3>3
    <3>5. StandsIn(b, list[k], p + u)
      <4>1. Ended(b, names[k], p + u)
        BY <1>8, <3>2 DEF NamesLie
      <4> QED BY <1>3, <3>4, <4>1
    <3>6. b[(p + u) + j] = list[k][j]
      BY <3>2, <3>5 DEF StandsIn
    <3>7. all[u + j] = list[k][j]
      BY <2>4, <3>2
    <3> QED BY <3>3, <3>4, <3>6, <3>7
  <2> QED BY <2>4, <2>5 DEF StandsIn
<1>9. NamesStand(b, p, names, all)
  BY <1>5, <1>7, <1>8 DEF n, NamesStand
<1> QED BY <1>9 DEF list, all

-----------------------------------------------------------------------------
(***************************************************************************)
(* What the sections say of the places                                     *)
(***************************************************************************)

\* The section tag of h, in a header of n channels, stands from p + 1 to q.
Lies(b, h, n, pad, tag, p, q) ==
    /\ tag \notin {"sync", "name"} => b[p + 1] = tag
    /\ tag \in Numbers => b[p + 2] = h[tag] /\ q = p + 2
    /\ tag = "sync" => /\ q = p + 3
                       /\ \/ StandsIn(b, h.sync, p) /\ h.sync[1] # "none"
                          \/ b[p + 1] \notin {"sync", "skew"} /\ h.sync[1] = "none"
    /\ tag = "chan" => b[p + 2] = Counts[n] /\ q = p + 2
    /\ tag = "gain" => StandsIn(b, h.gain, p + 1) /\ q = p + 1 + Len(h.gain)
    /\ tag \in Texts => /\ Ended(b, h[tag], p + 1)
                        /\ q = p + 1 + Len(h[tag]) + 1 + pad[tag]
                        /\ Blank(b, p + 1 + Len(h[tag]) + 2, q)
    /\ tag = "alia" => q = p + 1
    /\ tag = "name" => \E ncut \in [0 .. n -> Nat] :
                           /\ ncut[0] = 0 /\ NamesLie(b, h.alia, p, ncut, n)
                           /\ q = p + ncut[n] + pad[tag]
                           /\ Blank(b, p + ncut[n] + 1, q)
    /\ tag = "cmnt" => Ended(b, h.cmnt, p + 1) /\ q = p + 1 + Len(h.cmnt) + 1

LEMMA PartOfNumber ==
    ASSUME NEW h, NEW pad, NEW tag \in Numbers
    PROVE  Part(h, pad, tag) = << tag, h[tag] >>
<1>1. tag \notin {"sync", "name", "chan", "gain", "alia", "cmnt"} /\ tag \notin Texts
  BY DEF Numbers, Texts
<1> QED BY <1>1 DEF Part

LEMMA PartOfText ==
    ASSUME NEW h, NEW pad, NEW tag \in Texts
    PROVE  Part(h, pad, tag) = << tag >> \o h[tag] \o Zeros(1 + pad[tag])
<1>1. tag \notin {"sync", "name", "chan", "gain", "alia", "cmnt"} /\ tag \notin Numbers
  BY DEF Numbers, Texts
<1> QED BY <1>1 DEF Part

LEMMA PartOfOther ==
    ASSUME NEW h, NEW pad
    PROVE  /\ Part(h, pad, "sync") = IF h.sync[1] = "none" THEN Zeros(3) ELSE h.sync
           /\ Part(h, pad, "chan") = << "chan", Counts[Len(h.alia)] >>
           /\ Part(h, pad, "gain") = << "gain" >> \o h.gain
           /\ Part(h, pad, "alia") = << "alia" >>
           /\ Part(h, pad, "name") =
                  FlattenSeq(Terminated(h.alia)) \o Zeros(pad["name"])
           /\ Part(h, pad, "cmnt") = << "cmnt" >> \o h.cmnt \o << Zero >>
<1>0. \A tag \in {"sync", "name", "chan", "gain", "alia", "cmnt"} :
          tag \notin Numbers /\ tag \notin Texts
  BY DEF Numbers, Texts
<1>1. Part(h, pad, "sync") = IF h.sync[1] = "none" THEN Zeros(3) ELSE h.sync
  BY <1>0 DEF Part
<1>2. Part(h, pad, "chan") = << "chan", Counts[Len(h.alia)] >>
  BY <1>0 DEF Part
<1>3. Part(h, pad, "gain") = << "gain" >> \o h.gain
  BY <1>0 DEF Part
<1>4. Part(h, pad, "alia") = << "alia" >>
  BY <1>0 DEF Part
<1>5. Part(h, pad, "name") = FlattenSeq(Terminated(h.alia)) \o Zeros(pad["name"])
  BY <1>0 DEF Part, Terminated
<1>6. Part(h, pad, "cmnt") = << "cmnt" >> \o h.cmnt \o << Zero >>
  BY <1>0 DEF Part
<1> QED BY <1>1, <1>2, <1>3, <1>4, <1>5, <1>6

\* A sequence stands where the section does, but for the time of synchronisation.
Covers(b, h, n, pad, tag, p, q, s) ==
    /\ s \in Seq(Places) /\ Len(s) \in Nat \ {0}
    /\ Lies(b, h, n, pad, tag, p, q) <=>
           /\ q = p + Len(s)
           /\ StandsIn(b, s, p) \/ /\ tag = "sync" /\ h.sync[1] = "none"
                                   /\ b[p + 1] \notin {"sync", "skew"}

LEMMA TaggedStands ==
    ASSUME NEW b, NEW p \in Nat, NEW tag \in Places, NEW s \in Seq(Places)
    PROVE  /\ << tag >> \o s \in Seq(Places) /\ Len(<< tag >> \o s) = 1 + Len(s)
           /\ StandsIn(b, << tag >> \o s, p) <=> b[p + 1] = tag /\ StandsIn(b, s, p + 1)
<1>1. PICK t \in Seq(Places) : t = << tag >> /\ Len(t) = 1
  <2>1. << tag >> \in Seq(Places) /\ Len(<< tag >>) = 1
    OBVIOUS
  <2> QED BY <2>1
<1>2. StandsIn(b, t, p) <=> b[p + 1] = tag
  BY <1>1, StandsOne
<1>3. /\ t \o s \in Seq(Places) /\ Len(t \o s) = Len(t) + Len(s)
      /\ StandsIn(b, t \o s, p) <=> StandsIn(b, t, p) /\ StandsIn(b, s, p + Len(t))
  BY StandsConcat
<1> QED BY <1>1, <1>2, <1>3

LEMMA NumberCovers ==
    ASSUME NEW b, NEW h \in Struct, NEW n, NEW pad, NEW p \in Nat, NEW q \in Nat,
           NEW tag \in Numbers, tag \in Places
    PROVE  Covers(b, h, n, pad, tag, p, q, Part(h, pad, tag))
<1>1. tag \notin {"sync", "name", "chan", "gain", "alia", "cmnt"} /\ tag \notin Texts
  BY DEF Numbers, Texts
<1>2. Lies(b, h, n, pad, tag, p, q) <=> b[p + 1] = tag /\ b[p + 2] = h[tag] /\ q = p + 2
  BY <1>1 DEF Lies
<1>3. PICK x \in Places : x = h[tag]
  BY FieldFacts
<1>4. PICK s : s = Part(h, pad, tag) /\ s = << tag, x >>
  <2>1. Part(h, pad, tag) = << tag, h[tag] >>
    BY PartOfNumber
  <2> QED BY <1>3, <2>1
<1>5. /\ << tag, x >> \in Seq(Places) /\ Len(<< tag, x >>) = 2
      /\ StandsIn(b, << tag, x >>, p) <=> b[p + 1] = tag /\ b[p + 2] = x
  BY StandsTwo
<1>6. Covers(b, h, n, pad, tag, p, q, s)
  BY <1>1, <1>2, <1>3, <1>4, <1>5 DEF Covers
<1> QED BY <1>4, <1>6

LEMMA SyncCovers ==
    ASSUME NEW b, NEW h \in Struct, NEW n, NEW pad, NEW p \in Nat, NEW q \in Nat
    PROVE  Covers(b, h, n, pad, "sync", p, q, Part(h, pad, "sync"))
<1>1. Lies(b, h, n, pad, "sync", p, q) <=>
          /\ q = p + 3
          /\ \/ StandsIn(b, h.sync, p) /\ h.sync[1] # "none"
             \/ b[p + 1] \notin {"sync", "skew"} /\ h.sync[1] = "none"
  BY DEF Lies, Numbers, Texts
<1>2. CASE h.sync[1] = "none"
  <2>1. PICK s : s = Part(h, pad, "sync") /\ s = Zeros(3)
    BY <1>2, PartOfOther
  <2>2. /\ Zeros(3) \in Seq(Places) /\ Len(Zeros(3)) = 3
        /\ StandsIn(b, Zeros(3), p) <=> Blank(b, p + 1, p + 3)
    BY StandsZeros
  <2>3. Blank(b, p + 1, p + 3) => b[p + 1] \notin {"sync", "skew"}
    <3>1. p + 1 \in p + 1 .. p + 3
      OBVIOUS
    <3> QED BY <3>1 DEF Blank, Zero
  <2>5. Lies(b, h, n, pad, "sync", p, q) <=>
            q = p + 3 /\ b[p + 1] \notin {"sync", "skew"}
    BY <1>1, <1>2
  <2>6. StandsIn(b, s, p) => b[p + 1] \notin {"sync", "skew"}
    BY <2>1, <2>2, <2>3
  <2>7. s \in Seq(Places) /\ Len(s) = 3
    BY <2>1, <2>2
  <2>8. p + Len(s) = p + 3 /\ Len(s) \in Nat \ {0}
    BY <2>7
  <2>9. Lies(b, h, n, pad, "sync", p, q) <=>
           /\ q = p + Len(s)
           /\ StandsIn(b, s, p) \/ /\ h.sync[1] = "none"
                                   /\ b[p + 1] \notin {"sync", "skew"}
    BY <1>2, <2>5, <2>6, <2>8
  <2>10. Covers(b, h, n, pad, "sync", p, q, s)
    BY <2>7, <2>8, <2>9 DEF Covers
  <2> QED BY <2>1, <2>10
<1>3. CASE h.sync[1] # "none"
  <2>1. Part(h, pad, "sync") = h.sync
    BY <1>3, PartOfOther
  <2>2. h.sync \in Places \X Places \X Places
    BY FieldFacts
  <2>3. h.sync \in Seq(Places) /\ Len(h.sync) = 3
    BY <2>2, StandsThree
  <2>4. Lies(b, h, n, pad, "sync", p, q) <=> q = p + 3 /\ StandsIn(b, h.sync, p)
    BY <1>1, <1>3
  <2>5. p + Len(h.sync) = p + 3 /\ Len(h.sync) \in Nat \ {0}
    BY <2>3
  <2>6. Lies(b, h, n, pad, "sync", p, q) <=>
           /\ q = p + Len(h.sync)
           /\ StandsIn(b, h.sync, p) \/ /\ h.sync[1] = "none"
                                        /\ b[p + 1] \notin {"sync", "skew"}
    BY <1>3, <2>4, <2>5
  <2>7. Covers(b, h, n, pad, "sync", p, q, h.sync)
    BY <2>3, <2>5, <2>6 DEF Covers
  <2> QED BY <2>1, <2>7
<1> QED BY <1>2, <1>3

LEMMA CountCovers ==
    ASSUME NEW b, NEW h \in Struct, NEW n, n = Len(h.alia), Counts[n] \in Places,
           NEW pad, NEW p \in Nat, NEW q \in Nat, "chan" \in Places
    PROVE  Covers(b, h, n, pad, "chan", p, q, Part(h, pad, "chan"))
<1>1. PICK tag \in Places, x \in Places : tag = "chan" /\ x = Counts[n]
  OBVIOUS
<1>2. Lies(b, h, n, pad, tag, p, q) <=> b[p + 1] = tag /\ b[p + 2] = x /\ q = p + 2
  BY <1>1 DEF Lies, Numbers, Texts
<1>3. PICK s : s = Part(h, pad, tag) /\ s = << tag, x >>
  BY <1>1, PartOfOther
<1>4. /\ << tag, x >> \in Seq(Places) /\ Len(<< tag, x >>) = 2
      /\ StandsIn(b, << tag, x >>, p) <=> b[p + 1] = tag /\ b[p + 2] = x
  BY StandsTwo
<1>5. /\ s \in Seq(Places) /\ Len(s) = 2 /\ p + Len(s) = p + 2 /\ Len(s) \in Nat \ {0}
      /\ StandsIn(b, s, p) <=> b[p + 1] = tag /\ b[p + 2] = x
  BY <1>3, <1>4
<1>6. Lies(b, h, n, pad, tag, p, q) <=> q = p + Len(s) /\ StandsIn(b, s, p)
  BY <1>2, <1>5
<1>7. tag # "sync"
  BY <1>1
<1>8. Covers(b, h, n, pad, tag, p, q, s)
  BY <1>5, <1>6, <1>7 DEF Covers
<1> QED BY <1>1, <1>3, <1>8

LEMMA GainCovers ==
    ASSUME NEW b, NEW h \in Struct, NEW n, NEW pad, NEW p \in Nat, NEW q \in Nat,
           "gain" \in Places
    PROVE  Covers(b, h, n, pad, "gain", p, q, Part(h, pad, "gain"))
<1>1. PICK tag \in Places, v \in Seq(Places) : tag = "gain" /\ v = h.gain
  BY FieldFacts
<1>2. PICK l \in Nat : l = Len(v)
  BY LenProperties
<1>3. Lies(b, h, n, pad, tag, p, q) <=>
          b[p + 1] = tag /\ StandsIn(b, v, p + 1) /\ q = p + 1 + l
  BY <1>1, <1>2 DEF Lies, Numbers, Texts
<1>4. PICK s : s = Part(h, pad, tag) /\ s = << tag >> \o v
  BY <1>1, PartOfOther
<1>5. /\ << tag >> \o v \in Seq(Places) /\ Len(<< tag >> \o v) = 1 + Len(v)
      /\ StandsIn(b, << tag >> \o v, p) <=> b[p + 1] = tag /\ StandsIn(b, v, p + 1)
  BY TaggedStands
<1>6. /\ s \in Seq(Places) /\ Len(s) = 1 + l /\ p + Len(s) = p + 1 + l
      /\ StandsIn(b, s, p) <=> b[p + 1] = tag /\ StandsIn(b, v, p + 1)
  <2>1. p + (1 + l) = p + 1 + l
    OBVIOUS
  <2> QED BY <1>2, <1>4, <1>5, <2>1
<1>7. Covers(b, h, n, pad, tag, p, q, s)
  BY <1>1, <1>3, <1>6 DEF Covers
<1> QED BY <1>1, <1>4, <1>7

LEMMA TextCovers ==
    ASSUME NEW b, NEW h \in Struct, NEW n, NEW pad, NEW p \in Nat, NEW q \in Nat,
           NEW tag \in Texts, tag \in Places, pad[tag] \in Nat
    PROVE  Covers(b, h, n, pad, tag, p, q, Part(h, pad, tag))
<1>0. tag \notin {"sync", "name", "chan", "gain", "alia", "cmnt"} /\ tag \notin Numbers
  BY DEF Numbers, Texts
<1>1. PICK v \in Seq(Places), z \in Nat : v = h[tag] /\ z = pad[tag]
  BY FieldFacts
<1>2. PICK l \in Nat : l = Len(v)
  BY LenProperties
<1>3. Lies(b, h, n, pad, tag, p, q) <=>
          /\ b[p + 1] = tag /\ Ended(b, v, p + 1)
          /\ q = p + 1 + l + 1 + z /\ Blank(b, p + 1 + l + 2, q)
  BY <1>0, <1>1, <1>2 DEF Lies
<1>4. PICK s, t, u : /\ t = << tag >> \o v /\ u = Zeros(1 + z)
                     /\ s = Part(h, pad, tag) /\ s = t \o u
  <2>1. Part(h, pad, tag) = << tag >> \o h[tag] \o Zeros(1 + pad[tag])
    BY PartOfText
  <2>2. Part(h, pad, tag) = (<< tag >> \o v) \o Zeros(1 + z)
    BY <1>1, <2>1
  <2> QED BY <2>2
<1>5. /\ t \in Seq(Places) /\ Len(t) = 1 + l
      /\ StandsIn(b, t, p) <=> b[p + 1] = tag /\ StandsIn(b, v, p + 1)
  <2>1. /\ << tag >> \o v \in Seq(Places) /\ Len(<< tag >> \o v) = 1 + Len(v)
        /\ StandsIn(b, << tag >> \o v, p) <=> b[p + 1] = tag /\ StandsIn(b, v, p + 1)
    BY TaggedStands
  <2> QED BY <1>2, <1>4, <2>1
<1>6. /\ u \in Seq(Places) /\ Len(u) = 1 + z
      /\ StandsIn(b, u, p + (1 + l)) <=> Blank(b, p + (1 + l) + 1, p + (1 + l) + (1 + z))
  <2>1. PICK r \in Nat, m \in Nat : r = p + (1 + l) /\ m = 1 + z
    OBVIOUS
  <2>2. /\ Zeros(m) \in Seq(Places) /\ Len(Zeros(m)) = m
        /\ StandsIn(b, Zeros(m), r) <=> Blank(b, r + 1, r + m)
    BY StandsZeros
  <2> QED BY <1>4, <2>1, <2>2
<1>7. /\ s \in Seq(Places) /\ Len(s) = Len(t) + Len(u)
      /\ StandsIn(b, s, p) <=> StandsIn(b, t, p) /\ StandsIn(b, u, p + Len(t))
  <2>1. /\ t \o u \in Seq(Places) /\ Len(t \o u) = Len(t) + Len(u)
        /\ StandsIn(b, t \o u, p) <=> StandsIn(b, t, p) /\ StandsIn(b, u, p + Len(t))
    BY <1>5, <1>6, StandsConcat
  <2> QED BY <1>4, <2>1
<1>8. Blank(b, p + (1 + l) + 1, p + (1 + l) + (1 + z)) <=>
          /\ b[(p + 1) + l + 1] = Zero
          /\ Blank(b, p + 1 + l + 2, p + 1 + l + 1 + z)
  <2>1. PICK r \in Nat : r = p + 1 + l
    OBVIOUS
  <2>2. /\ p + (1 + l) + 1 = r + 1 /\ p + (1 + l) + (1 + z) = r + 1 + z
        /\ (p + 1) + l + 1 = r + 1 /\ p + 1 + l + 2 = r + 2 /\ p + 1 + l + 1 + z = r + 1 + z
    BY <2>1
  <2>3. Blank(b, r + 1, r + 1 + z) <=> b[r + 1] = Zero /\ Blank(b, r + 2, r + 1 + z)
    <3>1. \A i \in r + 1 .. r + 1 + z : i = r + 1 \/ i \in r + 2 .. r + 1 + z
      OBVIOUS
    <3>2. r + 1 \in r + 1 .. r + 1 + z /\ \A i \in r + 2 .. r + 1 + z : i \in r + 1 .. r + 1 + z
      OBVIOUS
    <3> QED BY <3>1, <3>2 DEF Blank
  <2> QED BY <2>2, <2>3
<1>9. /\ Len(s) = 1 + l + (1 + z) /\ p + Len(s) = p + 1 + l + 1 + z /\ Len(s) \in Nat \ {0}
  <2>1. Len(s) = 1 + l + (1 + z)
    BY <1>5, <1>6, <1>7
  <2> QED BY <2>1
<1>10. Ended(b, v, p + 1) <=> StandsIn(b, v, p + 1) /\ b[(p + 1) + l + 1] = Zero
  BY <1>2 DEF Ended
<1>11. StandsIn(b, s, p) <=> /\ b[p + 1] = tag /\ Ended(b, v, p + 1)
                             /\ Blank(b, p + 1 + l + 2, p + 1 + l + 1 + z)
  BY <1>5, <1>6, <1>7, <1>8, <1>10
<1>12. Covers(b, h, n, pad, tag, p, q, s)
  BY <1>0, <1>3, <1>7, <1>9, <1>11 DEF Covers
<1> QED BY <1>4, <1>12

LEMMA AliasCovers ==
    ASSUME NEW b, NEW h, NEW n, NEW pad, NEW p \in Nat, NEW q \in Nat, "alia" \in Places
    PROVE  Covers(b, h, n, pad, "alia", p, q, Part(h, pad, "alia"))
<1>1. PICK tag \in Places : tag = "alia"
  OBVIOUS
<1>2. Lies(b, h, n, pad, tag, p, q) <=> b[p + 1] = tag /\ q = p + 1
  BY <1>1 DEF Lies, Numbers, Texts
<1>3. PICK s \in Seq(Places) : s = << tag >> /\ Len(s) = 1
  <2>1. << tag >> \in Seq(Places) /\ Len(<< tag >>) = 1
    OBVIOUS
  <2> QED BY <2>1
<1>4. Part(h, pad, tag) = s
  BY <1>1, <1>3, PartOfOther
<1>5. StandsIn(b, s, p) <=> b[p + 1] = tag
  BY <1>3, StandsOne
<1>6. p + Len(s) = p + 1 /\ Len(s) \in Nat \ {0}
  BY <1>3
<1>7. Lies(b, h, n, pad, tag, p, q) <=> q = p + Len(s) /\ StandsIn(b, s, p)
  BY <1>2, <1>5, <1>6
<1>8. tag # "sync"
  BY <1>1
<1>9. Covers(b, h, n, pad, tag, p, q, s)
  BY <1>6, <1>7, <1>8 DEF Covers
<1> QED BY <1>1, <1>4, <1>9

LEMMA CommentCovers ==
    ASSUME NEW b, NEW h \in Struct, NEW n, NEW pad, NEW p \in Nat, NEW q \in Nat,
           "cmnt" \in Places
    PROVE  Covers(b, h, n, pad, "cmnt", p, q, Part(h, pad, "cmnt"))
<1>1. PICK tag \in Places, v \in Seq(Places) : tag = "cmnt" /\ v = h.cmnt
  BY FieldFacts
<1>2. PICK l \in Nat : l = Len(v)
  BY LenProperties
<1>3. Lies(b, h, n, pad, tag, p, q) <=>
          b[p + 1] = tag /\ Ended(b, v, p + 1) /\ q = p + 1 + l + 1
  BY <1>1, <1>2 DEF Lies, Numbers, Texts
<1>4. PICK t, u, s : /\ t = << tag >> \o v /\ u = << Zero >> /\ s = Part(h, pad, tag)
                     /\ s = t \o u
  <2>1. Part(h, pad, "cmnt") = (<< "cmnt" >> \o h.cmnt) \o << Zero >>
    BY PartOfOther
  <2>2. Part(h, pad, tag) = (<< tag >> \o v) \o << Zero >>
    BY <1>1, <2>1
  <2> QED BY <2>2
<1>5. /\ t \in Seq(Places) /\ Len(t) = 1 + l
      /\ StandsIn(b, t, p) <=> b[p + 1] = tag /\ StandsIn(b, v, p + 1)
  <2>1. /\ << tag >> \o v \in Seq(Places) /\ Len(<< tag >> \o v) = 1 + Len(v)
        /\ StandsIn(b, << tag >> \o v, p) <=> b[p + 1] = tag /\ StandsIn(b, v, p + 1)
    BY TaggedStands
  <2> QED BY <1>2, <1>4, <2>1
<1>6. /\ u \in Seq(Places) /\ Len(u) = 1
      /\ StandsIn(b, u, p + (1 + l)) <=> b[p + (1 + l) + 1] = Zero
  <2>1. PICK r \in Nat, z \in Places : r = p + (1 + l) /\ z = Zero
    BY ZeroPlace
  <2>2. << z >> \in Seq(Places) /\ Len(<< z >>) = 1
    OBVIOUS
  <2>3. StandsIn(b, << z >>, r) <=> b[r + 1] = z
    BY StandsOne
  <2> QED BY <1>4, <2>1, <2>2, <2>3
<1>7. /\ s \in Seq(Places) /\ Len(s) = Len(t) + Len(u)
      /\ StandsIn(b, s, p) <=> StandsIn(b, t, p) /\ StandsIn(b, u, p + Len(t))
  <2>1. /\ t \o u \in Seq(Places) /\ Len(t \o u) = Len(t) + Len(u)
        /\ StandsIn(b, t \o u, p) <=> StandsIn(b, t, p) /\ StandsIn(b, u, p + Len(t))
    BY <1>5, <1>6, StandsConcat
  <2> QED BY <1>4, <2>1
<1>8. /\ p + (1 + l) + 1 = p + 1 + l + 1 /\ p + 1 + l + 1 = (p + 1) + l + 1
      /\ p + (1 + l + 1) = p + 1 + l + 1 /\ 1 + l + 1 \in Nat \ {0}
  OBVIOUS
<1>9. Len(s) = 1 + l + 1
  BY <1>5, <1>6, <1>7
<1>10. StandsIn(b, s, p) <=> b[p + 1] = tag /\ Ended(b, v, p + 1)
  BY <1>2, <1>5, <1>6, <1>7, <1>8 DEF Ended
<1>11. Lies(b, h, n, pad, tag, p, q) <=> q = p + Len(s) /\ StandsIn(b, s, p)
  BY <1>3, <1>8, <1>9, <1>10
<1>12. tag # "sync"
  BY <1>1
<1>13. Covers(b, h, n, pad, tag, p, q, s)
  BY <1>7, <1>8, <1>9, <1>11, <1>12 DEF Covers
<1> QED BY <1>1, <1>4, <1>13

LEMMA NamesCover ==
    ASSUME NEW b, NEW h \in Struct, NEW n \in Nat \ {0}, n = Len(h.alia),
           NEW pad, pad["name"] \in Nat, NEW p \in Nat, NEW q \in Nat
    PROVE  Covers(b, h, n, pad, "name", p, q, Part(h, pad, "name"))
<1>0. PICK names \in Seq(Seq(Places)), z \in Nat : names = h.alia /\ z = pad["name"]
  BY FieldFacts
<1>1. PICK tag : tag = "name" /\ names = h.alia /\ z = pad[tag] /\ Len(names) = n
  BY <1>0
<1> DEFINE Cut(c) == c \in [0 .. n -> Nat] /\ c[0] = 0 /\ NamesLie(b, names, p, c, n)
<1>2. Lies(b, h, n, pad, tag, p, q) <=>
          \E c : Cut(c) /\ q = p + c[n] + z /\ Blank(b, p + c[n] + 1, q)
  <2>1. Lies(b, h, n, pad, tag, p, q) <=>
            \E c \in [0 .. n -> Nat] : c[0] = 0 /\ NamesLie(b, names, p, c, n)
                 /\ q = p + c[n] + z /\ Blank(b, p + c[n] + 1, q)
    BY <1>1 DEF Lies, Numbers, Texts
  <2> QED BY <2>1
<1>3. PICK all, u, s : /\ all = FlattenSeq(Terminated(names)) /\ u = Zeros(z)
                       /\ s = Part(h, pad, tag) /\ s = all \o u
  <2>1. Part(h, pad, "name") = FlattenSeq(Terminated(h.alia)) \o Zeros(pad["name"])
    BY PartOfOther
  <2> QED BY <1>1, <2>1
<1>4. /\ all \in Seq(Places)
      /\ StandsIn(b, all, p) => \E c : Cut(c) /\ c[n] = Len(all)
      /\ \A c : Cut(c) => StandsIn(b, all, p) /\ c[n] = Len(all)
  <2>1. Len(names) > 0
    BY <1>1
  <2>2. NamesStand(b, p, names, all)
    BY <1>3, <2>1, StandsNames
  <2>3. /\ all \in Seq(Places)
        /\ StandsIn(b, all, p) => \E c \in [0 .. n -> Nat] :
               c[0] = 0 /\ NamesLie(b, names, p, c, n) /\ c[n] = Len(all)
        /\ \A c \in [0 .. n -> Nat] :
               c[0] = 0 /\ NamesLie(b, names, p, c, n) => StandsIn(b, all, p) /\ c[n] = Len(all)
    BY <1>1, <2>2 DEF NamesStand
  <2> QED BY <2>3
<1>5. ASSUME NEW c, Cut(c) PROVE n = 0 \/ c[n] = c[n - 1] + Len(names[n]) + 1
  <2>1. NamesLie(b, names, p, c, n) /\ n \in 1 .. n
    BY <1>5
  <2> QED BY <2>1 DEF NamesLie
<1>6. ASSUME NEW c, Cut(c) PROVE c[n] \in Nat \ {0}
  <2>1. c[n] = c[n - 1] + Len(names[n]) + 1
    BY <1>5, <1>6
  <2>2. c[n - 1] \in Nat
    <3>1. n - 1 \in 0 .. n
      OBVIOUS
    <3> QED BY <1>6, <3>1
  <2>3. Len(names[n]) \in Nat
    <3>1. names[n] \in Seq(Places)
      BY <1>1, ElementOfSeq
    <3> QED BY <3>1, LenProperties
  <2> QED BY <2>1, <2>2, <2>3
<1>7. PICK l \in Nat : l = Len(all)
  BY <1>4, LenProperties
<1> HIDE DEF Cut
<1>8. StandsIn(b, all, p) => l # 0
  BY <1>4, <1>6, <1>7
<1>9. /\ u \in Seq(Places) /\ Len(u) = z
      /\ StandsIn(b, u, p + l) <=> Blank(b, p + l + 1, p + l + z)
  <2>1. PICK r \in Nat : r = p + l
    OBVIOUS
  <2>2. /\ Zeros(z) \in Seq(Places) /\ Len(Zeros(z)) = z
        /\ StandsIn(b, Zeros(z), r) <=> Blank(b, r + 1, r + z)
    BY StandsZeros
  <2> QED BY <1>3, <2>1, <2>2
<1>10. /\ s \in Seq(Places) /\ Len(s) = l + z
       /\ StandsIn(b, s, p) <=> StandsIn(b, all, p) /\ StandsIn(b, u, p + l)
  <2>1. /\ all \o u \in Seq(Places) /\ Len(all \o u) = Len(all) + Len(u)
        /\ StandsIn(b, all \o u, p) <=> StandsIn(b, all, p) /\ StandsIn(b, u, p + Len(all))
    BY <1>4, <1>9, StandsConcat
  <2> QED BY <1>3, <1>7, <1>9, <2>1
<1>11. p + (l + z) = p + l + z
  OBVIOUS
<1>12. ASSUME Lies(b, h, n, pad, tag, p, q) PROVE q = p + Len(s) /\ StandsIn(b, s, p)
  <2>1. PICK c : Cut(c) /\ q = p + c[n] + z /\ Blank(b, p + c[n] + 1, q)
    BY <1>2, <1>12
  <2>2. StandsIn(b, all, p) /\ c[n] = l
    BY <1>4, <1>7, <2>1
  <2> QED BY <1>9, <1>10, <1>11, <2>1, <2>2
<1>13. ASSUME q = p + Len(s), StandsIn(b, s, p) PROVE Lies(b, h, n, pad, tag, p, q)
  <2>1. StandsIn(b, all, p) /\ Blank(b, p + l + 1, p + l + z) /\ q = p + l + z
    BY <1>9, <1>10, <1>11, <1>13
  <2>2. PICK c : Cut(c) /\ c[n] = l
    BY <1>4, <1>7, <2>1
  <2> QED BY <1>2, <2>1, <2>2
<1>14. tag # "sync"
  BY <1>1
<1>15. l + z # 0
  <2>1. Terminated(names) \in Seq(Seq(Places)) /\ Len(Terminated(names)) = n
    <3>1. \A k \in 1 .. n : names[k] \in Seq(Places)
      BY <1>1, ElementOfSeq
    <3>2. \A k \in 1 .. n : names[k] \o << Zero >> \in Seq(Places)
      BY <3>1, StandsText
    <3>3. Terminated(names) \in [1 .. n -> Seq(Places)]
      BY <1>1, <3>2 DEF Terminated
    <3> QED BY <3>3, FunctionIsSeq
  <2>2. Concatenated(Terminated(names), all)
    BY <1>3, <2>1, FlattenCuts
  <2>3. PICK c : /\ Cuts(Terminated(names), c)
                 /\ Len(all) = c[n]
    BY <2>1, <2>2 DEF Concatenated
  <2>4. c \in [0 .. n -> Nat] /\ c[n] = c[n - 1] + Len(Terminated(names)[n])
    <3>1. PICK list : list = Terminated(names) /\ Len(list) = n
      BY <2>1
    <3>2. Cuts(list, c) /\ n \in 1 .. n
      BY <2>3, <3>1
    <3>3. c \in [0 .. n -> Nat] /\ \A k \in 1 .. n : c[k] = c[k - 1] + Len(list[k])
      BY <3>1, <3>2 DEF Cuts
    <3> QED BY <3>1, <3>2, <3>3
  <2>5. Terminated(names)[n] = names[n] \o << Zero >> /\ names[n] \in Seq(Places)
    BY <1>1, ElementOfSeq DEF Terminated
  <2>6. Len(names[n] \o << Zero >>) = Len(names[n]) + 1
    BY <2>5, StandsText
  <2>7. Len(names[n]) \in Nat
    BY <2>5, LenProperties
  <2>8. c[n - 1] \in Nat
    <3>1. n - 1 \in 0 .. n
      OBVIOUS
    <3> QED BY <2>4, <3>1
  <2>9. PICK x \in Nat, y \in Nat : x = c[n - 1] /\ y = Len(names[n])
    BY <2>7, <2>8
  <2>10. l = x + (y + 1)
    BY <1>7, <2>3, <2>4, <2>5, <2>6, <2>9
  <2> QED BY <2>10
<1>16. Covers(b, h, n, pad, tag, p, q, s)
  BY <1>10, <1>12, <1>13, <1>14, <1>15 DEF Covers
<1> QED BY <1>1, <1>3, <1>16

LEMMA PartCovers ==
    ASSUME NEW b, NEW h \in Struct, NEW n \in 1 .. Len(Counts), n = Len(h.alia),
           NEW pad \in [Padded -> Nat], NEW k \in 1 .. 16, NEW p \in Nat, NEW q \in Nat
    PROVE  Covers(b, h, n, pad, Sections[k], p, q, Part(h, pad, Sections[k]))
<1>1. Sections[k] \in Places /\ Counts[n] \in Places
  BY PlacesAssumption, SectionFacts
<1>2. CASE Sections[k] \in Numbers
  BY <1>1, <1>2, NumberCovers
<1>3. CASE Sections[k] \in Texts
  <2>1. Sections[k] \in Padded
    BY <1>3 DEF Padded
  <2> QED BY <1>1, <1>3, <2>1, TextCovers
<1>4. CASE Sections[k] = "sync"
  BY <1>4, SyncCovers
<1>5. CASE Sections[k] = "chan"
  BY <1>1, <1>5, CountCovers
<1>6. CASE Sections[k] = "gain"
  BY <1>1, <1>6, GainCovers
<1>7. CASE Sections[k] = "alia"
  BY <1>1, <1>7, AliasCovers
<1>8. CASE Sections[k] = "name"
  <2>1. n \in Nat \ {0} /\ pad["name"] \in Nat
    BY DEF Counts, Padded
  <2> QED BY <1>8, <2>1, NamesCover
<1>9. CASE Sections[k] = "cmnt"
  BY <1>1, <1>9, CommentCovers
<1>10. \/ Sections[k] \in Numbers \/ Sections[k] \in Texts
       \/ Sections[k] \in {"sync", "chan", "gain", "alia", "name", "cmnt"}
  BY SectionFacts
<1> QED BY <1>2, <1>3, <1>4, <1>5, <1>6, <1>7, <1>8, <1>9, <1>10

-----------------------------------------------------------------------------
(***************************************************************************)
(* The layout of a block                                                   *)
(***************************************************************************)

\* The first m sections of h, in a header of n channels, begin the block b; the
\* k-th ends at cut[k].
Laid(b, h, n, pad, cut, m) ==
    /\ pad \in [Padded -> Nat]
    /\ cut \in [0 .. 16 -> Nat] /\ cut[0] = 0
    /\ \A k \in 1 .. m :
        /\ Lies(b, h, n, pad, Sections[k], cut[k - 1], cut[k])
        /\ Sections[k] \in Padded => pad[Sections[k]] \in ZeroRuns(b)

LEMMA Growing ==
    ASSUME NEW c \in [0 .. 16 -> Nat], \A k \in 1 .. 16 : c[k - 1] < c[k]
    PROVE  \A i \in 0 .. 15 : \A k \in i + 1 .. 16 : c[i] < c[k]
<1>1. SUFFICES ASSUME NEW i \in 0 .. 15 PROVE \A k \in i + 1 .. 16 : c[i] < c[k]
  OBVIOUS
<1> DEFINE T == {d \in 1 .. 16 - i : c[i] < c[i + d]}
           m == 16 - i
<1>2. 1 \in T
  <2>1. i + 1 \in 1 .. 16 /\ i + 1 - 1 = i
    OBVIOUS
  <2>2. c[i] < c[i + 1]
    BY <2>1
  <2> QED BY <2>2
<1>3. ASSUME NEW d \in 1 .. m - 1, d \in T PROVE d + 1 \in T
  <2>1. PICK k \in 1 .. 16 : k = i + (d + 1) /\ k - 1 = i + d /\ k - 1 \in 0 .. 16 /\ d + 1 \in 1 .. m
    <3>1. i + (d + 1) \in 1 .. 16 /\ i + (d + 1) - 1 = i + d /\ d + 1 \in 1 .. 16 - i
      OBVIOUS
    <3> QED BY <3>1
  <2>2. PICK x \in Nat, y \in Nat, z \in Nat : x = c[i] /\ y = c[k - 1] /\ z = c[k]
    BY <2>1
  <2>3. x < y /\ y < z
    BY <1>3, <2>1, <2>2
  <2>4. x < z
    BY <2>3
  <2> QED BY <2>1, <2>2, <2>4
<1> HIDE DEF T
<1>4. 1 .. m \subseteq T
  BY <1>2, <1>3, RunningInduction
<1>5. ASSUME NEW k \in i + 1 .. 16 PROVE c[i] < c[k]
  <2>1. k - i \in 1 .. m /\ i + (k - i) = k
    OBVIOUS
  <2>2. k - i \in T
    BY <1>4, <2>1
  <2> QED BY <2>1, <2>2 DEF T
<1> QED BY <1>5

\* What Encode concatenates.
Parts(h, pad) == [k \in 1 .. 16 |-> Part(h, pad, Sections[k])]

LEMMA PartsFacts ==
    ASSUME NEW b, NEW h \in Struct, NEW n \in 1 .. Len(Counts), n = Len(h.alia),
           NEW pad \in [Padded -> Nat]
    PROVE  /\ Encode(h, pad) = FlattenSeq(Parts(h, pad))
           /\ Parts(h, pad) \in Seq(Seq(Places)) /\ Len(Parts(h, pad)) = 16
           /\ \A k \in 1 .. 16 :
                /\ Len(Parts(h, pad)[k]) \in Nat \ {0}
                /\ \A p, q \in Nat :
                     Covers(b, h, n, pad, Sections[k], p, q, Parts(h, pad)[k])
           /\ Len(Parts(h, pad)[1]) = 2 /\ Len(Parts(h, pad)[2]) = 3
<1>1. Encode(h, pad) = FlattenSeq(Parts(h, pad))
  BY SectionFacts DEF Encode, Parts
<1>2. \A k \in 1 .. 16 : Parts(h, pad)[k] = Part(h, pad, Sections[k])
  BY DEF Parts
<1>3. ASSUME NEW k \in 1 .. 16, NEW p \in Nat, NEW q \in Nat
      PROVE  Covers(b, h, n, pad, Sections[k], p, q, Parts(h, pad)[k])
  BY <1>2, PartCovers
<1>4. ASSUME NEW k \in 1 .. 16
      PROVE  Parts(h, pad)[k] \in Seq(Places) /\ Len(Parts(h, pad)[k]) \in Nat \ {0}
  <2>1. Covers(b, h, n, pad, Sections[k], 0, 0, Parts(h, pad)[k])
    BY <1>3
  <2> QED BY <2>1 DEF Covers
<1>5. Parts(h, pad) \in Seq(Seq(Places)) /\ Len(Parts(h, pad)) = 16
  <2>1. Parts(h, pad) \in [1 .. 16 -> Seq(Places)]
    BY <1>4 DEF Parts
  <2> QED BY <2>1, FunctionIsSeq
<1>6. Len(Parts(h, pad)[1]) = 2
  <2>1. Sections[1] = "time" /\ "time" \in Numbers /\ "time" \in Places
    BY PlacesAssumption, SectionFacts DEF Sections, Numbers
  <2>2. PICK x \in Places, y \in Places : x = "time" /\ y = h["time"]
    BY <2>1, FieldFacts
  <2>3. Part(h, pad, "time") = << "time", h["time"] >>
    BY <2>1, PartOfNumber
  <2>4. Len(<< x, y >>) = 2
    OBVIOUS
  <2> QED BY <1>2, <2>1, <2>2, <2>3, <2>4
<1>7. Len(Parts(h, pad)[2]) = 3
  <2>1. Parts(h, pad)[2] = IF h.sync[1] = "none" THEN Zeros(3) ELSE h.sync
    BY <1>2, PartOfOther, SectionFacts
  <2>2. Len(Zeros(3)) = 3
    <3>1. 0 \in Nat /\ 3 \in Nat
      OBVIOUS
    <3>2. \A m \in Nat : Len(Zeros(m)) = m
      BY <3>1, StandsZeros
    <3> QED BY <3>1, <3>2
  <2>3. Len(h.sync) = 3
    <3>1. h.sync \in Places \X Places \X Places /\ 0 \in Nat
      BY FieldFacts
    <3> QED BY <3>1, StandsThree
  <2> QED BY <2>1, <2>2, <2>3
<1> QED BY <1>1, <1>3, <1>4, <1>5, <1>6, <1>7

LEMMA SizeNat == Size \in Nat \ {0} /\ Limit \in Nat /\ MaxChannels \in Nat
                 /\ MaxChannels <= 9 /\ Len(Counts) = 9
BY SizeAssumption DEF Counts

LEMMA PaddedIs ==
    /\ \A k \in 1 .. 16 : Sections[k] \in Padded <=> k \in {10, 11, 12, 13, 15}
    /\ \A t \in Padded : \E k \in 1 .. 16 : t = Sections[k]
    /\ Texts \subseteq Padded /\ "name" \in Padded
<1>1. \A k \in 1 .. 16 : Sections[k] \in Padded <=> k \in {10, 11, 12, 13, 15}
  BY SectionFacts DEF Padded
<1>2. /\ Sections[10] = "rcid" /\ Sections[11] = "rtci" /\ Sections[12] = "lati"
      /\ Sections[13] = "logi" /\ Sections[15] = "name"
  BY DEF Sections
<1>3. \A t \in Padded : t \in {"rcid", "rtci", "lati", "logi", "name"}
  BY DEF Padded, Texts
<1>4. ASSUME NEW t \in Padded PROVE \E k \in 1 .. 16 : t = Sections[k]
  <2>1. t = Sections[10] \/ t = Sections[11] \/ t = Sections[12] \/ t = Sections[13] \/ t = Sections[15]
    BY <1>2, <1>3
  <2>2. 10 \in 1 .. 16 /\ 11 \in 1 .. 16 /\ 12 \in 1 .. 16 /\ 13 \in 1 .. 16 /\ 15 \in 1 .. 16
    OBVIOUS
  <2> QED BY <2>1, <2>2
<1> QED BY <1>1, <1>4 DEF Padded

LEMMA DescribesIs ==
    ASSUME NEW b, NEW h \in Struct, NEW n \in 1 .. Len(Counts), n = Len(h.alia)
    PROVE  Describes(h, b) <=>
               \E pad, cut : Laid(b, h, n, pad, cut, 16) /\ cut[16] <= Size
<1> DEFINE Free == h.sync[1] = "none" /\ b[3] \notin {"sync", "skew"}
           Fine(e) == /\ Len(e) <= Size
                      /\ \A i \in 1 .. Len(e) : b[i] = e[i] \/ (i \in 3 .. 5 /\ Free)
<1>1. Describes(h, b) <=> \E pad \in [Padded -> ZeroRuns(b)] : Fine(Encode(h, pad))
  <2>1. Describes(h, b) <=> \E pad \in [Padded -> ZeroRuns(b)] :
            /\ Len(Encode(h, pad)) <= Size
            /\ \A i \in 1 .. Len(Encode(h, pad)) :
                 \/ b[i] = Encode(h, pad)[i]
                 \/ i \in 3 .. 5 /\ h.sync[1] = "none" /\ b[3] \notin {"sync", "skew"}
    BY DEF Describes
  <2>2. ASSUME NEW pad \in [Padded -> ZeroRuns(b)]
        PROVE  Fine(Encode(h, pad)) <=>
            /\ Len(Encode(h, pad)) <= Size
            /\ \A i \in 1 .. Len(Encode(h, pad)) :
                 \/ b[i] = Encode(h, pad)[i]
                 \/ i \in 3 .. 5 /\ h.sync[1] = "none" /\ b[3] \notin {"sync", "skew"}
    OBVIOUS
  <2> HIDE DEF Fine
  <2> QED BY <2>1, <2>2
<1>2. ZeroRuns(b) \subseteq Nat
  BY SizeNat DEF ZeroRuns
<1> HIDE DEF Fine
<1>3. ASSUME NEW pad \in [Padded -> ZeroRuns(b)], Fine(Encode(h, pad))
      PROVE  \E cut : Laid(b, h, n, pad, cut, 16) /\ cut[16] <= Size
  <2>1. PICK e, list : e = Encode(h, pad) /\ list = Parts(h, pad)
    OBVIOUS
  <2>2. pad \in [Padded -> Nat]
    BY <1>2
  <2>3. /\ e = FlattenSeq(list) /\ list \in Seq(Seq(Places)) /\ Len(list) = 16
        /\ \A k \in 1 .. 16 : /\ Len(list[k]) \in Nat \ {0}
                              /\ \A p, q \in Nat : Covers(b, h, n, pad, Sections[k], p, q, list[k])
        /\ Len(list[1]) = 2 /\ Len(list[2]) = 3
    BY <2>1, <2>2, PartsFacts
  <2>4. Concatenated(list, e)
    <3>1. PICK L \in Seq(Seq(Places)) : L = list /\ Len(L) = 16
      BY <2>3
    <3>2. Concatenated(L, FlattenSeq(L))
      <4>1. Len(L) > 0
        BY <3>1
      <4> QED BY <4>1, FlattenCuts
    <3> QED BY <2>3, <3>1, <3>2
  <2>5. PICK cut : Cuts(list, cut)
    BY <2>4 DEF Concatenated
  <2>6. /\ Len(e) = cut[16]
        /\ \A k \in 1 .. 16 : \A j \in 1 .. Len(list[k]) :
               cut[k - 1] + j \in 1 .. Len(e) /\ e[cut[k - 1] + j] = list[k][j]
    <3>1. /\ Len(e) = cut[Len(list)]
          /\ \A k \in 1 .. Len(list) : \A j \in 1 .. Len(list[k]) :
                 cut[k - 1] + j \in 1 .. Len(e) /\ e[cut[k - 1] + j] = list[k][j]
      BY <2>4, <2>5 DEF Concatenated
    <3> QED BY <2>3, <3>1
  <2>7. /\ cut \in [0 .. 16 -> Nat] /\ cut[0] = 0
        /\ \A k \in 1 .. 16 : cut[k] = cut[k - 1] + Len(list[k])
    BY <2>3, <2>5 DEF Cuts
  <2>8. \A k \in 1 .. 16 : cut[k] \in Nat /\ cut[k - 1] \in Nat /\ cut[k - 1] < cut[k]
    <3>1. \A k \in 1 .. 16 : k - 1 \in 0 .. 16 /\ k \in 0 .. 16
      OBVIOUS
    <3>2. \A k \in 1 .. 16 : cut[k] \in Nat /\ cut[k - 1] \in Nat
      BY <2>7, <3>1
    <3>3. ASSUME NEW k \in 1 .. 16 PROVE cut[k - 1] < cut[k]
      <4>1. PICK u \in Nat, l \in Nat \ {0} : u = cut[k - 1] /\ l = Len(list[k])
        BY <2>3, <3>2
      <4>2. cut[k] = u + l
        BY <2>7, <4>1
      <4> QED BY <4>1, <4>2
    <3> QED BY <3>2, <3>3
  <2>9. cut[1] = 2 /\ cut[2] = 5
    <3>1. 1 \in 1 .. 16 /\ 2 \in 1 .. 16 /\ 1 - 1 = 0 /\ 2 - 1 = 1
      OBVIOUS
    <3>2. cut[1] = cut[1 - 1] + Len(list[1]) /\ cut[2] = cut[2 - 1] + Len(list[2])
      BY <2>7, <3>1
    <3>3. cut[1] = 0 + 2 /\ cut[2] = cut[1] + 3
      BY <2>3, <2>7, <3>1, <3>2
    <3> QED BY <3>3
  <2>10. \A k \in 3 .. 16 : cut[k - 1] >= 5
    <3>1. \A i \in 0 .. 15 : \A k \in i + 1 .. 16 : cut[i] < cut[k]
      BY <2>7, <2>8, Growing
    <3>2. 2 \in 0 .. 15 /\ \A k \in 3 .. 16 : k \in 2 + 1 .. 16 /\ k \in 1 .. 16
      OBVIOUS
    <3>3. \A k \in 3 .. 16 : cut[2] < cut[k] /\ cut[k] \in Nat
      BY <2>8, <3>1, <3>2
    <3>4. ASSUME NEW k \in 3 .. 16 PROVE cut[k - 1] >= 5
      <4>1. CASE k = 3
        BY <2>9, <4>1
      <4>2. CASE k # 3
        <5>1. PICK i \in 3 .. 16 : i = k - 1
          BY <4>2
        <5>2. PICK x \in Nat : x = cut[i] /\ 5 < x
          BY <2>9, <3>3
        <5> QED BY <5>1, <5>2
      <4> QED BY <4>1, <4>2
    <3> QED BY <3>4
  <2>11. \A i \in 1 .. Len(e) : b[i] = e[i] \/ (i \in 3 .. 5 /\ Free)
    BY <1>3, <2>1 DEF Fine
  <2>12. ASSUME NEW k \in 1 .. 16 PROVE Lies(b, h, n, pad, Sections[k], cut[k - 1], cut[k])
    <3>1. Covers(b, h, n, pad, Sections[k], cut[k - 1], cut[k], list[k])
      BY <2>3, <2>8
    <3>2. CASE k = 2 /\ Free
      <4>1. Sections[k] = "sync" /\ cut[k - 1] + 1 = 3
        BY <2>9, <3>2, SectionFacts
      <4> QED BY <2>7, <3>1, <3>2, <4>1 DEF Covers
    <3>3. CASE ~ (k = 2 /\ Free)
      <4>1. ASSUME NEW j \in 1 .. Len(list[k]) PROVE b[cut[k - 1] + j] = list[k][j]
        <5>1. PICK u \in Nat, l \in Nat : u = cut[k - 1] /\ l = Len(list[k]) /\ cut[k] = u + l
          BY <2>3, <2>7, <2>8
        <5>2. u + j \in 1 .. Len(e) /\ e[u + j] = list[k][j]
          BY <2>6, <5>1
        <5>3. k # 2 => ~ (u + j \in 3 .. 5)
          <6>1. CASE k = 1
            <7>1. u + l = 2
              BY <2>9, <5>1, <6>1
            <7>2. u + j <= 2
              BY <5>1, <7>1
            <7> QED BY <7>2
          <6>2. CASE k \in 3 .. 16
            <7>1. u >= 5
              BY <2>10, <5>1, <6>2
            <7>2. u + j > 5
              BY <5>1, <7>1
            <7> QED BY <7>2
          <6> QED BY <6>1, <6>2
        <5>4. b[u + j] = e[u + j]
          BY <2>11, <3>3, <5>2, <5>3
        <5> QED BY <5>1, <5>2, <5>4
      <4>2. StandsIn(b, list[k], cut[k - 1])
        BY <4>1 DEF StandsIn
      <4> QED BY <2>7, <3>1, <4>2 DEF Covers
    <3> QED BY <3>2, <3>3
  <2>13. \A k \in 1 .. 16 : Sections[k] \in Padded => pad[Sections[k]] \in ZeroRuns(b)
    OBVIOUS
  <2>14. cut[16] <= Size
    BY <1>3, <2>1, <2>6 DEF Fine
  <2> QED BY <2>2, <2>7, <2>12, <2>13, <2>14 DEF Laid
<1>4. ASSUME NEW pad, NEW cut, Laid(b, h, n, pad, cut, 16), cut[16] <= Size
      PROVE  pad \in [Padded -> ZeroRuns(b)] /\ Fine(Encode(h, pad))
  <2>1. PICK e, list : e = Encode(h, pad) /\ list = Parts(h, pad)
    OBVIOUS
  <2>2. /\ pad \in [Padded -> Nat]
        /\ cut \in [0 .. 16 -> Nat] /\ cut[0] = 0
        /\ \A k \in 1 .. 16 :
            /\ Lies(b, h, n, pad, Sections[k], cut[k - 1], cut[k])
            /\ Sections[k] \in Padded => pad[Sections[k]] \in ZeroRuns(b)
    BY <1>4 DEF Laid
  <2>3. /\ e = FlattenSeq(list) /\ list \in Seq(Seq(Places)) /\ Len(list) = 16
        /\ \A k \in 1 .. 16 : /\ Len(list[k]) \in Nat \ {0}
                              /\ \A p, q \in Nat : Covers(b, h, n, pad, Sections[k], p, q, list[k])
        /\ Len(list[1]) = 2 /\ Len(list[2]) = 3
    BY <2>1, <2>2, PartsFacts
  <2>4. \A k \in 1 .. 16 : cut[k] \in Nat /\ cut[k - 1] \in Nat
    <3>1. \A k \in 1 .. 16 : k - 1 \in 0 .. 16 /\ k \in 0 .. 16
      OBVIOUS
    <3> QED BY <2>2, <3>1
  <2>5. ASSUME NEW k \in 1 .. 16
        PROVE  /\ cut[k] = cut[k - 1] + Len(list[k])
               /\ StandsIn(b, list[k], cut[k - 1]) \/ /\ k = 2 /\ h.sync[1] = "none"
                                                      /\ b[cut[k - 1] + 1] \notin {"sync", "skew"}
    <3>1. Covers(b, h, n, pad, Sections[k], cut[k - 1], cut[k], list[k])
      BY <2>3, <2>4
    <3>2. Sections[k] = "sync" => k = 2
      BY SectionFacts
    <3> QED BY <2>2, <3>1, <3>2 DEF Covers
  <2>6. Cuts(list, cut)
    BY <2>2, <2>3, <2>5 DEF Cuts
  <2>7. Concatenated(list, e)
    <3>1. PICK L \in Seq(Seq(Places)) : L = list /\ Len(L) = 16
      BY <2>3
    <3>2. Concatenated(L, FlattenSeq(L))
      <4>1. Len(L) > 0
        BY <3>1
      <4> QED BY <4>1, FlattenCuts
    <3> QED BY <2>3, <3>1, <3>2
  <2>8. /\ Len(e) = cut[16]
        /\ \A k \in 1 .. 16 : \A j \in 1 .. Len(list[k]) : e[cut[k - 1] + j] = list[k][j]
        /\ \A i \in 1 .. Len(e) : \E k \in 1 .. 16 :
               \E j \in 1 .. Len(list[k]) : i = cut[k - 1] + j
    <3>1. /\ Len(e) = cut[Len(list)]
          /\ \A k \in 1 .. Len(list) : \A j \in 1 .. Len(list[k]) : e[cut[k - 1] + j] = list[k][j]
          /\ \A i \in 1 .. Len(e) : \E k \in 1 .. Len(list) :
                 \E j \in 1 .. Len(list[k]) : i = cut[k - 1] + j
      BY <2>6, <2>7 DEF Concatenated
    <3> QED BY <2>3, <3>1
  <2>9. cut[1] = 2 /\ cut[2] = 5
    <3>1. 1 \in 1 .. 16 /\ 2 \in 1 .. 16 /\ 1 - 1 = 0 /\ 2 - 1 = 1
      OBVIOUS
    <3>2. cut[1] = cut[1 - 1] + Len(list[1]) /\ cut[2] = cut[2 - 1] + Len(list[2])
      BY <2>5, <3>1
    <3>3. cut[1] = 0 + 2 /\ cut[2] = cut[1] + 3
      BY <2>3, <2>2, <3>1, <3>2
    <3> QED BY <3>3
  <2>10. ASSUME NEW i \in 1 .. Len(e) PROVE b[i] = e[i] \/ (i \in 3 .. 5 /\ Free)
    <3>1. PICK k \in 1 .. 16 : \E j \in 1 .. Len(list[k]) : i = cut[k - 1] + j
      BY <2>8
    <3>2. PICK j \in 1 .. Len(list[k]) : i = cut[k - 1] + j
      BY <3>1
    <3>3. e[i] = list[k][j]
      BY <2>8, <3>2
    <3>4. CASE StandsIn(b, list[k], cut[k - 1])
      BY <3>2, <3>3, <3>4 DEF StandsIn
    <3>5. CASE k = 2 /\ h.sync[1] = "none" /\ b[cut[k - 1] + 1] \notin {"sync", "skew"}
      <4>1. cut[k - 1] = 2 /\ j \in 1 .. 3
        <5>1. k - 1 = 1 /\ k = 2
          BY <3>5
        <5> QED BY <2>3, <2>9, <5>1
      <4>2. i \in 3 .. 5 /\ cut[k - 1] + 1 = 3
        BY <3>2, <4>1
      <4> QED BY <3>5, <4>2
    <3> QED BY <2>5, <3>4, <3>5
  <2>11. pad \in [Padded -> ZeroRuns(b)]
    <3>1. \A t \in Padded : pad[t] \in ZeroRuns(b)
      BY <2>2, PaddedIs
    <3> QED BY <2>2, <3>1
  <2>12. Len(e) <= Size
    BY <1>4, <2>8
  <2> QED BY <2>1, <2>10, <2>11, <2>12 DEF Fine
<1> QED BY <1>1, <1>3, <1>4
LEMMA DigitFacts ==
  ASSUME NEW n \in 0 .. 99
  PROVE  /\ n \div 10 \in 0 .. 9 /\ n % 10 \in 0 .. 9
         /\ n = 10 * (n \div 10) + (n % 10)
OBVIOUS

LEMMA NibbleFacts ==
  ASSUME NEW x \in 0 .. 255
  PROVE  /\ Tens(x) \in 0 .. 15 /\ Ones(x) \in 0 .. 15
         /\ x = 16 * Tens(x) + Ones(x)
BY DEF Tens, Ones

\* A byte is two decimal digits in one way, or in none.
LEMMA DecimalsOne ==
  ASSUME NEW x \in 0 .. 255
  PROVE  /\ IsBcd(x) => BcdInt(x) \in 0 .. 99 /\ Decimals(x) = {BcdInt(x)}
         /\ ~IsBcd(x) => Decimals(x) = {}
<1>1. /\ Tens(x) \in 0 .. 15 /\ Ones(x) \in 0 .. 15
      /\ x = 16 * Tens(x) + Ones(x)
  BY NibbleFacts
<1>2. ASSUME NEW n \in Decimals(x)
      PROVE  IsBcd(x) /\ n = BcdInt(x)
  <2>1. n \in 0 .. 99 /\ x = 16 * (n \div 10) + (n % 10)
    BY DEF Decimals
  <2>2. PICK q \in 0 .. 9, r \in 0 .. 9 : q = n \div 10 /\ r = n % 10 /\ n = 10 * q + r
    BY <2>1, DigitFacts
  <2>3. Tens(x) = q /\ Ones(x) = r
    BY <1>1, <2>1, <2>2
  <2> QED BY <2>2, <2>3 DEF IsBcd, BcdInt
<1>3. ASSUME IsBcd(x)
      PROVE  BcdInt(x) \in 0 .. 99 /\ BcdInt(x) \in Decimals(x)
  <2>1. PICK q \in 0 .. 9, r \in 0 .. 9 : q = Tens(x) /\ r = Ones(x)
    BY <1>1, <1>3 DEF IsBcd
  <2>2. BcdInt(x) = q * 10 + r
    BY <2>1 DEF BcdInt
  <2>3. BcdInt(x) \in 0 .. 99
    BY <2>2
  <2>4. (q * 10 + r) \div 10 = q /\ (q * 10 + r) % 10 = r
    OBVIOUS
  <2> QED BY <1>1, <2>1, <2>2, <2>3, <2>4 DEF Decimals
<1> QED BY <1>2, <1>3

LEMMA LeapFacts ==
  ASSUME NEW y \in 0 .. 99
  PROVE  LeapYear(y) <=>
             (((2000 + y) % 4 = 0 /\ (2000 + y) % 100 # 0) \/ (2000 + y) % 400 = 0)
BY DEF LeapYear

\* What bcd_valid tests of the day is the length of the month.
LEMMA DayFacts ==
  ASSUME NEW y \in 0 .. 99, NEW month \in 1 .. 12, NEW day \in Nat
  PROVE  (\/ day <= 28
          \/ LeapYear(y) /\ day <= 29
          \/ month # 2 /\ day <= 30
          \/ LongMonth(month) /\ day <= 31)
         <=> day <= DaysOf(month, 2000 + y)
<1>1. LongMonth(month) <=> month \in {1, 3, 5, 7, 8, 10, 12}
  BY DEF LongMonth
<1>2. CASE month \in {1, 3, 5, 7, 8, 10, 12}
  <2>1. DaysOf(month, 2000 + y) = 31
    BY <1>2 DEF DaysOf
  <2> QED BY <1>1, <1>2, <2>1
<1>3. CASE month \in {4, 6, 9, 11}
  <2>1. DaysOf(month, 2000 + y) = 30
    BY <1>3 DEF DaysOf
  <2> QED BY <1>1, <1>3, <2>1
<1>4. CASE month = 2
  <2>1. DaysOf(month, 2000 + y) = IF LeapYear(y) THEN 29 ELSE 28
    BY <1>4, LeapFacts DEF DaysOf
  <2> QED BY <1>1, <1>4, <2>1
<1> QED BY <1>2, <1>3, <1>4

\* The bytes of a time are converted exactly if they are one, by the calendar.
THEOREM CalendarTimes ==
  ASSUME NEW b \in [1 .. 6 -> 0 .. 255]
  PROVE  FromBcd(b) = CalendarTime(b)
<1>1. \A k \in 1 .. 6 : /\ IsBcd(b[k]) => BcdInt(b[k]) \in 0 .. 99 /\ Decimals(b[k]) = {BcdInt(b[k])}
                        /\ ~IsBcd(b[k]) => Decimals(b[k]) = {}
  BY DecimalsOne
<1>2. CASE \E k \in 1 .. 6 : ~IsBcd(b[k])
  <2>1. FromBcd(b) = Nil
    BY <1>2 DEF FromBcd, BcdValid
  <2>2. PICK k \in 1 .. 6 : Decimals(b[k]) = {}
    BY <1>1, <1>2
  <2>3. k \in {1, 2, 3, 4, 5, 6}
    OBVIOUS
  <2>4. Meanings(b) = {}
    BY <2>2, <2>3 DEF Meanings
  <2> QED BY <2>1, <2>4 DEF CalendarTime
<1>3. CASE \A k \in 1 .. 6 : IsBcd(b[k])
  <2> DEFINE h == BcdInt(b[1])
             mi == BcdInt(b[2])
             s == BcdInt(b[3])
             d == BcdInt(b[4])
             mo == BcdInt(b[5])
             y == BcdInt(b[6])
             t == Time(2000 + y, mo, d, h, mi, s)
             ok == /\ mo \in 1 .. 12 /\ d \in 1 .. 31 /\ h \in 0 .. 23
                   /\ mi \in 0 .. 59 /\ s \in 0 .. 60 /\ d <= DaysOf(mo, 2000 + y)
  <2>1. /\ h \in 0 .. 99 /\ mi \in 0 .. 99 /\ s \in 0 .. 99
        /\ d \in 0 .. 99 /\ mo \in 0 .. 99 /\ y \in 0 .. 99
    BY <1>1, <1>3
  <2>2. /\ Decimals(b[1]) = {h} /\ Decimals(b[2]) = {mi} /\ Decimals(b[3]) = {s}
        /\ Decimals(b[4]) = {d} /\ Decimals(b[5]) = {mo} /\ Decimals(b[6]) = {y}
    BY <1>1, <1>3
  <2>3. BcdValid(b) <=> ok
    <3>1. BcdValid(b) <=>
            /\ h <= 23 /\ mi <= 59 /\ s <= 60 /\ mo \in 1 .. 12 /\ d >= 1
            /\ (\/ d <= 28
                \/ LeapYear(y) /\ d <= 29
                \/ mo # 2 /\ d <= 30
                \/ LongMonth(mo) /\ d <= 31)
      BY <1>3 DEF BcdValid
    <3> HIDE DEF h, mi, s, d, mo, y
    <3>2. mo \in 1 .. 12 =>
            ((\/ d <= 28
              \/ LeapYear(y) /\ d <= 29
              \/ mo # 2 /\ d <= 30
              \/ LongMonth(mo) /\ d <= 31) <=> d <= DaysOf(mo, 2000 + y))
      <4>1. d \in Nat /\ y \in 0 .. 99
        BY <2>1
      <4>2. SUFFICES ASSUME mo \in 1 .. 12
                     PROVE  (\/ d <= 28
                             \/ LeapYear(y) /\ d <= 29
                             \/ mo # 2 /\ d <= 30
                             \/ LongMonth(mo) /\ d <= 31) <=> d <= DaysOf(mo, 2000 + y)
        OBVIOUS
      <4> QED BY <4>1, <4>2, DayFacts
    <3>3. DaysOf(mo, 2000 + y) \in {28, 29, 30, 31}
      <4>1. CASE mo \in {1, 3, 5, 7, 8, 10, 12}
        BY <4>1 DEF DaysOf
      <4>2. CASE mo \in {4, 6, 9, 11}
        BY <4>2 DEF DaysOf
      <4>3. CASE mo \notin {1, 3, 5, 7, 8, 10, 12} \cup {4, 6, 9, 11}
        BY <4>3 DEF DaysOf
      <4> QED BY <4>1, <4>2, <4>3
    <3> QED BY <2>1, <3>1, <3>2, <3>3
  <2>4. FromBcd(b) = IF ok THEN t ELSE Nil
    BY <2>1, <2>3 DEF FromBcd
  <2>5. t.day = d /\ t.month = mo /\ t.year = 2000 + y
    BY DEF Time
  <2>6. Meanings(b) = IF ok THEN {t} ELSE {}
    <3> HIDE DEF h, mi, s, d, mo, y
    <3>1. Meanings(b) = {u \in {Time(2000 + yy, m, dd, hh, mm, ss) :
               yy \in {y}, m \in {mo} \cap 1 .. 12,
               dd \in {d} \cap 1 .. 31, hh \in {h} \cap 0 .. 23,
               mm \in {mi} \cap 0 .. 59, ss \in {s} \cap 0 .. 60} :
                    u.day <= DaysOf(u.month, u.year)}
      BY <2>2 DEF Meanings
    <3>2. ASSUME ok PROVE Meanings(b) = {t}
      <4>1. /\ mo \in {mo} \cap 1 .. 12 /\ d \in {d} \cap 1 .. 31 /\ h \in {h} \cap 0 .. 23
            /\ mi \in {mi} \cap 0 .. 59 /\ s \in {s} \cap 0 .. 60
        <5>1. mo \in 1 .. 12 /\ d \in 1 .. 31 /\ h \in 0 .. 23 /\ mi \in 0 .. 59 /\ s \in 0 .. 60
          BY <3>2
        <5> HIDE DEF ok, t
        <5> QED BY <5>1
      <4>2. DaysOf(t.month, t.year) = DaysOf(mo, 2000 + y)
        BY <2>5
      <4>4. t.day <= DaysOf(t.month, t.year)
        BY <2>5, <3>2, <4>2
      <4>3. t \in Meanings(b)
        BY <3>1, <4>1, <4>4
      <4>5. \A u \in Meanings(b) : u = t
        BY <3>1
      <4> QED BY <4>3, <4>5
    <3>3. ASSUME ~ok PROVE Meanings(b) = {}
      BY <2>5, <3>1, <3>3
    <3> QED BY <3>2, <3>3
  <2> HIDE DEF ok, t
  <2> QED BY <2>4, <2>6 DEF CalendarTime
<1> QED BY <1>2, <1>3

-----------------------------------------------------------------------------
(***************************************************************************)
(* The state                                                               *)
(***************************************************************************)

TypeInv ==
    /\ \E x \in Blocks : written = x[1] /\ block = x[2] /\ bytes = x[3]
    /\ o \in 1 .. Size /\ at \in 1 .. 16 /\ nc \in 0 .. MaxChannels
    /\ result \in {"new", "reading", "ok", "parsed", "malformed"}
    /\ result = "new" => o = 1 /\ at = 1
    /\ result # "malformed" => header \in Struct
    /\ result \in {"reading", "ok", "parsed"} =>
           block[Size] = Zero /\ (at > 7 => nc \in 1 .. MaxChannels)
    /\ result \in {"ok", "parsed"} => at = 16
    /\ result = "parsed" => hash = Reported(header)

LEMMA BlockFacts ==
    ASSUME TypeInv
    PROVE  /\ written \in Written /\ written \in Struct
           /\ Len(written.alia) \in 1 .. Len(Counts)
           /\ block \in Seq(Places) /\ Len(block) = Size
           /\ \A i \in 1 .. Size : block[i] \in Places
           /\ bytes \in [1 .. 6 -> 0 .. 255]
<1>1. PICK x \in Blocks : written = x[1] /\ block = x[2] /\ bytes = x[3]
  BY DEF TypeInv
<1>2. /\ written \in Written /\ bytes \in [1 .. 6 -> 0 .. 255]
      /\ block \in Seq(Places) /\ Len(block) = Size
  BY <1>1, BlocksAssumption
<1>3. written \in Struct /\ Len(written.alia) \in 1 .. Len(Counts)
  BY <1>2 DEF Written
<1>4. \A i \in 1 .. Size : block[i] \in Places
  BY <1>2, ElementOfSeq
<1> QED BY <1>2, <1>3, <1>4

\* n places of the block, as a sequence.
LEMMA Slice ==
    ASSUME TypeInv, NEW p \in Nat, NEW n \in Nat, p + n <= Size
    PROVE  /\ SubSeq(block, p + 1, p + n) \in Seq(Places)
           /\ Len(SubSeq(block, p + 1, p + n)) = n
           /\ StandsIn(block, SubSeq(block, p + 1, p + n), p)
<1>1. \A i \in p + 1 .. p + n : block[i] \in Places
  <2>1. \A i \in p + 1 .. p + n : i \in 1 .. Size
    BY SizeNat
  <2> QED BY <2>1, BlockFacts
<1>2. PICK l \in Int, r \in Int : l = p + 1 /\ r = p + n
  OBVIOUS
<1>3. PICK s : s = SubSeq(block, l, r)
  OBVIOUS
<1>4. /\ s \in Seq(Places) /\ Len(s) = IF l <= r THEN r - l + 1 ELSE 0
      /\ \A i \in 1 .. r - l + 1 : s[i] = block[l + i - 1]
  BY <1>1, <1>2, <1>3, SubSeqProperties
<1>5. Len(s) = n
  BY <1>2, <1>4
<1>6. ASSUME NEW j \in 1 .. n PROVE block[p + j] = s[j]
  <2>1. j \in 1 .. r - l + 1 /\ l + j - 1 = p + j
    BY <1>2
  <2> QED BY <1>4, <2>1
<1>7. StandsIn(block, s, p)
  BY <1>5, <1>6 DEF StandsIn
<1> QED BY <1>2, <1>3, <1>4, <1>5, <1>7

LEMMA TextSlice ==
    ASSUME TypeInv, block[Size] = Zero, NEW p \in Nat, p + 1 <= Size
    PROVE  /\ TextAt(p + 1) \in Seq(Places) /\ Len(TextAt(p + 1)) = StrLen(p + 1)
           /\ StrLen(p + 1) \in Nat /\ p + StrLen(p + 1) + 1 <= Size
           /\ Ended(block, TextAt(p + 1), p)
<1>1. p + 1 \in 1 .. Size
  BY SizeNat
<1>2. PICK n \in Nat : n = StrLen(p + 1) /\ (p + 1) + n \in p + 1 .. Size /\ block[(p + 1) + n] = Zero
  BY <1>1, SizeNat, StrLenFacts
<1>3. p + n <= Size /\ p + n + 1 <= Size /\ (p + 1) + n = p + n + 1 /\ (p + 1) + n - 1 = p + n
  BY <1>2, SizeNat
<1>4. TextAt(p + 1) = SubSeq(block, p + 1, p + n)
  BY <1>2, <1>3 DEF TextAt
<1>5. /\ TextAt(p + 1) \in Seq(Places) /\ Len(TextAt(p + 1)) = n
      /\ StandsIn(block, TextAt(p + 1), p)
  BY <1>3, <1>4, Slice
<1> QED BY <1>2, <1>3, <1>5 DEF Ended

\* Names and texts of a reader are without zeros, so that they are found again.
LEMMA TextFound ==
    ASSUME TypeInv, block[Size] = Zero, NEW p \in Nat, NEW s \in Seq(Places),
           Ended(block, s, p), NoZero(s), p + Len(s) + 1 <= Size
    PROVE  StrLen(p + 1) = Len(s) /\ TextAt(p + 1) = s
<1>1. PICK n \in Nat : n = Len(s)
  BY LenProperties
<1>2. /\ \A j \in 1 .. n : block[p + j] = s[j] /\ s[j] # Zero
      /\ block[p + n + 1] = Zero
  BY <1>1 DEF Ended, StandsIn, NoZero
<1>3. StrLen(p + 1) = n
  <2>1. PICK r \in 1 .. Size : r = p + 1 /\ r + n = p + n + 1
    <3>1. p + 1 \in 1 .. Size /\ (p + 1) + n = p + n + 1
      BY <1>1, SizeNat
    <3> QED BY <3>1
  <2>2. r + n <= Size /\ block[r + n] = Zero
    BY <1>1, <1>2, <2>1
  <2>3. ASSUME NEW q \in r .. r + n - 1 PROVE block[q] # Zero
    <3>1. PICK j \in 1 .. n : j = q - p /\ p + j = q
      <4>1. q - p \in 1 .. n /\ p + (q - p) = q
        BY <2>1
      <4> QED BY <4>1
    <3> QED BY <1>2, <3>1
  <2>4. StrLen(r) = n
    BY <2>2, <2>3, SizeNat, StrLenIs
  <2> QED BY <2>1, <2>4
<1>4. PICK t \in Seq(Places) : t = TextAt(p + 1) /\ Len(t) = n /\ Ended(block, t, p)
  <2>1. p + 1 <= Size
    BY <1>1, SizeNat
  <2> QED BY <1>3, <2>1, TextSlice
<1>5. \A j \in 1 .. n : block[p + j] = t[j]
  BY <1>4 DEF Ended, StandsIn
<1>6. \A j \in 1 .. Len(s) : s[j] = t[j]
  BY <1>1, <1>2, <1>5
<1>7. s = t
  BY <1>1, <1>4, <1>6, SeqEqual
<1> QED BY <1>1, <1>3, <1>4, <1>7

-----------------------------------------------------------------------------
(***************************************************************************)
(* One section more                                                        *)
(***************************************************************************)

\* The fields of h that the section tag depends on, but for the names.
SameField(h, g, tag) == tag \in FieldNames \ {"alia"} => h[tag] = g[tag]

LEMMA LiesKept ==
    ASSUME NEW b, NEW h, NEW g, NEW n, NEW m, NEW pad, NEW pad2, NEW p, NEW q,
           NEW k \in 1 .. 14, SameField(h, g, Sections[k]), k = 7 => n = m,
           Sections[k] \in Padded => pad[Sections[k]] = pad2[Sections[k]],
           Lies(b, h, n, pad, Sections[k], p, q)
    PROVE  Lies(b, g, m, pad2, Sections[k], p, q)
<1> DEFINE tag == Sections[k]
<1>1. tag # "name"
  BY SectionFacts
<1>2. CASE tag \in Numbers
  <2>1. tag \notin {"sync", "name", "chan", "gain", "alia", "cmnt"} /\ tag \notin Texts
    BY <1>2 DEF Numbers, Texts
  <2>2. tag \in FieldNames
    BY <1>2 DEF Numbers, FieldNames
  <2>3. h[tag] = g[tag]
    BY <2>1, <2>2 DEF SameField
  <2> HIDE DEF tag
  <2>4. b[p + 1] = tag /\ b[p + 2] = h[tag] /\ q = p + 2
    BY <1>2, <2>1 DEF Lies, tag
  <2>5. Lies(b, g, m, pad2, tag, p, q)
    BY <1>2, <2>1, <2>3, <2>4 DEF Lies
  <2> QED BY <2>5 DEF tag
<1>3. CASE tag \in Texts
  <2>1. tag \notin {"sync", "name", "chan", "gain", "alia", "cmnt"} /\ tag \notin Numbers
    BY <1>3 DEF Numbers, Texts
  <2>2. tag \in FieldNames /\ tag \in Padded
    BY <1>3 DEF Texts, FieldNames, Padded
  <2>3. h[tag] = g[tag] /\ pad[tag] = pad2[tag]
    BY <2>1, <2>2 DEF SameField
  <2> HIDE DEF tag
  <2>4. /\ b[p + 1] = tag /\ Ended(b, h[tag], p + 1)
        /\ q = p + 1 + Len(h[tag]) + 1 + pad[tag]
        /\ Blank(b, p + 1 + Len(h[tag]) + 2, q)
    BY <1>3, <2>1 DEF Lies, tag
  <2>5. Lies(b, g, m, pad2, tag, p, q)
    BY <1>3, <2>1, <2>3, <2>4 DEF Lies
  <2> QED BY <2>5 DEF tag
<1>4. CASE tag = "sync"
  <2>1. h.sync = g.sync
    BY <1>4 DEF SameField, FieldNames
  <2> QED BY <1>4, <2>1 DEF Lies, Numbers, Texts
<1>5. CASE tag = "chan"
  <2>1. n = m
    BY <1>5, SectionFacts
  <2> QED BY <1>5, <2>1 DEF Lies, Numbers, Texts
<1>6. CASE tag = "gain"
  <2>1. h.gain = g.gain
    BY <1>6 DEF SameField, FieldNames
  <2> QED BY <1>6, <2>1 DEF Lies, Numbers, Texts
<1>7. CASE tag = "alia"
  BY <1>7 DEF Lies, Numbers, Texts
<1>8. tag \in Numbers \/ tag \in Texts \/ tag \in {"sync", "chan", "gain", "alia"}
  BY SectionFacts
<1> QED BY <1>2, <1>3, <1>4, <1>5, <1>6, <1>7, <1>8

\* The texts of the first m sections fit.
Fitting(h, m) ==
    \A k \in 1 .. m : Sections[k] \in Texts => Len(h[Sections[k]]) < Limit

\* The reader takes the next section, the places from p + 1 to q with z zeros
\* more than needed at their end, and has g and n then.
Takes(p, g, n, q, z) ==
    /\ q \in Nat /\ z \in Nat
    /\ \A t \in FieldNames \ {"alia"} : t # Section => header[t] = g[t]
    /\ at # 7 => n = nc
    /\ Section \in Texts => Len(g[Section]) < Limit
    /\ Section \in Padded => z \in ZeroRuns(block)
    /\ \A pad \in [Padded -> Nat] :
           (Section \in Padded => pad[Section] = z) =>
               Lies(block, g, n, pad, Section, p, q)

LEMMA Advance ==
    ASSUME NEW a \in 1 .. 15, at = a, NEW pad, NEW cut, NEW g, NEW n, NEW q, NEW z,
           Laid(block, header, nc, pad, cut, a - 1), Fitting(header, a - 1),
           Takes(cut[a - 1], g, n, q, z)
    PROVE  /\ \E pad2, cut2 : Laid(block, g, n, pad2, cut2, a) /\ cut2[a] = q
           /\ Fitting(g, a)
<1> DEFINE tag == Sections[a]
           pad2 == [pad EXCEPT ![tag] = z]
           cut2 == [cut EXCEPT ![a] = q]
<1>1. tag = Section /\ a \in 1 .. 16
  BY DEF Section
<1>2. /\ pad \in [Padded -> Nat] /\ cut \in [0 .. 16 -> Nat] /\ cut[0] = 0
      /\ \A k \in 1 .. a - 1 :
          /\ Lies(block, header, nc, pad, Sections[k], cut[k - 1], cut[k])
          /\ Sections[k] \in Padded => pad[Sections[k]] \in ZeroRuns(block)
  BY DEF Laid
<1>3. /\ q \in Nat /\ z \in Nat
      /\ \A t \in FieldNames \ {"alia"} : t # tag => header[t] = g[t]
      /\ a # 7 => n = nc
      /\ tag \in Texts => Len(g[tag]) < Limit
      /\ tag \in Padded => z \in ZeroRuns(block)
      /\ \A pad_ \in [Padded -> Nat] :
             (tag \in Padded => pad_[tag] = z) => Lies(block, g, n, pad_, tag, cut[a - 1], q)
  BY <1>1 DEF Takes
<1>4. /\ pad2 \in [Padded -> Nat]
      /\ tag \in Padded => pad2[tag] = z
      /\ \A t \in Padded : t # tag => pad2[t] = pad[t]
  BY <1>2, <1>3
<1>5. /\ cut2 \in [0 .. 16 -> Nat] /\ cut2[a] = q
      /\ \A k \in 0 .. a - 1 : cut2[k] = cut[k]
  <2>1. a \in 0 .. 16 /\ \A k \in 0 .. a - 1 : k # a /\ k \in 0 .. 16
    OBVIOUS
  <2> QED BY <1>2, <1>3, <2>1
<1>6. \A k \in 1 .. a - 1 : k \in 1 .. 14 /\ k # a /\ k \in 0 .. a - 1 /\ k - 1 \in 0 .. a - 1
                            /\ k \in 1 .. 16
  OBVIOUS
<1>7. \A k \in 1 .. a - 1 : Sections[k] # tag
  BY <1>6, SectionFacts
<1>13. 0 \in 0 .. a - 1 /\ a - 1 \in 0 .. a - 1 /\ \A k \in 1 .. a : k = a \/ k \in 1 .. a - 1
  OBVIOUS
<1> HIDE DEF tag, pad2, cut2
<1>8. ASSUME NEW k \in 1 .. a - 1
      PROVE  /\ Lies(block, g, n, pad2, Sections[k], cut2[k - 1], cut2[k])
             /\ Sections[k] \in Padded => pad2[Sections[k]] \in ZeroRuns(block)
  <2>1. SameField(header, g, Sections[k])
    BY <1>3, <1>7 DEF SameField
  <2>2. k = 7 => nc = n
    BY <1>3, <1>6, <1>13
  <2>3. Sections[k] \in Padded => pad[Sections[k]] = pad2[Sections[k]]
    BY <1>4, <1>7
  <2>4. Lies(block, header, nc, pad, Sections[k], cut2[k - 1], cut2[k])
    BY <1>2, <1>5, <1>6
  <2>5. Lies(block, g, n, pad2, Sections[k], cut2[k - 1], cut2[k])
    BY <1>6, <2>1, <2>2, <2>3, <2>4, LiesKept
  <2> QED BY <1>2, <2>3, <2>5
<1>9. Lies(block, g, n, pad2, tag, cut2[a - 1], cut2[a])
  BY <1>3, <1>4, <1>5, <1>13
<1>10. tag \in Padded => pad2[tag] \in ZeroRuns(block)
  BY <1>3, <1>4
<1>11. Laid(block, g, n, pad2, cut2, a)
  <2>1. cut2[0] = 0
    BY <1>2, <1>5, <1>13
  <2>2. ASSUME NEW k \in 1 .. a
        PROVE  /\ Lies(block, g, n, pad2, Sections[k], cut2[k - 1], cut2[k])
               /\ Sections[k] \in Padded => pad2[Sections[k]] \in ZeroRuns(block)
    BY <1>8, <1>9, <1>10, <1>13 DEF tag
  <2> QED BY <1>4, <1>5, <2>1, <2>2 DEF Laid
<1>12. ASSUME NEW k \in 1 .. a, Sections[k] \in Texts PROVE Len(g[Sections[k]]) < Limit
  <2>1. CASE k = a
    BY <1>3, <1>12, <2>1 DEF tag
  <2>2. CASE k # a
    <3>1. k \in 1 .. a - 1
      BY <2>2
    <3>2. Sections[k] \in FieldNames \ {"alia"}
      BY <1>12 DEF Texts, FieldNames
    <3>3. header[Sections[k]] = g[Sections[k]]
      BY <1>3, <1>7, <3>1, <3>2
    <3>4. Len(header[Sections[k]]) < Limit
      BY <1>12, <3>1 DEF Fitting
    <3> QED BY <3>3, <3>4
  <2> QED BY <2>1, <2>2
<1> QED BY <1>5, <1>11, <1>12 DEF Fitting

-----------------------------------------------------------------------------
(***************************************************************************)
(* The actions                                                             *)
(***************************************************************************)

\* The reader goes on with the next section.
Moved ==
    /\ result = "reading" /\ result' = "reading" /\ input' = input
    /\ at \in 1 .. 15 /\ at' = at + 1 /\ o' \in 1 .. Size
    /\ header' \in Struct /\ nc' \in 0 .. MaxChannels
    /\ at >= 7 => nc' \in 1 .. MaxChannels

LEMMA GoesOn ==
    ASSUME NEW p \in Nat, GoOn(p), result = "reading", result' # "malformed"
    PROVE  p <= Size /\ o' = p /\ at' = at + 1 /\ result' = "reading" /\ input' = input
BY SizeNat DEF GoOn

LEMMA StateFacts ==
    ASSUME TypeInv, result = "reading"
    PROVE  /\ o \in 1 .. Size /\ at \in 1 .. 16 /\ nc \in 0 .. MaxChannels
           /\ header \in Struct /\ block[Size] = Zero
           /\ at > 7 => nc \in 1 .. MaxChannels
           /\ Size \in Nat \ {0} /\ o - 1 \in Nat /\ o - 1 + 1 = o
BY SizeNat DEF TypeInv

\* A tag is no zero: the section goes on in the block.
LEMMA TagFacts ==
    ASSUME TypeInv, Tagged
    PROVE  result = "reading" /\ block[o] = Section /\ o + 1 \in 1 .. Size
<1>1. result = "reading" /\ block[o] = Sections[at]
  BY DEF Tagged, Section
<1>2. o \in 1 .. Size /\ at \in 1 .. 16 /\ block[Size] = Zero
  BY <1>1, StateFacts
<1>3. Sections[at] # Zero
  BY <1>2, SectionFacts
<1>4. o # Size
  BY <1>1, <1>2, <1>3
<1> QED BY <1>1, <1>2, <1>4, SizeNat DEF Section

LEMMA Unchanged ==
    ASSUME NEW h, NEW g, NEW tag, NEW v, Becomes(h, g, tag, v)
    PROVE  g[tag] = v /\ \A t \in FieldNames \ {"alia"} : t # tag => h[t] = g[t]
BY DEF Becomes

LEMMA NumberTakes ==
    ASSUME TypeInv, Number, result' # "malformed"
    PROVE  /\ Moved /\ at # 14
           /\ Takes(o - 1, header', nc', o' - 1, 0)
           /\ header'[Section] = block[o + 1] /\ o' = o + 2
<1>1. Tagged /\ Section \in Numbers /\ GoOn(o + 2) /\ nc' = nc
      /\ header' = [header EXCEPT ![Section] = block[o + 1]]
  BY DEF Number
<1>2. /\ result = "reading" /\ block[o] = Section /\ o + 1 \in 1 .. Size
  BY <1>1, TagFacts
<1>3. /\ o \in 1 .. Size /\ at \in 1 .. 16 /\ nc \in 0 .. MaxChannels
      /\ header \in Struct /\ (at > 7 => nc \in 1 .. MaxChannels)
  BY <1>2, StateFacts
<1>4. /\ o + 2 <= Size /\ o' = o + 2 /\ at' = at + 1 /\ result' = "reading" /\ input' = input
  <2>1. o + 2 \in Nat
    BY <1>3, SizeNat
  <2> QED BY <1>1, <1>2, <2>1, GoesOn
<1>5. at \in {1, 3, 4, 5, 6, 9} /\ Section \notin Texts /\ Section \notin Padded
      /\ Section \notin {"sync", "name", "chan", "gain", "alia", "cmnt"}
  BY <1>1, <1>3, SectionFacts, PaddedIs DEF Section
<1>6. block[o + 1] \in Places
  BY <1>2, BlockFacts
<1>7. /\ header' \in Struct /\ header'[Section] = block[o + 1]
      /\ \A t \in FieldNames \ {"alia"} : t # Section => header[t] = header'[t]
  <2>1. Suits(Section, block[o + 1])
    BY <1>1, <1>6 DEF Suits
  <2>2. Becomes(header, header', Section, block[o + 1])
    <3>1. Section \in FieldNames
      BY <1>1 DEF Numbers, FieldNames
    <3>2. header' = [header EXCEPT ![Section] = block[o + 1]]
      BY <1>1
    <3>3. header \in Struct
      BY <1>3
    <3> QED BY <3>1, <3>2, <3>3, ExceptBecomes
  <2> QED BY <1>3, <2>1, <2>2, FieldSet, Unchanged
<1>12. at \in 1 .. 15 /\ o' \in 1 .. Size /\ (at >= 7 => nc' \in 1 .. MaxChannels)
  BY <1>1, <1>3, <1>4, <1>5, SizeNat
<1>8. Moved
  BY <1>1, <1>2, <1>3, <1>4, <1>7, <1>12 DEF Moved
<1>9. o' - 1 \in Nat /\ o - 1 + 1 = o /\ o - 1 + 2 = o + 1 /\ o' - 1 = o - 1 + 2
  BY <1>3, <1>4, SizeNat
<1>10. ASSUME NEW pad PROVE Lies(block, header', nc', pad, Section, o - 1, o' - 1)
  BY <1>1, <1>2, <1>5, <1>7, <1>9 DEF Lies
<1>11. Takes(o - 1, header', nc', o' - 1, 0)
  BY <1>1, <1>5, <1>7, <1>9, <1>10 DEF Takes
<1> QED BY <1>4, <1>5, <1>7, <1>8, <1>11

LEMMA SyncTakes ==
    ASSUME TypeInv, Sync, result' # "malformed"
    PROVE  /\ Moved /\ at = 2
           /\ Takes(o - 1, header', nc', o' - 1, 0)
           /\ header'.sync = IF block[o] \in {"sync", "skew"}
                             THEN SubSeq(block, o, o + 2) ELSE << "none", Zero, Zero >>
           /\ o' = o + 3
<1> DEFINE v == IF block[o] \in {"sync", "skew"}
                THEN SubSeq(block, o, o + 2) ELSE << "none", Zero, Zero >>
<1>1. result = "reading" /\ Section = "sync" /\ GoOn(o + 3) /\ nc' = nc
      /\ header' = [header EXCEPT !["sync"] = v]
  BY DEF Sync
<1>3. /\ o \in 1 .. Size /\ at \in 1 .. 16 /\ nc \in 0 .. MaxChannels
      /\ header \in Struct /\ (at > 7 => nc \in 1 .. MaxChannels)
  BY <1>1, StateFacts
<1>4. /\ o + 3 <= Size /\ o' = o + 3 /\ at' = at + 1 /\ result' = "reading" /\ input' = input
  BY <1>1, <1>3, GoesOn
<1>5. at = 2 /\ Section \notin Texts /\ Section \notin Padded /\ Section \notin Numbers
  BY <1>1, <1>3, SectionFacts, PaddedIs DEF Section
<1>6. /\ v \in Places \X Places \X Places
      /\ \/ block[o] \in {"sync", "skew"} /\ StandsIn(block, v, o - 1) /\ v[1] # "none"
         \/ block[o] \notin {"sync", "skew"} /\ v[1] = "none"
  <2>1. CASE block[o] \in {"sync", "skew"}
    <3>1. PICK p \in Nat : p = o - 1 /\ p + 1 = o /\ p + 3 = o + 2 /\ p + 3 <= Size
      BY <1>3, <1>4, SizeNat
    <3>2. v = SubSeq(block, p + 1, p + 3)
      BY <2>1, <3>1
    <3>3. PICK s \in Seq(Places) : s = v /\ Len(s) = 3 /\ StandsIn(block, s, p)
      BY <3>1, <3>2, Slice
    <3>5. \E x \in Places, y \in Places, z \in Places : s = << x, y, z >>
      <4>1. s[1] \in Places /\ s[2] \in Places /\ s[3] \in Places
        <5>1. \A i \in 1 .. 3 : s[i] \in Places
          BY <3>3, ElementOfSeq
        <5> QED BY <5>1
      <4>2. PICK x \in Places, y \in Places, z \in Places : x = s[1] /\ y = s[2] /\ z = s[3]
        BY <4>1
      <4>3. PICK t \in Seq(Places) : t = << x, y, z >> /\ Len(t) = 3 /\ t[1] = x /\ t[2] = y /\ t[3] = z
        <5>1. /\ << x, y, z >> \in Seq(Places) /\ Len(<< x, y, z >>) = 3
              /\ << x, y, z >>[1] = x /\ << x, y, z >>[2] = y /\ << x, y, z >>[3] = z
          OBVIOUS
        <5> QED BY <5>1
      <4>4. \A i \in 1 .. 3 : i = 1 \/ i = 2 \/ i = 3
        OBVIOUS
      <4>5. \A i \in 1 .. Len(s) : s[i] = t[i]
        BY <3>3, <4>2, <4>3, <4>4
      <4>6. s = t
        BY <3>3, <4>3, <4>5, SeqEqual
      <4> QED BY <4>3, <4>6
    <3>7. s[1] = block[o]
      <4>1. 1 \in 1 .. Len(s)
        BY <3>3
      <4> QED BY <3>1, <3>3, <4>1 DEF StandsIn
    <3>8. v \in Places \X Places \X Places
      <4>1. PICK x \in Places, y \in Places, z \in Places : s = << x, y, z >>
        BY <3>5
      <4>2. << x, y, z >> \in Places \X Places \X Places
        OBVIOUS
      <4> HIDE DEF v
      <4> QED BY <3>3, <4>1, <4>2
    <3>9. v[1] # "none" /\ StandsIn(block, v, o - 1)
      BY <2>1, <3>1, <3>3, <3>7
    <3> HIDE DEF v
    <3> QED BY <2>1, <3>8, <3>9
  <2>2. CASE block[o] \notin {"sync", "skew"}
    <3>1. PICK x \in Places, z \in Places : x = "none" /\ z = Zero
      BY PlacesAssumption
    <3>2. << x, z, z >> \in Places \X Places \X Places /\ << x, z, z >>[1] = x
      OBVIOUS
    <3>3. v = << x, z, z >>
      BY <2>2, <3>1
    <3> QED BY <2>2, <3>1, <3>2, <3>3
  <2> QED BY <2>1, <2>2
<1> HIDE DEF v
<1>7. /\ header' \in Struct /\ header'["sync"] = v
      /\ \A t \in FieldNames \ {"alia"} : t # "sync" => header[t] = header'[t]
  <2>1. Suits("sync", v)
    BY <1>6 DEF Suits
  <2>2. Becomes(header, header', "sync", v)
    <3>1. "sync" \in FieldNames
      BY DEF FieldNames
    <3> QED BY <1>1, <1>3, <3>1, ExceptBecomes
  <2> QED BY <1>3, <2>1, <2>2, FieldSet, Unchanged
<1>12. at \in 1 .. 15 /\ o' \in 1 .. Size /\ (at >= 7 => nc' \in 1 .. MaxChannels)
  BY <1>3, <1>4, <1>5, SizeNat
<1>8. Moved
  BY <1>1, <1>3, <1>4, <1>7, <1>12 DEF Moved
<1>9. o' - 1 \in Nat /\ o - 1 + 1 = o /\ o' - 1 = o - 1 + 3
  BY <1>3, <1>4, SizeNat
<1>10. ASSUME NEW pad PROVE Lies(block, header', nc', pad, "sync", o - 1, o' - 1)
  <2>1. header'.sync = v
    BY <1>7
  <2> QED BY <1>6, <1>9, <2>1 DEF Lies, Numbers, Texts
<1>11. Takes(o - 1, header', nc', o' - 1, 0)
  BY <1>1, <1>5, <1>7, <1>9, <1>10 DEF Takes
<1> QED BY <1>4, <1>5, <1>7, <1>8, <1>11 DEF v

LEMMA CountTakes ==
    ASSUME TypeInv, ChannelCount, result' # "malformed"
    PROVE  /\ Moved /\ at = 7
           /\ Takes(o - 1, header', nc', o' - 1, 0)
           /\ header' = header /\ o' = o + 2
           /\ nc' \in 1 .. MaxChannels /\ block[o + 1] = Counts[nc']
<1>1. Tagged /\ Section = "chan"
  BY DEF ChannelCount
<1>2. /\ result = "reading" /\ block[o] = Section /\ o + 1 \in 1 .. Size
  BY <1>1, TagFacts
<1>3. /\ o \in 1 .. Size /\ at \in 1 .. 16 /\ nc \in 0 .. MaxChannels
      /\ header \in Struct /\ (at > 7 => nc \in 1 .. MaxChannels)
  BY <1>2, StateFacts
<1>4. /\ \E n \in 1 .. MaxChannels : block[o + 1] = Counts[n]
      /\ nc' = CHOOSE n \in 1 .. MaxChannels : block[o + 1] = Counts[n]
      /\ GoOn(o + 2) /\ header' = header
  BY DEF ChannelCount, Refuse
<1>5. nc' \in 1 .. MaxChannels /\ block[o + 1] = Counts[nc']
  BY <1>4
<1>6. /\ o + 2 <= Size /\ o' = o + 2 /\ at' = at + 1 /\ result' = "reading" /\ input' = input
  <2>1. o + 2 \in Nat
    BY <1>3, SizeNat
  <2> QED BY <1>4, <1>2, <2>1, GoesOn
<1>7. at = 7 /\ Section \notin Texts /\ Section \notin Padded /\ Section \notin Numbers
  BY <1>1, <1>3, SectionFacts, PaddedIs DEF Section
<1>8. at \in 1 .. 15 /\ o' \in 1 .. Size /\ nc' \in 0 .. MaxChannels
  BY <1>3, <1>5, <1>6, <1>7, SizeNat
<1>9. Moved
  BY <1>2, <1>3, <1>4, <1>5, <1>6, <1>8 DEF Moved
<1>10. o' - 1 \in Nat /\ o - 1 + 1 = o /\ o - 1 + 2 = o + 1 /\ o' - 1 = o - 1 + 2
  BY <1>3, <1>6, SizeNat
<1>11. ASSUME NEW pad PROVE Lies(block, header', nc', pad, "chan", o - 1, o' - 1)
  BY <1>1, <1>2, <1>5, <1>10 DEF Lies, Numbers, Texts
<1>12. Takes(o - 1, header', nc', o' - 1, 0)
  BY <1>1, <1>4, <1>7, <1>10, <1>11 DEF Takes
<1> QED BY <1>4, <1>5, <1>6, <1>7, <1>9, <1>12

LEMMA GainTakes ==
    ASSUME TypeInv, Gain, result' # "malformed"
    PROVE  /\ Moved /\ at = 8
           /\ Takes(o - 1, header', nc', o' - 1, 0)
           /\ nc' = nc /\ o' = o + 1 + nc
           /\ header'.gain = SubSeq(block, o + 1, o + nc)
           /\ nc \in Nat /\ StandsIn(block, header'.gain, o) /\ Len(header'.gain) = nc
<1>1. Tagged /\ Section = "gain" /\ GoOn(o + 1 + nc) /\ nc' = nc
      /\ header' = [header EXCEPT !["gain"] = SubSeq(block, o + 1, o + nc)]
  BY DEF Gain
<1>2. /\ result = "reading" /\ block[o] = Section /\ o + 1 \in 1 .. Size
  BY <1>1, TagFacts
<1>3. /\ o \in 1 .. Size /\ at \in 1 .. 16 /\ nc \in 0 .. MaxChannels
      /\ header \in Struct /\ (at > 7 => nc \in 1 .. MaxChannels)
  BY <1>2, StateFacts
<1>4. /\ o + 1 + nc <= Size /\ o' = o + 1 + nc /\ at' = at + 1
      /\ result' = "reading" /\ input' = input
  <2>1. o + 1 + nc \in Nat
    BY <1>3, SizeNat
  <2> QED BY <1>1, <1>2, <2>1, GoesOn
<1>5. at = 8 /\ Section \notin Texts /\ Section \notin Padded /\ Section \notin Numbers
  BY <1>1, <1>3, SectionFacts, PaddedIs DEF Section
<1>6. PICK v \in Seq(Places) : /\ v = SubSeq(block, o + 1, o + nc) /\ Len(v) = nc
                               /\ StandsIn(block, v, o)
  <2>1. o \in Nat /\ nc \in Nat /\ o + nc <= Size
    BY <1>3, <1>4, SizeNat
  <2> QED BY <2>1, Slice
<1>7. /\ header' \in Struct /\ header'["gain"] = v
      /\ \A t \in FieldNames \ {"alia"} : t # "gain" => header[t] = header'[t]
  <2>1. Suits("gain", v)
    BY DEF Suits
  <2>2. Becomes(header, header', "gain", v)
    <3>1. "gain" \in FieldNames
      BY DEF FieldNames
    <3>2. header' = [header EXCEPT !["gain"] = v]
      BY <1>1, <1>6
    <3> QED BY <1>3, <3>1, <3>2, ExceptBecomes
  <2> QED BY <1>3, <2>1, <2>2, FieldSet, Unchanged
<1>8. at \in 1 .. 15 /\ o' \in 1 .. Size /\ (at >= 7 => nc' \in 1 .. MaxChannels)
  BY <1>1, <1>3, <1>4, <1>5, SizeNat
<1>9. Moved
  BY <1>1, <1>2, <1>3, <1>4, <1>7, <1>8 DEF Moved
<1>10. /\ o' - 1 \in Nat /\ o - 1 + 1 = o /\ o' - 1 = o - 1 + 1 + nc
  BY <1>3, <1>4, SizeNat
<1>11. ASSUME NEW pad PROVE Lies(block, header', nc', pad, "gain", o - 1, o' - 1)
  <2>1. header'.gain = v
    BY <1>7
  <2>2. block[o - 1 + 1] = "gain" /\ StandsIn(block, v, o - 1 + 1) /\ o' - 1 = o - 1 + 1 + Len(v)
    BY <1>1, <1>2, <1>6, <1>10
  <2> QED BY <2>1, <2>2 DEF Lies, Numbers, Texts
<1>12. Takes(o - 1, header', nc', o' - 1, 0)
  BY <1>1, <1>5, <1>7, <1>10, <1>11 DEF Takes
<1>13. nc \in Nat
  BY <1>3, SizeNat
<1> QED BY <1>1, <1>4, <1>5, <1>6, <1>7, <1>9, <1>12, <1>13

\* Where the reader goes on, behind a text of n letters at p + 1.
LEMMA PaddingFacts ==
    ASSUME NEW p \in Nat, NEW n \in Nat, p + n + 1 <= Size,
           NEW q, q = SkipZeros(p + n + 2), q <= Size
    PROVE  /\ q \in Nat /\ q - 1 \in Nat /\ q - (p + n + 2) \in ZeroRuns(block)
           /\ q - (p + n + 2) \in Nat
           /\ Blank(block, p + n + 2, q - 1) /\ block[q] # Zero
<1>1. PICK r \in 1 .. Size + 1 : r = p + n + 2
  <2>1. p + n + 2 \in 1 .. Size + 1
    BY SizeNat
  <2> QED BY <2>1
<1>2. /\ q \in r .. Size + 1 /\ block[q] # Zero
      /\ \A i \in r .. q - 1 : block[i] = Zero
  BY <1>1, SizeNat, SkipFacts
<1>3. PICK z \in 0 .. Size : z = q - r /\ r + z = q
  <2>1. q - r \in 0 .. Size /\ r + (q - r) = q
    BY <1>2, SizeNat
  <2> QED BY <2>1
<1>4. r \in 1 .. Size - z /\ block[r + z] # Zero /\ \A i \in r .. r + z - 1 : block[i] = Zero
  BY <1>2, <1>3, SizeNat
<1>5. z \in ZeroRuns(block)
  BY <1>4 DEF ZeroRuns
<1>6. Blank(block, r, q - 1)
  BY <1>2 DEF Blank
<1>7. q \in Nat /\ q - 1 \in Nat /\ z \in Nat
  BY <1>2, <1>3, SizeNat
<1> QED BY <1>1, <1>2, <1>3, <1>5, <1>6, <1>7

LEMMA TextTakes ==
    ASSUME TypeInv, Text, result' # "malformed"
    PROVE  /\ Moved /\ at \in 10 .. 13
           /\ \E z : Takes(o - 1, header', nc', o' - 1, z)
           /\ nc' = nc /\ StrLen(o + 1) < Limit
           /\ header'[Section] = TextAt(o + 1)
           /\ o' = SkipZeros(o + 1 + StrLen(o + 1) + 1)
<1>1. Tagged /\ Section \in Texts
  BY DEF Text
<1>2. /\ result = "reading" /\ block[o] = Section /\ o + 1 \in 1 .. Size
  BY <1>1, TagFacts
<1>3. /\ o \in 1 .. Size /\ at \in 1 .. 16 /\ nc \in 0 .. MaxChannels
      /\ header \in Struct /\ (at > 7 => nc \in 1 .. MaxChannels) /\ block[Size] = Zero
  BY <1>2, StateFacts
<1>4. /\ ~ (StrLen(o + 1) >= Limit) /\ nc' = nc
      /\ GoOn(SkipZeros(o + 1 + StrLen(o + 1) + 1))
      /\ header' = [header EXCEPT ![Section] = TextAt(o + 1)]
  BY DEF Text, Refuse
<1>5. PICK v \in Seq(Places), n \in Nat :
          /\ v = TextAt(o + 1) /\ n = StrLen(o + 1) /\ Len(v) = n
          /\ o + n + 1 <= Size /\ Ended(block, v, o)
  <2>1. o \in Nat /\ o + 1 <= Size
    BY <1>2, <1>3, SizeNat
  <2> QED BY <1>3, <2>1, TextSlice
<1>6. PICK q : q = SkipZeros(o + n + 2)
  OBVIOUS
<1>7. SkipZeros(o + 1 + StrLen(o + 1) + 1) = q
  <2>1. o + 1 + n + 1 = o + n + 2
    BY <1>3, SizeNat
  <2> QED BY <1>5, <1>6, <2>1
<1>8. q \in Nat
  <2>1. o + n + 2 \in 1 .. Size + 1
    BY <1>3, <1>5, SizeNat
  <2>2. q \in o + n + 2 .. Size + 1
    BY <1>6, <2>1, SizeNat, SkipFacts
  <2> QED BY <1>3, <2>2, SizeNat
<1>9. /\ q <= Size /\ o' = q /\ at' = at + 1 /\ result' = "reading" /\ input' = input
  BY <1>2, <1>4, <1>7, <1>8, GoesOn
<1>10. at \in 10 .. 13 /\ Section \notin Numbers
       /\ Section \notin {"sync", "name", "chan", "gain", "alia", "cmnt"}
  BY <1>1, <1>3, SectionFacts DEF Section
<1>11. PICK z \in Nat : /\ z = q - (o + n + 2) /\ z \in ZeroRuns(block)
                        /\ Blank(block, o + n + 2, q - 1) /\ q - 1 \in Nat
  <2>1. o \in Nat
    BY <1>3, SizeNat
  <2> QED BY <1>5, <1>6, <1>9, <2>1, PaddingFacts
<1>12. /\ header' \in Struct /\ header'[Section] = v
       /\ \A t \in FieldNames \ {"alia"} : t # Section => header[t] = header'[t]
  <2>1. Suits(Section, v)
    BY <1>1 DEF Suits
  <2>2. Becomes(header, header', Section, v)
    <3>1. Section \in FieldNames
      BY <1>1 DEF Texts, FieldNames
    <3>2. header' = [header EXCEPT ![Section] = v]
      BY <1>4, <1>5
    <3> QED BY <1>3, <3>1, <3>2, ExceptBecomes
  <2> QED BY <1>3, <2>1, <2>2, FieldSet, Unchanged
<1>13. at \in 1 .. 15 /\ o' \in 1 .. Size /\ (at >= 7 => nc' \in 1 .. MaxChannels)
  <2>1. o' >= o + n + 2
    BY <1>3, <1>5, <1>8, <1>9, <1>11, SizeNat
  <2> QED BY <1>3, <1>4, <1>5, <1>8, <1>9, <1>10, <2>1, SizeNat
<1>14. Moved
  BY <1>2, <1>3, <1>4, <1>9, <1>12, <1>13 DEF Moved
<1>15. /\ o - 1 + 1 = o /\ o - 1 + 1 + n + 2 = o + n + 2
       /\ q - 1 = o - 1 + 1 + n + 1 + z
  BY <1>3, <1>8, <1>11, SizeNat
<1>16. ASSUME NEW pad, pad[Section] = z
       PROVE  Lies(block, header', nc', pad, Section, o - 1, q - 1)
  <2>1. /\ block[o - 1 + 1] = Section /\ Ended(block, v, o - 1 + 1)
        /\ q - 1 = o - 1 + 1 + Len(v) + 1 + pad[Section]
        /\ Blank(block, o - 1 + 1 + Len(v) + 2, q - 1)
    BY <1>2, <1>5, <1>11, <1>15, <1>16
  <2> QED BY <1>1, <1>10, <1>12, <2>1 DEF Lies
<1>17. Section \in Padded
  BY <1>1 DEF Padded
<1>18. Len(header'[Section]) < Limit
  <2>1. n < Limit
    BY <1>4, <1>5, SizeNat
  <2> QED BY <1>5, <1>12, <2>1
<1>19. at # 7
  BY <1>10
<1>20. Takes(o - 1, header', nc', q - 1, z)
  BY <1>4, <1>11, <1>12, <1>16, <1>17, <1>18, <1>19 DEF Takes
<1> QED BY <1>4, <1>5, <1>7, <1>9, <1>10, <1>12, <1>14, <1>20, SizeNat

LEMMA AliasTakes ==
    ASSUME TypeInv, ChannelNames, result' # "malformed"
    PROVE  /\ Moved /\ at = 14
           /\ Takes(o - 1, header', nc', o' - 1, 0)
           /\ nc' = nc /\ o' = o + 1 /\ header'.alia = << >>
<1>1. Tagged /\ Section = "alia" /\ GoOn(o + 1) /\ nc' = nc
      /\ header' = [header EXCEPT !["alia"] = << >>]
  BY DEF ChannelNames
<1>2. /\ result = "reading" /\ block[o] = Section /\ o + 1 \in 1 .. Size
  BY <1>1, TagFacts
<1>3. /\ o \in 1 .. Size /\ at \in 1 .. 16 /\ nc \in 0 .. MaxChannels
      /\ header \in Struct /\ (at > 7 => nc \in 1 .. MaxChannels)
  BY <1>2, StateFacts
<1>4. /\ o + 1 <= Size /\ o' = o + 1 /\ at' = at + 1 /\ result' = "reading" /\ input' = input
  <2>1. o + 1 \in Nat
    BY <1>3, SizeNat
  <2> QED BY <1>1, <1>2, <2>1, GoesOn
<1>5. at = 14 /\ Section \notin Texts /\ Section \notin Padded /\ Section \notin Numbers
  BY <1>1, <1>3, SectionFacts, PaddedIs DEF Section
<1>6. PICK v \in Seq(Seq(Places)) : v = << >>
  <2>1. << >> \in Seq(Seq(Places))
    BY EmptySeq
  <2> QED BY <2>1
<1>7. /\ header' \in Struct /\ header'["alia"] = v
      /\ \A t \in FieldNames \ {"alia"} : t # "alia" => header[t] = header'[t]
  <2>1. Suits("alia", v)
    BY DEF Suits
  <2>2. Becomes(header, header', "alia", v)
    <3>1. "alia" \in FieldNames
      BY DEF FieldNames
    <3>2. header' = [header EXCEPT !["alia"] = v]
      BY <1>1, <1>6
    <3> QED BY <1>3, <3>1, <3>2, ExceptBecomes
  <2> QED BY <1>3, <2>1, <2>2, FieldSet, Unchanged
<1>8. at \in 1 .. 15 /\ o' \in 1 .. Size /\ (at >= 7 => nc' \in 1 .. MaxChannels)
  BY <1>1, <1>3, <1>4, <1>5, SizeNat
<1>9. Moved
  BY <1>1, <1>2, <1>3, <1>4, <1>7, <1>8 DEF Moved
<1>10. /\ o' - 1 \in Nat /\ o - 1 + 1 = o /\ o' - 1 = o - 1 + 1
  BY <1>3, <1>4, SizeNat
<1>11. ASSUME NEW pad PROVE Lies(block, header', nc', pad, "alia", o - 1, o' - 1)
  BY <1>1, <1>2, <1>10 DEF Lies, Numbers, Texts
<1>12. Takes(o - 1, header', nc', o' - 1, 0)
  BY <1>1, <1>5, <1>7, <1>10, <1>11 DEF Takes
<1> QED BY <1>1, <1>4, <1>5, <1>6, <1>7, <1>9, <1>12

\* The names of h that are read, from p on: the k-th of n ends at p + ncut[k].
NamesRead(h, n, p, ncut) ==
    /\ ncut \in [0 .. n -> Nat] /\ ncut[0] = 0 /\ Len(h.alia) \in 0 .. n
    /\ NamesLie(block, h.alia, p, ncut, Len(h.alia))
    /\ \A k \in 1 .. Len(h.alia) : Len(h.alia[k]) < Limit

\* The reader stands at a name.
AtName(p, ncut) ==
    /\ NamesRead(header, nc, p, ncut) /\ Len(header.alia) < nc
    /\ o = p + ncut[Len(header.alia)] + 1

LEMMA NameFacts ==
    ASSUME TypeInv, Name, result' # "malformed"
    PROVE  /\ result = "reading" /\ result' = "reading" /\ input' = input
           /\ at = 15 /\ nc' = nc /\ header' \in Struct
           /\ header'.alia = Append(header.alia, TextAt(o))
           /\ \A t \in FieldNames \ {"alia"} : header[t] = header'[t]
           /\ StrLen(o) \in Nat /\ StrLen(o) < Limit /\ o + StrLen(o) + 1 \in 1 .. Size
           /\ TextAt(o) \in Seq(Places) /\ Len(TextAt(o)) = StrLen(o)
           /\ Ended(block, TextAt(o), o - 1)
           /\ Len(header.alia) + 1 # nc => o' = o + StrLen(o) + 1 /\ at' = at
           /\ Len(header.alia) + 1 = nc =>
                  /\ o' = SkipZeros(o + StrLen(o) + 1) /\ o' \in 1 .. Size
                  /\ o' > o + StrLen(o) /\ at' = 16
<1>1. result = "reading" /\ Section = "name"
  BY DEF Name
<1>2. /\ o \in 1 .. Size /\ at \in 1 .. 16 /\ nc \in 0 .. MaxChannels
      /\ header \in Struct /\ block[Size] = Zero
      /\ o - 1 \in Nat /\ o - 1 + 1 = o
  BY <1>1, StateFacts
<1>3. at = 15
  BY <1>1, <1>2, SectionFacts DEF Section
<1>4. /\ ~ (StrLen(o) >= Limit) /\ ~ (o + StrLen(o) + 1 > Size) /\ nc' = nc
      /\ header' = [header EXCEPT !["alia"] = Append(@, TextAt(o))]
      /\ IF Len(header.alia) + 1 = nc
         THEN GoOn(SkipZeros(o + StrLen(o) + 1))
         ELSE /\ o' = o + StrLen(o) + 1
              /\ UNCHANGED << input, at, result, hash >>
  BY DEF Name, Refuse
<1>5. PICK v \in Seq(Places), n \in Nat :
          /\ v = TextAt(o) /\ n = StrLen(o) /\ Len(v) = n /\ Ended(block, v, o - 1)
  <2>1. PICK p \in Nat : p = o - 1 /\ p + 1 = o /\ p + 1 <= Size
    BY <1>2, SizeNat
  <2> QED BY <1>2, <2>1, TextSlice
<1>6. n < Limit /\ o + n + 1 \in 1 .. Size
  BY <1>2, <1>4, <1>5, SizeNat
<1>7. /\ header' \in Struct /\ header'["alia"] = Append(header.alia, v)
      /\ \A t \in FieldNames \ {"alia"} : t # "alia" => header[t] = header'[t]
  <2>1. Append(header.alia, v) \in Seq(Seq(Places))
    BY <1>2, FieldFacts, AppendProperties
  <2>2. Suits("alia", Append(header.alia, v))
    BY <2>1 DEF Suits
  <2>3. PICK w : w = Append(header.alia, v) /\ Becomes(header, header', "alia", w)
    <3>1. "alia" \in FieldNames
      BY DEF FieldNames
    <3>2. header' = [header EXCEPT !["alia"] = Append(header.alia, v)]
      BY <1>4, <1>5
    <3>3. Becomes(header, header', "alia", Append(header.alia, v))
      BY <1>2, <3>1, <3>2, ExceptBecomes
    <3> QED BY <3>3
  <2>4. header' \in Struct
    BY <1>2, <2>2, <2>3, FieldSet
  <2>5. /\ header'["alia"] = w
        /\ \A t \in FieldNames \ {"alia"} : t # "alia" => header[t] = header'[t]
    BY <2>3 DEF Becomes
  <2> QED BY <2>3, <2>4, <2>5
<1>8. Len(header.alia) + 1 # nc =>
          /\ o' = o + n + 1 /\ at' = at /\ result' = "reading" /\ input' = input
  BY <1>1, <1>4, <1>5
<1>9. ASSUME Len(header.alia) + 1 = nc
      PROVE  /\ o' = SkipZeros(o + n + 1) /\ o' \in 1 .. Size /\ o' > o + n /\ at' = 16
             /\ result' = "reading" /\ input' = input
  <2>1. PICK q : q = SkipZeros(o + n + 1)
    OBVIOUS
  <2>2. q \in o + n + 1 .. Size + 1
    <3>1. o + n + 1 \in 1 .. Size + 1
      BY <1>6, SizeNat
    <3> QED BY <2>1, <3>1, SizeNat, SkipFacts
  <2>3. q \in Nat
    BY <1>6, <2>2, SizeNat
  <2>4. GoOn(q)
    BY <1>4, <1>5, <1>9, <2>1
  <2>5. q <= Size /\ o' = q /\ at' = at + 1 /\ result' = "reading" /\ input' = input
    BY <1>1, <2>3, <2>4, GoesOn
  <2>6. q \in 1 .. Size /\ q > o + n
    BY <1>2, <2>2, <2>5, SizeNat
  <2> QED BY <1>3, <2>1, <2>5, <2>6
<1>10. \A t \in FieldNames \ {"alia"} : header[t] = header'[t]
  BY <1>7
<1> QED BY <1>1, <1>3, <1>4, <1>5, <1>6, <1>7, <1>8, <1>9, <1>10

LEMMA NameReads ==
    ASSUME TypeInv, Name, result' # "malformed", NEW p \in Nat, NEW ncut,
           AtName(p, ncut)
    PROVE  \E ncut2 : /\ NamesRead(header', nc', p, ncut2)
                      /\ Len(header'.alia) = Len(header.alia) + 1
                      /\ p + ncut2[Len(header'.alia)] = o + StrLen(o)
<1>1. /\ result = "reading" /\ header'.alia = Append(header.alia, TextAt(o)) /\ nc' = nc
      /\ StrLen(o) \in Nat /\ StrLen(o) < Limit
      /\ TextAt(o) \in Seq(Places) /\ Len(TextAt(o)) = StrLen(o)
      /\ Ended(block, TextAt(o), o - 1)
  BY NameFacts
<1>2. header \in Struct /\ o - 1 \in Nat /\ o - 1 + 1 = o /\ nc \in Nat
  BY <1>1, SizeNat, StateFacts
<1>3. PICK v \in Seq(Places), l \in Nat, names \in Seq(Seq(Places)) :
          /\ v = TextAt(o) /\ l = StrLen(o) /\ names = header.alia /\ Len(v) = l
  BY <1>1, <1>2, FieldFacts
<1>4. PICK m \in Nat, names2 \in Seq(Seq(Places)) :
          /\ m = Len(names) /\ names2 = header'.alia /\ Len(names2) = m + 1
          /\ (\A i \in 1 .. m : names2[i] = names[i]) /\ names2[m + 1] = v
  <2>1. Append(names, v) = header'.alia
    BY <1>1, <1>3
  <2>2. PICK m \in Nat : m = Len(names)
    BY LenProperties
  <2>3. PICK names2 : names2 = Append(names, v)
    OBVIOUS
  <2>4. /\ names2 \in Seq(Seq(Places)) /\ Len(names2) = m + 1
        /\ (\A i \in 1 .. m : names2[i] = names[i]) /\ names2[m + 1] = v
    BY <2>2, <2>3, AppendProperties
  <2> QED BY <2>1, <2>2, <2>3, <2>4
<1>5. /\ ncut \in [0 .. nc -> Nat] /\ ncut[0] = 0 /\ m + 1 \in 0 .. nc /\ m \in 0 .. nc
      /\ NamesLie(block, names, p, ncut, m)
      /\ \A k \in 1 .. m : Len(names[k]) < Limit
  <2>1. /\ ncut \in [0 .. nc -> Nat] /\ ncut[0] = 0 /\ m \in 0 .. nc /\ m < nc
        /\ NamesLie(block, names, p, ncut, m)
        /\ \A k \in 1 .. m : Len(names[k]) < Limit
    BY <1>3, <1>4 DEF AtName, NamesRead
  <2>2. m + 1 \in 0 .. nc
    BY <1>2, <2>1
  <2> QED BY <2>1, <2>2
<1>6. PICK u \in Nat : u = ncut[m] /\ o = p + u + 1
  BY <1>3, <1>4, <1>5 DEF AtName
<1> DEFINE ncut2 == [ncut EXCEPT ![m + 1] = u + l + 1]
<1>7. /\ ncut2 \in [0 .. nc -> Nat] /\ ncut2[m + 1] = u + l + 1
      /\ \A k \in 0 .. m : ncut2[k] = ncut[k]
  <2>1. \A k \in 0 .. m : k # m + 1 /\ k \in 0 .. nc
    BY <1>2, <1>5
  <2>2. u + l + 1 \in Nat
    OBVIOUS
  <2> QED BY <1>5, <2>1, <2>2
<1> HIDE DEF ncut2
<1>8. ASSUME NEW k \in 1 .. m + 1
      PROVE  /\ ncut2[k] = ncut2[k - 1] + Len(names2[k]) + 1
             /\ Ended(block, names2[k], p + ncut2[k - 1])
             /\ Len(names2[k]) < Limit
  <2>1. CASE k = m + 1
    <3>1. k - 1 = m /\ m \in 0 .. m
      BY <2>1
    <3>2. ncut2[k - 1] = u /\ names2[k] = v
      BY <1>4, <1>6, <1>7, <2>1, <3>1
    <3>3. p + u = o - 1
      BY <1>6
    <3> QED BY <1>1, <1>3, <1>7, <2>1, <3>2, <3>3
  <2>2. CASE k \in 1 .. m
    <3>1. k \in 0 .. m /\ k - 1 \in 0 .. m
      BY <2>2
    <3>2. ncut2[k] = ncut[k] /\ ncut2[k - 1] = ncut[k - 1] /\ names2[k] = names[k]
      BY <1>4, <1>7, <2>2, <3>1
    <3>3. /\ ncut[k] = ncut[k - 1] + Len(names[k]) + 1
          /\ Ended(block, names[k], p + ncut[k - 1])
      BY <1>5, <2>2 DEF NamesLie
    <3> QED BY <1>5, <2>2, <3>2, <3>3
  <2>3. k = m + 1 \/ k \in 1 .. m
    OBVIOUS
  <2> QED BY <2>1, <2>2, <2>3
<1>9. NamesLie(block, names2, p, ncut2, m + 1)
  BY <1>8 DEF NamesLie
<1>10. ncut2[0] = 0
  <2>1. 0 \in 0 .. m
    OBVIOUS
  <2> QED BY <1>5, <1>7, <2>1
<1>11. NamesRead(header', nc', p, ncut2)
  BY <1>1, <1>4, <1>5, <1>7, <1>8, <1>9, <1>10 DEF NamesRead
<1>12. p + ncut2[m + 1] = o + l
  BY <1>6, <1>7
<1> QED BY <1>3, <1>4, <1>11, <1>12

\* With the last name the section is complete.
LEMMA NamesTaken ==
    ASSUME TypeInv, Name, result' # "malformed", NEW p \in Nat, NEW ncut,
           AtName(p, ncut), Len(header.alia) + 1 = nc
    PROVE  \E z : Takes(p, header', nc', o' - 1, z)
<1>1. /\ result = "reading" /\ at = 15 /\ nc' = nc
      /\ \A t \in FieldNames \ {"alia"} : header[t] = header'[t]
      /\ StrLen(o) \in Nat /\ o + StrLen(o) + 1 \in 1 .. Size
      /\ o' = SkipZeros(o + StrLen(o) + 1) /\ o' \in 1 .. Size
  BY NameFacts
<1>2. o \in 1 .. Size /\ nc \in 0 .. MaxChannels /\ o - 1 \in Nat /\ o - 1 + 1 = o
  BY <1>1, StateFacts
<1>3. PICK c : /\ NamesRead(header', nc, p, c) /\ Len(header'.alia) = nc
               /\ p + c[nc] = o + StrLen(o)
  BY <1>1, NameReads
<1>4. PICK l \in Nat, q \in 1 .. Size : l = StrLen(o) /\ q = o' /\ q = SkipZeros(o + l + 1)
  BY <1>1
<1>5. PICK z \in Nat : /\ z = q - (o + l + 1) /\ z \in ZeroRuns(block)
                       /\ Blank(block, o + l + 1, q - 1) /\ q - 1 \in Nat
  <2>1. PICK r \in Nat : r = o - 1 /\ r + l + 1 <= Size /\ r + l + 2 = o + l + 1
    <3>1. o + l + 1 <= Size
      BY <1>1, <1>4, SizeNat
    <3>2. o - 1 + l + 1 <= Size /\ o - 1 + l + 2 = o + l + 1
      BY <1>2, <3>1, SizeNat
    <3> QED BY <1>2, <3>2
  <2>2. q = SkipZeros(r + l + 2) /\ q <= Size
    BY <1>4, <2>1, SizeNat
  <2>3. /\ q - 1 \in Nat /\ q - (r + l + 2) \in ZeroRuns(block) /\ q - (r + l + 2) \in Nat
        /\ Blank(block, r + l + 2, q - 1)
    BY <2>1, <2>2, PaddingFacts
  <2> QED BY <2>1, <2>3
<1>6. /\ c \in [0 .. nc -> Nat] /\ c[0] = 0 /\ NamesLie(block, header'.alia, p, c, nc)
  BY <1>3 DEF NamesRead
<1>7. p + c[nc] + 1 = o + l + 1 /\ q - 1 = p + c[nc] + z
  <2>1. nc \in 0 .. nc
    BY <1>2, SizeNat
  <2>2. PICK u \in Nat : u = c[nc] /\ p + u = o + l
    BY <1>3, <1>4, <1>6, <2>1
  <2>3. PICK x \in Nat : x = o
    BY <1>2, SizeNat
  <2>4. z = q - (x + l + 1) /\ p + u = x + l
    BY <1>5, <2>2, <2>3
  <2>5. p + u + 1 = x + l + 1 /\ q - 1 = p + u + z
    BY <2>4, SizeNat
  <2> QED BY <2>2, <2>3, <2>5
<1>8. /\ Section = "name" /\ Section \notin Numbers /\ Section \notin Texts
  BY <1>1, SectionFacts DEF Section
<1>9. ASSUME NEW pad, pad["name"] = z
       PROVE  Lies(block, header', nc', pad, "name", p, q - 1)
  <2>1. /\ c[0] = 0 /\ NamesLie(block, header'.alia, p, c, nc)
        /\ q - 1 = p + c[nc] + pad["name"]
        /\ Blank(block, p + c[nc] + 1, q - 1)
    BY <1>5, <1>6, <1>7, <1>9
  <2>2. \E e \in [0 .. nc -> Nat] :
            /\ e[0] = 0 /\ NamesLie(block, header'.alia, p, e, nc)
            /\ q - 1 = p + e[nc] + pad["name"]
            /\ Blank(block, p + e[nc] + 1, q - 1)
    BY <1>6, <2>1
  <2> QED BY <1>1, <2>2 DEF Lies, Numbers, Texts
<1>10. Section \in Padded
  BY <1>8 DEF Padded
<1>11. \A t \in FieldNames \ {"alia"} : t # Section => header[t] = header'[t]
  BY <1>1
<1>12. Takes(p, header', nc', q - 1, z)
  BY <1>1, <1>5, <1>8, <1>9, <1>10, <1>11 DEF Takes
<1> QED BY <1>4, <1>12

LEMMA CommentFacts ==
    ASSUME TypeInv, Comment
    PROVE  /\ result = "reading" /\ result' = "ok" /\ input' = input /\ at = 16
           /\ o' = o /\ at' = at /\ nc' = nc /\ header' \in Struct
           /\ header'.cmnt = TextAt(o + 1)
           /\ \A t \in FieldNames : t # "cmnt" => header[t] = header'[t]
           /\ o + StrLen(o + 1) + 1 <= Size /\ o + StrLen(o + 1) + 1 \in Nat
           /\ \A n, pad : Lies(block, header', n, pad, "cmnt", o - 1, o + StrLen(o + 1) + 1)
<1>1. Tagged /\ Section = "cmnt"
  BY DEF Comment
<1>2. /\ result = "reading" /\ block[o] = Section /\ o + 1 \in 1 .. Size
  BY <1>1, TagFacts
<1>3. /\ o \in 1 .. Size /\ at \in 1 .. 16 /\ header \in Struct /\ block[Size] = Zero
  BY <1>2, StateFacts
<1>4. at = 16
  BY <1>1, <1>3, SectionFacts DEF Section
<1>5. PICK v \in Seq(Places), n \in Nat :
          /\ v = TextAt(o + 1) /\ n = StrLen(o + 1) /\ Len(v) = n
          /\ o + n + 1 <= Size /\ Ended(block, v, o)
  <2>1. o \in Nat /\ o + 1 <= Size
    BY <1>2, <1>3, SizeNat
  <2> QED BY <1>3, <2>1, TextSlice
<1>6. /\ result' = "ok" /\ input' = input /\ o' = o /\ at' = at /\ nc' = nc
      /\ header' = [header EXCEPT !["cmnt"] = v]
  BY <1>5 DEF Comment
<1>7. Suits("cmnt", v)
  BY DEF Suits
<1>8. Becomes(header, header', "cmnt", v)
  <2>1. "cmnt" \in FieldNames
    BY DEF FieldNames
  <2> QED BY <1>3, <1>6, <2>1, ExceptBecomes
<1>9. header' \in Struct
  BY <1>3, <1>7, <1>8, FieldSet
<1>10. header'["cmnt"] = v /\ \A t \in FieldNames : t # "cmnt" => header[t] = header'[t]
  BY <1>8 DEF Becomes
<1>11. o - 1 + 1 = o /\ o + n + 1 \in Nat
  BY <1>3, <1>5, SizeNat
<1>12. ASSUME NEW m, NEW pad
       PROVE  Lies(block, header', m, pad, "cmnt", o - 1, o + n + 1)
  <2>1. block[o - 1 + 1] = "cmnt" /\ Ended(block, v, o - 1 + 1) /\ o + n + 1 = o - 1 + 1 + Len(v) + 1
    BY <1>1, <1>2, <1>5, <1>11
  <2>2. header'.cmnt = v
    BY <1>10
  <2> QED BY <2>1, <2>2 DEF Lies, Numbers, Texts
<1> QED BY <1>2, <1>4, <1>5, <1>6, <1>9, <1>10, <1>11, <1>12

-----------------------------------------------------------------------------
(***************************************************************************)
(* Types                                                                   *)
(***************************************************************************)

LEMMA TypeInit == HeaderInit => TypeInv
<1>1. ASSUME HeaderInit PROVE TypeInv
  <2>1. header \in Struct
    BY <1>1, BlocksAssumption DEF HeaderInit
  <2>2. 1 \in 1 .. Size /\ 0 \in 0 .. MaxChannels /\ 1 \in 1 .. 16
    BY SizeNat
  <2>3. /\ \E x \in Blocks : written = x[1] /\ block = x[2] /\ bytes = x[3]
        /\ o = 1 /\ at = 1 /\ nc = 0 /\ result = "new"
    BY <1>1 DEF HeaderInit
  <2> QED BY <2>1, <2>2, <2>3 DEF TypeInv
<1> QED BY <1>1

\* The block stays.
LEMMA InputKept ==
    ASSUME TypeInv, input' = input
    PROVE  /\ \E x \in Blocks : written' = x[1] /\ block' = x[2] /\ bytes' = x[3]
           /\ written' = written /\ block' = block /\ bytes' = bytes
BY DEF TypeInv, input

LEMMA MovedType ==
    ASSUME TypeInv, Moved
    PROVE  TypeInv'
<1>1. /\ result = "reading" /\ result' = "reading" /\ input' = input
      /\ at \in 1 .. 15 /\ at' = at + 1 /\ o' \in 1 .. Size
      /\ header' \in Struct /\ nc' \in 0 .. MaxChannels
      /\ (at >= 7 => nc' \in 1 .. MaxChannels)
  BY DEF Moved
<1>2. /\ \E x \in Blocks : written' = x[1] /\ block' = x[2] /\ bytes' = x[3]
      /\ block' = block
  BY <1>1, InputKept
<1>3. block[Size] = Zero
  BY <1>1, StateFacts
<1>4. at' \in 1 .. 16 /\ (at' > 7 => nc' \in 1 .. MaxChannels)
  BY <1>1
<1> QED BY <1>1, <1>2, <1>3, <1>4 DEF TypeInv

\* A refused block.
LEMMA RefusedFacts ==
    ASSUME TypeInv, HeaderNext, result' = "malformed"
    PROVE  input' = input /\ o' = o /\ at' = at /\ nc' \in 0 .. MaxChannels
<1>1. nc \in 0 .. MaxChannels
  BY DEF TypeInv
<1>2. CASE LastByte
  BY <1>1, <1>2 DEF LastByte
<1>3. CASE TagMissing
  BY <1>1, <1>3 DEF TagMissing, Refuse
<1>4. ASSUME NEW p, GoOn(p), result \in {"reading"}
      PROVE  input' = input /\ o' = o /\ at' = at
  BY <1>4 DEF GoOn
<1>5. CASE Number
  BY <1>1, <1>5, <1>4 DEF Number, Tagged
<1>6. CASE Sync
  BY <1>1, <1>6, <1>4 DEF Sync
<1>7. CASE ChannelCount
  <2>1. ASSUME \E n \in 1 .. MaxChannels : block[o + 1] = Counts[n],
               nc' = CHOOSE n \in 1 .. MaxChannels : block[o + 1] = Counts[n],
               GoOn(o + 2)
        PROVE  nc' \in 0 .. MaxChannels /\ input' = input /\ o' = o /\ at' = at
    <3>1. nc' \in 1 .. MaxChannels
      BY <2>1
    <3>2. result = "reading"
      BY <1>7 DEF ChannelCount, Tagged
    <3> QED BY <1>4, <2>1, <3>1, <3>2, SizeNat
  <2>2. CASE Refuse
    BY <1>1, <2>2 DEF Refuse
  <2> QED BY <1>7, <2>1, <2>2 DEF ChannelCount
<1>8. CASE Gain
  BY <1>1, <1>8, <1>4 DEF Gain, Tagged
<1>9. CASE Text
  BY <1>1, <1>9, <1>4 DEF Text, Tagged, Refuse
<1>10. CASE ChannelNames
  BY <1>1, <1>10, <1>4 DEF ChannelNames, Tagged
<1>11. CASE Name
  <2>1. CASE Refuse
    BY <1>1, <2>1 DEF Refuse
  <2>2. CASE nc' = nc /\ \E p : GoOn(p)
    BY <1>1, <1>11, <1>4, <2>2 DEF Name
  <2>3. CASE UNCHANGED result
    BY <1>11, <2>3 DEF Name
  <2> QED BY <1>11, <2>1, <2>2, <2>3 DEF Name
<1>12. CASE Comment
  BY <1>12 DEF Comment
<1>13. CASE ParseHeader
  BY <1>13 DEF ParseHeader
<1> QED BY <1>2, <1>3, <1>5, <1>6, <1>7, <1>8, <1>9, <1>10, <1>11, <1>12, <1>13 DEF HeaderNext

LEMMA TypeNext == TypeInv /\ [HeaderNext]_headerVars => TypeInv'
<1> SUFFICES ASSUME TypeInv, [HeaderNext]_headerVars PROVE TypeInv'
  OBVIOUS
<1>1. CASE UNCHANGED headerVars
  BY <1>1 DEF TypeInv, headerVars, input, Reported, TimeOf, FromBcd
<1>2. CASE HeaderNext /\ result' = "malformed"
  <2>1. input' = input /\ o' = o /\ at' = at /\ nc' \in 0 .. MaxChannels
    BY <1>2, RefusedFacts
  <2>2. \E x \in Blocks : written' = x[1] /\ block' = x[2] /\ bytes' = x[3]
    BY <2>1, InputKept
  <2>3. o \in 1 .. Size /\ at \in 1 .. 16
    BY DEF TypeInv
  <2> QED BY <1>2, <2>1, <2>2, <2>3 DEF TypeInv
<1>3. ASSUME HeaderNext, result' # "malformed" PROVE TypeInv'
  <2>1. CASE LastByte
    <3>1. /\ result = "new" /\ result' = "reading" /\ block[Size] = Zero
          /\ input' = input /\ o' = o /\ at' = at /\ nc' = nc /\ header' = header
      BY <1>3, <2>1 DEF LastByte
    <3>2. /\ \E x \in Blocks : written' = x[1] /\ block' = x[2] /\ bytes' = x[3]
          /\ block' = block
      BY <3>1, InputKept
    <3>3. o \in 1 .. Size /\ at = 1 /\ nc \in 0 .. MaxChannels /\ header \in Struct
      BY <3>1 DEF TypeInv
    <3>4. at' \in 1 .. 16 /\ ~ (at' > 7)
      BY <3>1, <3>3
    <3> QED BY <3>1, <3>2, <3>3, <3>4 DEF TypeInv
  <2>2. CASE TagMissing
    BY <1>3, <2>2 DEF TagMissing, Refuse
  <2>3. CASE Number
    BY <1>3, <2>3, NumberTakes, MovedType
  <2>4. CASE Sync
    BY <1>3, <2>4, SyncTakes, MovedType
  <2>5. CASE ChannelCount
    BY <1>3, <2>5, CountTakes, MovedType
  <2>6. CASE Gain
    BY <1>3, <2>6, GainTakes, MovedType
  <2>7. CASE Text
    BY <1>3, <2>7, TextTakes, MovedType
  <2>8. CASE ChannelNames
    BY <1>3, <2>8, AliasTakes, MovedType
  <2>9. CASE Name
    <3>1. /\ result = "reading" /\ result' = "reading" /\ input' = input
          /\ at = 15 /\ nc' = nc /\ header' \in Struct
          /\ o' \in 1 .. Size /\ at' \in {15, 16}
      BY <1>3, <2>9, NameFacts
    <3>2. /\ \E x \in Blocks : written' = x[1] /\ block' = x[2] /\ bytes' = x[3]
          /\ block' = block
      BY <3>1, InputKept
    <3>3. block[Size] = Zero /\ nc \in 0 .. MaxChannels /\ nc \in 1 .. MaxChannels
      BY <3>1, StateFacts
    <3>4. at' \in 1 .. 16
      BY <3>1
    <3> QED BY <3>1, <3>2, <3>3, <3>4 DEF TypeInv
  <2>10. CASE Comment
    <3>1. /\ result = "reading" /\ result' = "ok" /\ input' = input /\ at = 16
          /\ o' = o /\ at' = at /\ nc' = nc /\ header' \in Struct
      BY <2>10, CommentFacts
    <3>2. /\ \E x \in Blocks : written' = x[1] /\ block' = x[2] /\ bytes' = x[3]
          /\ block' = block
      BY <3>1, InputKept
    <3>3. /\ block[Size] = Zero /\ nc \in 0 .. MaxChannels /\ nc \in 1 .. MaxChannels
          /\ o \in 1 .. Size
      BY <3>1, StateFacts
    <3> QED BY <3>1, <3>2, <3>3 DEF TypeInv
  <2>11. CASE ParseHeader
    <3>1. /\ result = "ok" /\ result' = "parsed" /\ input' = input
          /\ o' = o /\ at' = at /\ nc' = nc /\ header' = header
          /\ hash' = Reported(header)
      BY <2>11 DEF ParseHeader
    <3>2. /\ \E x \in Blocks : written' = x[1] /\ block' = x[2] /\ bytes' = x[3]
          /\ block' = block /\ bytes' = bytes
      BY <3>1, InputKept
    <3>3. /\ o \in 1 .. Size /\ at = 16 /\ nc \in 0 .. MaxChannels /\ header \in Struct
          /\ block[Size] = Zero /\ (at > 7 => nc \in 1 .. MaxChannels)
      BY <3>1 DEF TypeInv
    <3>4. hash' = Reported(header)'
      BY <3>1, <3>2 DEF Reported, TimeOf, FromBcd
    <3> QED BY <3>1, <3>2, <3>3, <3>4 DEF TypeInv
  <2> QED BY <1>3, <2>1, <2>2, <2>3, <2>4, <2>5, <2>6, <2>7, <2>8, <2>9, <2>10, <2>11 DEF HeaderNext
<1> QED BY <1>1, <1>2, <1>3

-----------------------------------------------------------------------------
(***************************************************************************)
(* What is read is what stands there                                       *)
(***************************************************************************)

NamesFit(h, n) ==
    Len(h.alia) = n /\ \A k \in 1 .. n : Len(h.alia[k]) < Limit

\* The sections before the reader stand one behind the other, up to the reader.
Behind(pad, cut) ==
    /\ Laid(block, header, nc, pad, cut, at - 1)
    /\ Fitting(header, at - 1)
    /\ at # 15 => o = cut[at - 1] + 1
    /\ at = 15 => \E ncut : AtName(cut[14], ncut)
    /\ at = 16 => NamesFit(header, nc)

Whole(pad, cut) == Laid(block, header, nc, pad, cut, 16) /\ cut[16] <= Size

ReadInv ==
    /\ result = "reading" => \E pad, cut : Behind(pad, cut)
    /\ result \in {"ok", "parsed"} =>
           /\ Fitting(header, 16) /\ NamesFit(header, nc)
           /\ \E pad, cut : Whole(pad, cut)

LEMMA CutNat ==
    ASSUME NEW b, NEW h, NEW n, NEW pad, NEW cut, NEW m, Laid(b, h, n, pad, cut, m)
    PROVE  \A k \in 0 .. 16 : cut[k] \in Nat
BY DEF Laid

\* A section that is taken, but for the names.
LEMMA TakenBehind ==
    ASSUME TypeInv, Moved, at \in 1 .. 13, NEW pad, NEW cut, Behind(pad, cut), NEW z,
           Takes(o - 1, header', nc', o' - 1, z)
    PROVE  \E pad2, cut2 : Behind(pad2, cut2)'
<1>1. PICK a \in 1 .. 15 : a = at /\ a <= 13
  <2>1. at \in 1 .. 15 /\ at <= 13
    OBVIOUS
  <2> QED BY <2>1
<1>2. /\ Laid(block, header, nc, pad, cut, a - 1) /\ Fitting(header, a - 1)
      /\ o = cut[a - 1] + 1
  BY <1>1 DEF Behind
<1>3. cut[a - 1] = o - 1
  <2>1. cut[a - 1] \in Nat
    BY <1>1, <1>2, CutNat
  <2> QED BY <1>2, <2>1
<1>4. /\ \E pad2, cut2 : Laid(block, header', nc', pad2, cut2, a) /\ cut2[a] = o' - 1
      /\ Fitting(header', a)
  <2>1. /\ at = a /\ Laid(block, header, nc, pad, cut, a - 1) /\ Fitting(header, a - 1)
        /\ Takes(cut[a - 1], header', nc', o' - 1, z)
    BY <1>1, <1>2, <1>3
  <2> QED BY <2>1, Advance
<1>5. PICK pad2, cut2 : Laid(block, header', nc', pad2, cut2, a) /\ cut2[a] = o' - 1
  BY <1>4
<1>6. input' = input /\ at' = a + 1 /\ o' \in 1 .. Size
  BY <1>1 DEF Moved
<1>7. block' = block
  BY <1>6, InputKept
<1>8. at' - 1 = a /\ at' # 15 /\ at' # 16 /\ o' = cut2[a] + 1
  <2>1. PICK q \in Nat : q = o' /\ q - 1 + 1 = q
    BY <1>6, SizeNat
  <2>2. o' = cut2[a] + 1
    BY <1>5, <2>1
  <2>3. PICK e \in 1 .. 13 : e = a
    BY <1>1
  <2>4. at' = e + 1 /\ e + 1 - 1 = e /\ e + 1 # 15 /\ e + 1 # 16
    BY <1>6, <2>3
  <2> QED BY <2>2, <2>3, <2>4
<1>9. Behind(pad2, cut2)'
  <2>1. /\ Laid(block', header', nc', pad2, cut2, at' - 1) /\ Fitting(header', at' - 1)
        /\ o' = cut2[at' - 1] + 1 /\ at' # 15 /\ at' # 16
    BY <1>4, <1>5, <1>7, <1>8
  <2> QED BY <2>1 DEF Behind
<1> QED BY <1>9

LEMMA ReadInit == HeaderInit => ReadInv
BY DEF HeaderInit, ReadInv

LEMMA FirstBehind ==
    ASSUME TypeInv, LastByte, result' # "malformed"
    PROVE  ReadInv'
<1>1. /\ result = "new" /\ result' = "reading" /\ input' = input /\ o' = o
      /\ at' = at /\ nc' = nc /\ header' = header
  BY DEF LastByte
<1>2. o = 1 /\ at = 1
  BY <1>1 DEF TypeInv
<1>3. PICK pad, cut : pad = [t \in Padded |-> 0] /\ cut = [k \in 0 .. 16 |-> 0]
  OBVIOUS
<1>4. pad \in [Padded -> Nat] /\ cut \in [0 .. 16 -> Nat] /\ cut[0] = 0
  BY <1>3
<1>5. at' - 1 = 0 /\ at' # 15 /\ at' # 16 /\ o' = cut[0] + 1
  BY <1>1, <1>2, <1>4
<1>6. Laid(block', header', nc', pad, cut, 0) /\ Fitting(header', 0)
  BY <1>4 DEF Laid, Fitting
<1>7. Behind(pad, cut)'
  BY <1>5, <1>6 DEF Behind
<1> QED BY <1>1, <1>7 DEF ReadInv

\* The first place after the section "alia".
LEMMA NamesBegin ==
    ASSUME TypeInv, ChannelNames, result' # "malformed", NEW pad, NEW cut, Behind(pad, cut)
    PROVE  \E pad2, cut2 : Behind(pad2, cut2)'
<1>1. /\ Moved /\ at = 14 /\ Takes(o - 1, header', nc', o' - 1, 0)
      /\ nc' = nc /\ o' = o + 1 /\ header'.alia = << >>
  BY AliasTakes
<1>2. PICK a \in 1 .. 15 : a = 14 /\ a = at
  BY <1>1
<1>3. /\ Laid(block, header, nc, pad, cut, a - 1) /\ Fitting(header, a - 1)
      /\ o = cut[a - 1] + 1
  BY <1>1, <1>2 DEF Behind
<1>4. cut[a - 1] = o - 1
  <2>1. cut[a - 1] \in Nat
    BY <1>2, <1>3, CutNat
  <2> QED BY <1>3, <2>1
<1>5. /\ \E pad2, cut2 : Laid(block, header', nc', pad2, cut2, a) /\ cut2[a] = o' - 1
      /\ Fitting(header', a)
  <2>1. /\ at = a /\ Laid(block, header, nc, pad, cut, a - 1) /\ Fitting(header, a - 1)
        /\ Takes(cut[a - 1], header', nc', o' - 1, 0)
    BY <1>1, <1>2, <1>3, <1>4
  <2> QED BY <2>1, Advance
<1>6. PICK pad2, cut2 : Laid(block, header', nc', pad2, cut2, 14) /\ cut2[14] = o' - 1
  BY <1>2, <1>5
<1>7. input' = input /\ at' = 15 /\ o' \in 1 .. Size /\ nc' \in 1 .. MaxChannels
  BY <1>1 DEF Moved
<1>8. block' = block
  BY <1>7, InputKept
<1>9. PICK c : c = [k \in 0 .. nc' |-> 0]
  OBVIOUS
<1>10. nc' \in Nat /\ nc' > 0
  BY <1>7, SizeNat
<1>11. c \in [0 .. nc' -> Nat] /\ c[0] = 0
  BY <1>9, <1>10
<1>12. Len(header'.alia) = 0
  BY <1>1, EmptySeq
<1>13. NamesRead(header, nc, cut2[14], c)'
  <2>1. NamesLie(block', header'.alia, cut2[14], c, 0)
    BY DEF NamesLie
  <2>2. 0 \in 0 .. nc'
    BY <1>10
  <2> QED BY <1>11, <1>12, <2>1, <2>2 DEF NamesRead
<1>14. o' = cut2[14] + c[0] + 1
  <2>1. PICK q \in Nat : q = o' /\ q - 1 + 0 + 1 = q
    BY <1>7, SizeNat
  <2> QED BY <1>6, <1>11, <2>1
<1>15. AtName(cut2[14], c)'
  BY <1>10, <1>12, <1>13, <1>14 DEF AtName
<1>16. Behind(pad2, cut2)'
  <2>1. at' - 1 = 14 /\ at' # 16
    BY <1>7
  <2> QED BY <1>2, <1>5, <1>6, <1>7, <1>8, <1>15, <2>1 DEF Behind
<1> QED BY <1>16

LEMMA NameBehind ==
    ASSUME TypeInv, Name, result' # "malformed", NEW pad, NEW cut, Behind(pad, cut)
    PROVE  \E pad2, cut2 : Behind(pad2, cut2)'
<1>1. /\ result = "reading" /\ result' = "reading" /\ input' = input
      /\ at = 15 /\ nc' = nc /\ header' \in Struct
      /\ \A t \in FieldNames \ {"alia"} : header[t] = header'[t]
      /\ StrLen(o) \in Nat /\ o + StrLen(o) + 1 \in 1 .. Size
      /\ Len(header.alia) + 1 # nc => o' = o + StrLen(o) + 1 /\ at' = at
      /\ Len(header.alia) + 1 = nc => o' \in 1 .. Size /\ at' = 16
  BY NameFacts
<1>2. PICK ncut : AtName(cut[14], ncut)
  BY <1>1 DEF Behind
<1>3. /\ Laid(block, header, nc, pad, cut, 14) /\ Fitting(header, 14)
  <2>1. at - 1 = 14
    BY <1>1
  <2> QED BY <2>1 DEF Behind
<1>4. PICK p \in Nat : p = cut[14]
  BY <1>3, CutNat
<1>5. PICK ncut2 : /\ NamesRead(header', nc', p, ncut2)
                   /\ Len(header'.alia) = Len(header.alia) + 1
                   /\ p + ncut2[Len(header'.alia)] = o + StrLen(o)
  BY <1>2, <1>4, NameReads
<1>6. block' = block
  BY <1>1, InputKept
<1>7. Len(header.alia) \in Nat /\ Len(header.alia) < nc /\ nc \in Nat
  <2>1. Len(header.alia) \in 0 .. nc /\ Len(header.alia) < nc
    BY <1>2 DEF AtName, NamesRead
  <2>2. nc \in Nat
    BY <1>1, StateFacts, SizeNat
  <2> QED BY <2>1, <2>2
<1>8. CASE Len(header.alia) + 1 # nc
  <2>1. o' = o + StrLen(o) + 1 /\ at' = 15
    BY <1>1, <1>8
  <2>2. Laid(block, header', nc', pad, cut, 14)
    <3>1. /\ pad \in [Padded -> Nat] /\ cut \in [0 .. 16 -> Nat] /\ cut[0] = 0
          /\ \A k \in 1 .. 14 :
              /\ Lies(block, header, nc, pad, Sections[k], cut[k - 1], cut[k])
              /\ Sections[k] \in Padded => pad[Sections[k]] \in ZeroRuns(block)
      BY <1>3 DEF Laid
    <3>2. ASSUME NEW k \in 1 .. 14
          PROVE  Lies(block, header', nc', pad, Sections[k], cut[k - 1], cut[k])
      <4>1. SameField(header, header', Sections[k])
        BY <1>1 DEF SameField
      <4>2. Lies(block, header, nc, pad, Sections[k], cut[k - 1], cut[k])
        BY <3>1
      <4> QED BY <1>1, <4>1, <4>2, LiesKept
    <3> QED BY <3>1, <3>2 DEF Laid
  <2>3. Fitting(header', 14)
    <3>1. ASSUME NEW k \in 1 .. 14, Sections[k] \in Texts PROVE Len(header'[Sections[k]]) < Limit
      <4>1. Sections[k] \in FieldNames \ {"alia"}
        BY <3>1 DEF Texts, FieldNames
      <4>2. header[Sections[k]] = header'[Sections[k]]
        BY <1>1, <4>1
      <4>3. Len(header[Sections[k]]) < Limit
        BY <1>3, <3>1 DEF Fitting
      <4> QED BY <4>2, <4>3
    <3> QED BY <3>1 DEF Fitting
  <2>4. AtName(p, ncut2)'
    <3>1. Len(header'.alia) < nc'
      BY <1>1, <1>5, <1>7, <1>8
    <3>2. o' = p + ncut2[Len(header'.alia)] + 1
      BY <1>5, <2>1
    <3>3. NamesRead(header, nc, p, ncut2)'
      BY <1>5, <1>6 DEF NamesRead
    <3> QED BY <3>1, <3>2, <3>3 DEF AtName
  <2>5. Behind(pad, cut)'
    <3>1. at' - 1 = 14 /\ at' # 16
      BY <2>1
    <3> QED BY <1>4, <1>6, <2>1, <2>2, <2>3, <2>4, <3>1 DEF Behind
  <2> QED BY <2>5
<1>9. CASE Len(header.alia) + 1 = nc
  <2>1. PICK z : Takes(p, header', nc', o' - 1, z)
    BY <1>2, <1>4, <1>9, NamesTaken
  <2>2. PICK a \in 1 .. 15 : a = 15 /\ a - 1 = 14
    OBVIOUS
  <2>3. /\ \E pad2, cut2 : Laid(block, header', nc', pad2, cut2, a) /\ cut2[a] = o' - 1
        /\ Fitting(header', a)
    <3>1. at = a /\ Laid(block, header, nc, pad, cut, a - 1) /\ Fitting(header, a - 1)
          /\ Takes(cut[a - 1], header', nc', o' - 1, z)
      BY <1>1, <1>3, <1>4, <2>1, <2>2
    <3> QED BY <3>1, Advance
  <2>4. PICK pad2, cut2 : Laid(block, header', nc', pad2, cut2, 15) /\ cut2[15] = o' - 1
    BY <2>2, <2>3
  <2>5. o' \in 1 .. Size /\ at' = 16
    BY <1>1, <1>9
  <2>6. o' = cut2[15] + 1
    <3>1. PICK q \in Nat : q = o' /\ q - 1 + 1 = q
      BY <2>5, SizeNat
    <3> QED BY <2>4, <3>1
  <2>7. NamesFit(header', nc')
    <3>1. Len(header'.alia) = nc'
      BY <1>1, <1>5, <1>9
    <3> QED BY <1>5, <3>1 DEF NamesRead, NamesFit
  <2>8. Behind(pad2, cut2)'
    <3>1. at' - 1 = 15 /\ at' # 15
      BY <2>5
    <3> QED BY <1>6, <2>2, <2>3, <2>4, <2>6, <2>7, <3>1 DEF Behind
  <2> QED BY <2>8
<1> QED BY <1>8, <1>9

\* After the comment all sections are read.
LEMMA CommentWhole ==
    ASSUME TypeInv, Comment, NEW pad, NEW cut, Behind(pad, cut)
    PROVE  ReadInv'
<1>1. /\ result = "reading" /\ result' = "ok" /\ input' = input /\ at = 16
      /\ o' = o /\ at' = at /\ nc' = nc /\ header' \in Struct
      /\ \A t \in FieldNames : t # "cmnt" => header[t] = header'[t]
  BY CommentFacts
<1>2. PICK q \in Nat : /\ q <= Size
                       /\ \A n, pad2 : Lies(block, header', n, pad2, "cmnt", o - 1, q)
  BY CommentFacts
<1>3. block' = block
  BY <1>1, InputKept
<1>4. /\ Laid(block, header, nc, pad, cut, 15) /\ Fitting(header, 15)
      /\ o = cut[15] + 1 /\ NamesFit(header, nc)
  <2>1. at - 1 = 15 /\ at # 15
    BY <1>1
  <2> QED BY <1>1, <2>1 DEF Behind
<1>5. /\ pad \in [Padded -> Nat] /\ cut \in [0 .. 16 -> Nat] /\ cut[0] = 0
      /\ \A k \in 1 .. 15 :
          /\ Lies(block, header, nc, pad, Sections[k], cut[k - 1], cut[k])
          /\ Sections[k] \in Padded => pad[Sections[k]] \in ZeroRuns(block)
  BY <1>4 DEF Laid
<1>6. o - 1 = cut[15]
  <2>1. PICK x \in Nat : x = cut[15]
    BY <1>5
  <2> QED BY <1>4, <2>1
<1>7. header'.alia = header.alia
  BY <1>1 DEF FieldNames
<1>8. ASSUME NEW k \in 1 .. 15
      PROVE  Lies(block, header', nc', pad, Sections[k], cut[k - 1], cut[k])
  <2>1. Lies(block, header, nc, pad, Sections[k], cut[k - 1], cut[k])
    BY <1>5
  <2>2. CASE k = 15
    <3>1. Sections[k] = "name"
      BY <2>2, SectionFacts
    <3> QED BY <1>1, <1>7, <2>1, <3>1 DEF Lies, Numbers, Texts
  <2>3. CASE k # 15
    <3>1. k \in 1 .. 14
      BY <2>3
    <3>2. Sections[k] # "cmnt"
      BY <3>1, SectionFacts
    <3>3. SameField(header, header', Sections[k])
      BY <1>1, <3>2 DEF SameField
    <3> QED BY <1>1, <2>1, <3>1, <3>3, LiesKept
  <2> QED BY <2>2, <2>3
<1>9. PICK cut2 \in [0 .. 16 -> Nat] : cut2[16] = q /\ \A k \in 0 .. 15 : cut2[k] = cut[k]
  <2> DEFINE c == [cut EXCEPT ![16] = q]
  <2>1. c \in [0 .. 16 -> Nat] /\ c[16] = q /\ \A k \in 0 .. 15 : c[k] = cut[k]
    BY <1>5
  <2> HIDE DEF c
  <2> QED BY <2>1
<1>10. Laid(block, header', nc', pad, cut2, 16)
  <2>1. Sections[16] = "cmnt" /\ "cmnt" \notin Padded
    BY SectionFacts DEF Padded, Texts
  <2>2. ASSUME NEW k \in 1 .. 16
        PROVE  /\ Lies(block, header', nc', pad, Sections[k], cut2[k - 1], cut2[k])
               /\ Sections[k] \in Padded => pad[Sections[k]] \in ZeroRuns(block)
    <3>1. CASE k = 16
      <4>1. k - 1 = 15 /\ cut2[15] = cut[15]
        BY <1>9, <3>1
      <4> QED BY <1>2, <1>6, <1>9, <2>1, <3>1, <4>1
    <3>2. CASE k # 16
      <4>1. k \in 1 .. 15 /\ k \in 0 .. 15 /\ k - 1 \in 0 .. 15
        BY <3>2
      <4> QED BY <1>5, <1>8, <1>9, <4>1
    <3> QED BY <3>1, <3>2
  <2>3. cut2[0] = 0
    BY <1>5, <1>9
  <2> QED BY <1>5, <1>9, <2>2, <2>3 DEF Laid
<1>11. Fitting(header', 16)
  <2>1. ASSUME NEW k \in 1 .. 16, Sections[k] \in Texts PROVE Len(header'[Sections[k]]) < Limit
    <3>1. k \in 1 .. 15 /\ Sections[k] # "cmnt"
      BY <2>1, SectionFacts
    <3>2. Sections[k] \in FieldNames
      BY <2>1 DEF Texts, FieldNames
    <3>3. header[Sections[k]] = header'[Sections[k]]
      BY <1>1, <3>1, <3>2
    <3>4. Len(header[Sections[k]]) < Limit
      BY <1>4, <2>1, <3>1 DEF Fitting
    <3> QED BY <3>3, <3>4
  <2> QED BY <2>1 DEF Fitting
<1>12. NamesFit(header', nc')
  BY <1>1, <1>4, <1>7 DEF NamesFit
<1>13. Whole(pad, cut2)'
  BY <1>2, <1>3, <1>9, <1>10 DEF Whole
<1> QED BY <1>1, <1>11, <1>12, <1>13 DEF ReadInv

LEMMA TakenRead ==
    ASSUME TypeInv, ReadInv, Moved, at \in 1 .. 13, NEW z,
           Takes(o - 1, header', nc', o' - 1, z)
    PROVE  ReadInv'
<1>1. result = "reading" /\ result' = "reading"
  BY DEF Moved
<1>2. PICK pad, cut : Behind(pad, cut)
  BY <1>1 DEF ReadInv
<1>3. \E pad2, cut2 : Behind(pad2, cut2)'
  BY <1>2, TakenBehind
<1> QED BY <1>1, <1>3 DEF ReadInv

LEMMA ReadNext == TypeInv /\ ReadInv /\ [HeaderNext]_headerVars => ReadInv'
<1> SUFFICES ASSUME TypeInv, ReadInv, [HeaderNext]_headerVars PROVE ReadInv'
  OBVIOUS
<1>1. ASSUME result' = result, header' = header, nc' = nc, at' = at, o' = o, block' = block
      PROVE  ReadInv'
  BY <1>1 DEF ReadInv, Behind, Whole, AtName, NamesRead
<1>2. CASE UNCHANGED headerVars
  BY <1>1, <1>2 DEF headerVars, input
<1>3. CASE HeaderNext /\ result' = "malformed"
  BY <1>3 DEF ReadInv
<1>4. ASSUME HeaderNext, result' # "malformed" PROVE ReadInv'
  <2>1. CASE LastByte
    BY <1>4, <2>1, FirstBehind
  <2>2. CASE TagMissing
    BY <1>4, <2>2 DEF TagMissing, Refuse
  <2>3. CASE Number
    <3>1. /\ Moved /\ Takes(o - 1, header', nc', o' - 1, 0)
      BY <1>4, <2>3, NumberTakes
    <3>2. Section \in Numbers /\ at \in 1 .. 16
      BY <2>3 DEF Number, TypeInv
    <3>3. at \in 1 .. 13
      BY <3>2, SectionFacts DEF Section
    <3> QED BY <3>1, <3>3, TakenRead
  <2>4. CASE Sync
    <3>1. /\ Moved /\ Takes(o - 1, header', nc', o' - 1, 0) /\ at = 2
      BY <1>4, <2>4, SyncTakes
    <3>2. at \in 1 .. 13
      BY <3>1
    <3> QED BY <3>1, <3>2, TakenRead
  <2>5. CASE ChannelCount
    <3>1. /\ Moved /\ Takes(o - 1, header', nc', o' - 1, 0) /\ at = 7
      BY <1>4, <2>5, CountTakes
    <3>2. at \in 1 .. 13
      BY <3>1
    <3> QED BY <3>1, <3>2, TakenRead
  <2>6. CASE Gain
    <3>1. /\ Moved /\ Takes(o - 1, header', nc', o' - 1, 0) /\ at = 8
      BY <1>4, <2>6, GainTakes
    <3>2. at \in 1 .. 13
      BY <3>1
    <3> QED BY <3>1, <3>2, TakenRead
  <2>7. CASE Text
    <3>1. PICK z : /\ Moved /\ Takes(o - 1, header', nc', o' - 1, z) /\ at \in 10 .. 13
      BY <1>4, <2>7, TextTakes
    <3>2. at \in 1 .. 13
      BY <3>1
    <3> QED BY <3>1, <3>2, TakenRead
  <2>8. CASE ChannelNames
    <3>1. result = "reading" /\ result' = "reading"
      BY <1>4, <2>8, AliasTakes DEF Moved
    <3>2. PICK pad, cut : Behind(pad, cut)
      BY <3>1 DEF ReadInv
    <3>3. \E pad2, cut2 : Behind(pad2, cut2)'
      BY <1>4, <2>8, <3>2, NamesBegin
    <3> QED BY <3>1, <3>3 DEF ReadInv
  <2>9. CASE Name
    <3>1. result = "reading" /\ result' = "reading"
      BY <1>4, <2>9, NameFacts
    <3>2. PICK pad, cut : Behind(pad, cut)
      BY <3>1 DEF ReadInv
    <3>3. \E pad2, cut2 : Behind(pad2, cut2)'
      BY <1>4, <2>9, <3>2, NameBehind
    <3> QED BY <3>1, <3>3 DEF ReadInv
  <2>10. CASE Comment
    <3>1. result = "reading"
      BY <2>10, CommentFacts
    <3>2. PICK pad, cut : Behind(pad, cut)
      BY <3>1 DEF ReadInv
    <3> QED BY <2>10, <3>2, CommentWhole
  <2>11. CASE ParseHeader
    <3>1. /\ result = "ok" /\ result' = "parsed" /\ input' = input
          /\ nc' = nc /\ header' = header
      BY <2>11 DEF ParseHeader
    <3>2. block' = block
      BY <3>1, InputKept
    <3> QED BY <3>1, <3>2 DEF ReadInv, Whole
  <2> QED BY <1>4, <2>1, <2>2, <2>3, <2>4, <2>5, <2>6, <2>7, <2>8, <2>9, <2>10, <2>11 DEF HeaderNext
<1> QED BY <1>2, <1>3, <1>4

LEMMA FitsIs ==
    ASSUME NEW h \in Struct, NEW n, Len(h.alia) = n
    PROVE  Fits(h) <=> Fitting(h, 16) /\ NamesFit(h, n) /\ n \in 1 .. MaxChannels
<1>1. \A s \in Texts : \E k \in 1 .. 16 : Sections[k] = s
  BY PaddedIs
<1>2. ASSUME Fitting(h, 16), NEW s \in Texts PROVE Len(h[s]) < Limit
  BY <1>1, <1>2 DEF Fitting
<1>3. ASSUME \A s \in Texts : Len(h[s]) < Limit PROVE Fitting(h, 16)
  BY <1>3 DEF Fitting
<1> QED BY <1>2, <1>3 DEF Fits, NamesFit

\* A header is what stands in its block, from any block.
THEOREM DescribedAlways == HeaderSpec => []Described
<1>1. HeaderInit => TypeInv /\ ReadInv
  BY TypeInit, ReadInit
<1>2. TypeInv /\ ReadInv /\ [HeaderNext]_headerVars => (TypeInv /\ ReadInv)'
  BY TypeNext, ReadNext
<1>3. TypeInv /\ ReadInv => Described
  <2> SUFFICES ASSUME TypeInv, ReadInv, result \in {"ok", "parsed"}
               PROVE  Fits(header) /\ Describes(header, block)
    BY DEF Described
  <2>1. /\ Fitting(header, 16) /\ NamesFit(header, nc)
        /\ \E pad, cut : Laid(block, header, nc, pad, cut, 16) /\ cut[16] <= Size
    BY DEF ReadInv, Whole
  <2>2. header \in Struct /\ nc \in 1 .. MaxChannels
    BY DEF TypeInv
  <2>3. Len(header.alia) = nc
    BY <2>1 DEF NamesFit
  <2>4. PICK n \in 1 .. Len(Counts) : n = nc
    BY <2>2, SizeNat
  <2>5. Describes(header, block)
    BY <2>1, <2>2, <2>3, <2>4, DescribesIs
  <2> QED BY <2>1, <2>2, <2>3, <2>5, FitsIs
<1> QED BY <1>1, <1>2, <1>3, PTL DEF HeaderSpec

-----------------------------------------------------------------------------
(***************************************************************************)
(* What the recorder wrote is read                                         *)
(***************************************************************************)

Chans == Len(written.alia)

\* The block holds the header that was written.
Holds(pad, cut) ==
    Laid(block, written, Chans, pad, cut, 16) /\ cut[16] <= Size /\ block[Size] = Zero

\* The names that are read are the first that were written, p the place before the
\* first and q the last place of the section.
NamesAhead(p, q, ncut) ==
    /\ ncut \in [0 .. Chans -> Nat] /\ ncut[0] = 0
    /\ NamesLie(block, written.alia, p, ncut, Chans)
    /\ p + ncut[Chans] <= q /\ Blank(block, p + ncut[Chans] + 1, q)
    /\ Len(header.alia) \in 0 .. Chans - 1
    /\ \A i \in 1 .. Len(header.alia) :
           header.alia[i] = written.alia[i] /\ Len(written.alia[i]) < Limit
    /\ o = p + ncut[Len(header.alia)] + 1

\* The reader stands where a section begins, and has read what was written.
Follows(cut) ==
    /\ at # 15 => o = cut[at - 1] + 1
    /\ \A k \in 1 .. at - 1 : Sections[k] \in FieldNames \ {"alia"} =>
           header[Sections[k]] = written[Sections[k]]
    /\ Fitting(written, at - 1)
    /\ at > 7 => nc = Chans
    /\ at = 15 => \E ncut : NamesAhead(cut[14], cut[15], ncut)
    /\ at = 16 => header.alia = written.alia /\ NamesFit(written, Chans)

BackInv ==
    \A pad, cut : Holds(pad, cut) =>
        /\ result = "malformed" => ~ Fits(written)
        /\ result = "reading" => Follows(cut)
        /\ result \in {"ok", "parsed"} => header = written /\ Fits(written)

\* Where the sections end.
LEMMA HoldsFacts ==
    ASSUME TypeInv, NEW pad, NEW cut, Holds(pad, cut)
    PROVE  /\ pad \in [Padded -> Nat] /\ \A k \in 0 .. 16 : cut[k] \in Nat
           /\ \A k \in 1 .. 16 :
                  Lies(block, written, Chans, pad, Sections[k], cut[k - 1], cut[k])
           /\ \A k \in 0 .. 15 : cut[k] + 1 \in 1 .. Size
           /\ \A k \in {10, 11, 12, 13, 15} : block[cut[k] + 1] # Zero
           /\ Chans \in 1 .. Len(Counts) /\ cut[0] = 0
<1>1. /\ pad \in [Padded -> Nat] /\ cut \in [0 .. 16 -> Nat] /\ cut[0] = 0
      /\ \A k \in 1 .. 16 : Lies(block, written, Chans, pad, Sections[k], cut[k - 1], cut[k])
      /\ cut[16] <= Size
  BY DEF Holds, Laid
<1>2. PICK n \in 1 .. Len(Counts), h \in Struct : n = Chans /\ h = written /\ n = Len(h.alia)
  BY BlockFacts DEF Chans
<1>3. ASSUME NEW k \in 1 .. 16 PROVE cut[k - 1] < cut[k]
  <2>1. k - 1 \in 0 .. 16 /\ k \in 0 .. 16
    OBVIOUS
  <2>2. PICK p \in Nat, q \in Nat : p = cut[k - 1] /\ q = cut[k]
    BY <1>1, <2>1
  <2>3. Covers(block, h, n, pad, Sections[k], p, q, Part(h, pad, Sections[k]))
    BY <1>1, <1>2, PartCovers
  <2>4. Lies(block, h, n, pad, Sections[k], p, q)
    BY <1>1, <1>2, <2>2
  <2>5. PICK l \in Nat \ {0} : q = p + l
    BY <2>3, <2>4 DEF Covers
  <2>6. p < q
    BY <2>5
  <2> QED BY <2>2, <2>6
<1>4. \A i \in 0 .. 15 : \A k \in i + 1 .. 16 : cut[i] < cut[k]
  BY <1>1, <1>3, Growing
<1>5. ASSUME NEW k \in 0 .. 15 PROVE cut[k] + 1 \in 1 .. Size
  <2>1. 16 \in k + 1 .. 16 /\ k \in 0 .. 16 /\ 16 \in 0 .. 16
    OBVIOUS
  <2>2. PICK x \in Nat, y \in Nat : x = cut[k] /\ y = cut[16]
    BY <1>1, <2>1
  <2>3. x < y /\ y <= Size
    BY <1>1, <1>4, <2>1, <2>2
  <2>4. x + 1 \in 1 .. Size
    BY <2>3, SizeNat
  <2> QED BY <2>2, <2>4
<1>6. ASSUME NEW k \in {10, 11, 12, 13, 15} PROVE block[cut[k] + 1] # Zero
  <2>1. PICK j \in 1 .. 16 : j = k + 1 /\ j - 1 = k /\ j \in {11, 12, 13, 14, 16}
    <3>1. k + 1 \in 1 .. 16 /\ k + 1 - 1 = k /\ k + 1 \in {11, 12, 13, 14, 16}
      OBVIOUS
    <3> QED BY <3>1
  <2>2. Sections[j] \notin {"sync", "name"} /\ Sections[j] # Zero
    BY <2>1, SectionFacts
  <2>3. Lies(block, written, Chans, pad, Sections[j], cut[k], cut[j])
    BY <1>1, <2>1
  <2>4. block[cut[k] + 1] = Sections[j]
    BY <2>2, <2>3 DEF Lies
  <2> QED BY <2>2, <2>4
<1> QED BY <1>1, <1>2, <1>5, <1>6

\* The section that is to be read stands before the reader, q is its last place.
Ahead(pad, q) ==
    /\ Lies(block, written, Chans, pad, Section, o - 1, q)
    /\ pad \in [Padded -> Nat] /\ q \in Nat
    /\ at # 16 => q + 1 \in 1 .. Size
    /\ Section \in Texts => block[q + 1] # Zero

LEMMA FollowsAhead ==
    ASSUME TypeInv, result = "reading", NEW pad, NEW cut, Holds(pad, cut), Follows(cut),
           at # 15
    PROVE  Ahead(pad, cut[at])
<1>1. PICK a \in 1 .. 16 : a = at /\ a # 15
  BY StateFacts
<1>2. o = cut[a - 1] + 1
  BY <1>1 DEF Follows
<1>3. a - 1 \in 0 .. 16 /\ a \in 0 .. 16 /\ a \in 1 .. 16 /\ (a # 16 => a \in 0 .. 15)
  OBVIOUS
<1>4. PICK p \in Nat, q \in Nat : p = cut[a - 1] /\ q = cut[a]
  BY <1>3, HoldsFacts
<1>5. o - 1 = p
  BY <1>2, <1>4
<1>6. Lies(block, written, Chans, pad, Sections[a], p, q)
  BY <1>4, HoldsFacts
<1>7. a # 16 => q + 1 \in 1 .. Size
  BY <1>3, <1>4, HoldsFacts
<1>8. Sections[a] \in Texts => block[q + 1] # Zero
  <2>1. Sections[a] \in Texts => a \in {10, 11, 12, 13, 15}
    BY SectionFacts
  <2> QED BY <1>4, <2>1, HoldsFacts
<1>9. pad \in [Padded -> Nat]
  BY HoldsFacts
<1> QED BY <1>1, <1>4, <1>5, <1>6, <1>7, <1>8, <1>9 DEF Ahead, Section

\* GoOn with a place of the block.
LEMMA GoesOnIn ==
    ASSUME NEW p, GoOn(p), p \in 1 .. Size, result = "reading"
    PROVE  result' = "reading" /\ o' = p
BY SizeNat DEF GoOn

LEMMA TagNotMissing ==
    ASSUME TypeInv, result = "reading", NEW pad, NEW q, Ahead(pad, q)
    PROVE  ~ TagMissing
<1>1. SUFFICES ASSUME TagMissing PROVE FALSE
  OBVIOUS
<1>2. Section \notin {"sync", "name"} /\ block[o] # Section
  BY <1>1 DEF TagMissing, Tagged
<1>3. o - 1 + 1 = o
  BY StateFacts
<1>4. block[o - 1 + 1] = Section
  BY <1>2 DEF Ahead, Lies
<1> QED BY <1>2, <1>3, <1>4

LEMMA NumberBack ==
    ASSUME TypeInv, Number, NEW pad, NEW q, Ahead(pad, q)
    PROVE  /\ result' # "malformed" /\ o' = q + 1
           /\ header'[Section] = written[Section]
<1>1. Tagged /\ Section \in Numbers /\ GoOn(o + 2)
  BY DEF Number
<1>2. result = "reading"
  BY <1>1 DEF Tagged
<1>3. /\ o \in 1 .. Size /\ at \in 1 .. 16
  BY <1>2, StateFacts
<1>4. at # 16
  BY <1>1, <1>3, SectionFacts DEF Section
<1>5. block[o - 1 + 2] = written[Section] /\ q = o - 1 + 2 /\ q + 1 \in 1 .. Size
  BY <1>1, <1>4 DEF Ahead, Lies
<1>6. o - 1 + 2 = o + 1 /\ q + 1 = o + 2
  BY <1>3, <1>5, SizeNat
<1>7. result' = "reading" /\ o' = q + 1
  BY <1>1, <1>2, <1>5, <1>6, GoesOnIn
<1>8. header'[Section] = block[o + 1]
  BY <1>7, NumberTakes
<1> QED BY <1>5, <1>6, <1>7, <1>8

LEMMA SyncBack ==
    ASSUME TypeInv, Sync, NEW pad, NEW q, Ahead(pad, q)
    PROVE  /\ result' # "malformed" /\ o' = q + 1
           /\ header'.sync = written.sync
<1>1. result = "reading" /\ Section = "sync" /\ GoOn(o + 3)
  BY DEF Sync
<1>2. /\ o \in 1 .. Size /\ at \in 1 .. 16 /\ o - 1 \in Nat /\ o - 1 + 1 = o
  BY <1>1, StateFacts
<1>3. at # 16
  BY <1>1, <1>2, SectionFacts DEF Section
<1>4. /\ q = o - 1 + 3 /\ q + 1 \in 1 .. Size
      /\ \/ StandsIn(block, written.sync, o - 1) /\ written.sync[1] # "none"
         \/ block[o - 1 + 1] \notin {"sync", "skew"} /\ written.sync[1] = "none"
  BY <1>1, <1>3 DEF Ahead, Lies
<1>5. q + 1 = o + 3 /\ o - 1 + 3 = o + 2
  BY <1>2, <1>4, SizeNat
<1>6. result' = "reading" /\ o' = q + 1
  BY <1>1, <1>4, <1>5, GoesOnIn
<1>7. header'.sync = IF block[o] \in {"sync", "skew"}
                     THEN SubSeq(block, o, o + 2) ELSE << "none", Zero, Zero >>
  BY <1>6, SyncTakes
<1>8. written.sync[1] \in {"sync", "skew"} \/ written.sync = << "none", Zero, Zero >>
  BY BlockFacts DEF Written
<1>9. CASE StandsIn(block, written.sync, o - 1) /\ written.sync[1] # "none"
  <2>1. written.sync[1] \in {"sync", "skew"}
    <3>1. << "none", Zero, Zero >>[1] = "none"
      OBVIOUS
    <3> QED BY <1>8, <1>9, <3>1
  <2>2. PICK s \in Seq(Places) : s = written.sync /\ Len(s) = 3 /\ block[o] = s[1]
    <3>1. PICK v \in Places \X Places \X Places : v = written.sync
      BY BlockFacts, FieldFacts
    <3>2. v \in Seq(Places) /\ Len(v) = 3 /\ (StandsIn(block, v, o - 1) =>
              block[o - 1 + 1] = v[1])
      BY <1>2, StandsThree
    <3> QED BY <1>2, <1>9, <3>1, <3>2
  <2>3. header'.sync = SubSeq(block, o, o + 2)
    BY <1>7, <2>1, <2>2
  <2>4. PICK p \in Nat : p = o - 1 /\ p + 1 = o /\ p + 3 = o + 2 /\ p + 3 <= Size
    BY <1>2, <1>4, <1>5, SizeNat
  <2>5. PICK t \in Seq(Places) : t = SubSeq(block, o, o + 2) /\ Len(t) = 3 /\ StandsIn(block, t, p)
    BY <2>4, Slice
  <2>6. \A i \in 1 .. Len(s) : s[i] = t[i]
    BY <1>9, <2>2, <2>4, <2>5 DEF StandsIn
  <2>7. s = t
    BY <2>2, <2>5, <2>6, SeqEqual
  <2> QED BY <1>6, <2>2, <2>3, <2>5, <2>7
<1>10. CASE block[o - 1 + 1] \notin {"sync", "skew"} /\ written.sync[1] = "none"
  BY <1>2, <1>6, <1>7, <1>8, <1>10
<1> QED BY <1>4, <1>9, <1>10

\* The places of two counts differ.
LEMMA CountsDiffer ==
    \A i, j \in 1 .. Len(Counts) : Counts[i] = Counts[j] => i = j
BY DEF Counts

LEMMA CountBack ==
    ASSUME TypeInv, ChannelCount, NEW pad, NEW q, Ahead(pad, q)
    PROVE  \/ result' = "malformed" /\ ~ Fits(written)
           \/ result' # "malformed" /\ o' = q + 1 /\ nc' = Chans
<1>1. Tagged /\ Section = "chan"
  BY DEF ChannelCount
<1>2. result = "reading"
  BY <1>1 DEF Tagged
<1>3. /\ o \in 1 .. Size /\ at \in 1 .. 16
  BY <1>2, StateFacts
<1>4. at # 16
  BY <1>1, <1>3, SectionFacts DEF Section
<1>5. block[o - 1 + 2] = Counts[Chans] /\ q = o - 1 + 2 /\ q + 1 \in 1 .. Size
  BY <1>1, <1>4 DEF Ahead, Lies
<1>6. o - 1 + 2 = o + 1 /\ q + 1 = o + 2
  BY <1>3, <1>5, SizeNat
<1>7. PICK n \in 1 .. Len(Counts) : n = Chans /\ block[o + 1] = Counts[n]
  BY <1>5, <1>6, BlockFacts DEF Chans
<1>8. CASE n \in 1 .. MaxChannels
  <2>1. GoOn(o + 2)
    BY <1>7, <1>8 DEF ChannelCount
  <2>2. result' = "reading" /\ o' = q + 1
    BY <1>2, <1>5, <1>6, <2>1, GoesOnIn
  <2>3. nc' \in 1 .. MaxChannels /\ block[o + 1] = Counts[nc']
    BY <2>2, CountTakes
  <2>4. nc' = n
    <3>1. nc' \in 1 .. Len(Counts)
      BY <2>3, SizeNat
    <3> QED BY <1>7, <2>3, <3>1, CountsDiffer
  <2> QED BY <1>7, <2>2, <2>4
<1>9. CASE n \notin 1 .. MaxChannels
  <2>1. ~ Fits(written)
    BY <1>7, <1>9 DEF Fits, Chans
  <2>2. ASSUME NEW m \in 1 .. MaxChannels, block[o + 1] = Counts[m] PROVE FALSE
    <3>1. m \in 1 .. Len(Counts)
      BY SizeNat
    <3> QED BY <1>7, <1>9, <2>2, <3>1, CountsDiffer
  <2>3. result' = "malformed"
    BY <2>2 DEF ChannelCount, Refuse
  <2> QED BY <2>1, <2>3
<1> QED BY <1>8, <1>9

LEMMA GainBack ==
    ASSUME TypeInv, Gain, NEW pad, NEW q, Ahead(pad, q), nc = Chans
    PROVE  /\ result' # "malformed" /\ o' = q + 1
           /\ header'.gain = written.gain
<1>1. Tagged /\ Section = "gain" /\ GoOn(o + 1 + nc)
  BY DEF Gain
<1>2. result = "reading"
  BY <1>1 DEF Tagged
<1>3. /\ o \in 1 .. Size /\ at \in 1 .. 16 /\ nc \in 0 .. MaxChannels
  BY <1>2, StateFacts
<1>4. at # 16
  BY <1>1, <1>3, SectionFacts DEF Section
<1>5. PICK s \in Seq(Places), n \in Nat : s = written.gain /\ Len(s) = n /\ n = nc
  <2>1. written.gain \in Seq(Places)
    BY BlockFacts, FieldFacts
  <2>2. Len(written.gain) = nc /\ nc \in Nat
    BY <1>3, BlockFacts, SizeNat DEF Written, Chans
  <2> QED BY <2>1, <2>2
<1>6. StandsIn(block, s, o - 1 + 1) /\ q = o - 1 + 1 + n /\ q + 1 \in 1 .. Size
  BY <1>1, <1>4, <1>5 DEF Ahead, Lies
<1>7. o - 1 + 1 = o /\ q + 1 = o + 1 + n
  BY <1>3, <1>6, SizeNat
<1>8. result' = "reading" /\ o' = q + 1
  BY <1>1, <1>2, <1>5, <1>6, <1>7, GoesOnIn
<1>9. /\ StandsIn(block, header'.gain, o) /\ Len(header'.gain) = n /\ Moved
  BY <1>5, <1>8, GainTakes
<1>10. PICK t \in Seq(Places) : t = header'.gain
  <2>1. header' \in Struct
    BY <1>9 DEF Moved
  <2> QED BY <2>1, FieldFacts
<1>11. \A i \in 1 .. Len(s) : s[i] = t[i]
  BY <1>5, <1>6, <1>7, <1>9, <1>10 DEF StandsIn
<1>12. s = t
  BY <1>5, <1>9, <1>10, <1>11, SeqEqual
<1> QED BY <1>5, <1>8, <1>10, <1>12

\* The zeros behind a text are skipped up to the next tag.
LEMMA SkipFound ==
    ASSUME NEW p \in Nat, NEW q \in Nat, p <= q + 1, q + 1 \in 1 .. Size, p > 0,
           Blank(block, p, q), block[q + 1] # Zero
    PROVE  SkipZeros(p) = q + 1
<1>1. PICK r \in Nat, x \in Nat : r = p /\ x = q + 1 /\ r \in 1 .. Size + 1 /\ x \in r .. Size /\ x - 1 = q
  <2>1. p \in 1 .. Size + 1 /\ q + 1 \in p .. Size /\ q + 1 - 1 = q
    BY SizeNat
  <2> QED BY <2>1
<1>2. \A i \in r .. x - 1 : block[i] = Zero
  BY <1>1 DEF Blank
<1>3. block[x] # Zero
  BY <1>1
<1>4. SkipZeros(r) = x
  BY <1>1, <1>2, <1>3, SizeNat, SkipIs
<1> QED BY <1>1, <1>4

LEMMA TextBack ==
    ASSUME TypeInv, Text, NEW pad, NEW q, Ahead(pad, q)
    PROVE  \/ result' = "malformed" /\ ~ Fits(written)
           \/ /\ result' # "malformed" /\ o' = q + 1
              /\ header'[Section] = written[Section] /\ Len(written[Section]) < Limit
<1>1. Tagged /\ Section \in Texts
  BY DEF Text
<1>2. result = "reading"
  BY <1>1 DEF Tagged
<1>3. /\ o \in 1 .. Size /\ at \in 1 .. 16 /\ block[Size] = Zero /\ o - 1 + 1 = o
  BY <1>2, StateFacts
<1>4. at # 16
  BY <1>1, <1>3, SectionFacts DEF Section
<1>5. PICK s \in Seq(Places), n \in Nat : s = written[Section] /\ Len(s) = n /\ NoZero(s)
  <2>1. written[Section] \in Seq(Places)
    BY <1>1, BlockFacts, FieldFacts
  <2>2. NoZero(written[Section])
    BY <1>1, BlockFacts DEF Written
  <2> QED BY <2>1, <2>2, LenProperties
<1>6. PICK z \in Nat : z = pad[Section]
  BY <1>1 DEF Ahead, Padded
<1>7. /\ Ended(block, s, o) /\ q = o + n + 1 + z /\ Blank(block, o + n + 2, q)
      /\ q + 1 \in 1 .. Size /\ block[q + 1] # Zero /\ q \in Nat
  BY <1>1, <1>3, <1>4, <1>5, <1>6 DEF Ahead, Lies
<1>8. o + n + 1 <= Size /\ o \in Nat
  BY <1>3, <1>7, SizeNat
<1>9. StrLen(o + 1) = n /\ TextAt(o + 1) = s
  BY <1>3, <1>5, <1>7, <1>8, TextFound
<1>10. CASE n >= Limit
  <2>1. ~ Fits(written)
    <3>1. ~ (n < Limit)
      BY <1>10, SizeNat
    <3> QED BY <1>1, <1>5, <3>1 DEF Fits
  <2>2. result' = "malformed"
    BY <1>9, <1>10 DEF Text, Refuse
  <2> QED BY <2>1, <2>2
<1>11. CASE ~ (n >= Limit)
  <2>1. GoOn(SkipZeros(o + 1 + n + 1))
    BY <1>9, <1>11 DEF Text
  <2>2. PICK r \in Nat : r = o + n + 2 /\ o + 1 + n + 1 = r /\ r <= q + 1 /\ r > 0
    <3>1. o + n + 2 \in Nat /\ o + 1 + n + 1 = o + n + 2 /\ o + n + 2 <= q + 1 /\ o + n + 2 > 0
      BY <1>7, <1>8
    <3> QED BY <3>1
  <2>3. SkipZeros(r) = q + 1
    BY <1>7, <2>2, SkipFound
  <2>4. GoOn(q + 1)
    BY <2>1, <2>2, <2>3
  <2>5. result' = "reading" /\ o' = q + 1
    BY <1>2, <1>7, <2>4, GoesOnIn
  <2>6. header'[Section] = s
    BY <1>9, <2>5, TextTakes
  <2>7. n < Limit
    BY <1>11, SizeNat
  <2> QED BY <1>5, <2>5, <2>6, <2>7
<1> QED BY <1>10, <1>11

LEMMA AliasBack ==
    ASSUME TypeInv, ChannelNames, NEW pad, NEW q, Ahead(pad, q)
    PROVE  result' # "malformed" /\ o' = q + 1
<1>1. Tagged /\ Section = "alia" /\ GoOn(o + 1)
  BY DEF ChannelNames
<1>2. result = "reading"
  BY <1>1 DEF Tagged
<1>3. /\ o \in 1 .. Size /\ at \in 1 .. 16
  BY <1>2, StateFacts
<1>4. at # 16
  BY <1>1, <1>3, SectionFacts DEF Section
<1>5. q = o - 1 + 1 /\ q + 1 \in 1 .. Size
  BY <1>1, <1>4 DEF Ahead, Lies
<1>6. q + 1 = o + 1
  BY <1>3, <1>5, SizeNat
<1>7. result' = "reading" /\ o' = q + 1
  BY <1>1, <1>2, <1>5, <1>6, GoesOnIn
<1> QED BY <1>7

LEMMA CommentBack ==
    ASSUME TypeInv, Comment, NEW pad, NEW q, Ahead(pad, q), block[Size] = Zero,
           q <= Size
    PROVE  header'.cmnt = written.cmnt
<1>1. Section = "cmnt" /\ result = "reading"
  BY DEF Comment, Tagged
<1>2. /\ o \in 1 .. Size /\ o - 1 + 1 = o
  BY <1>1, StateFacts
<1>3. PICK s \in Seq(Places), n \in Nat : s = written.cmnt /\ Len(s) = n /\ NoZero(s)
  <2>1. written.cmnt \in Seq(Places)
    BY BlockFacts, FieldFacts
  <2>2. NoZero(written["cmnt"])
    BY BlockFacts DEF Written
  <2> QED BY <2>1, <2>2, LenProperties
<1>4. Ended(block, s, o) /\ q = o + n + 1
  BY <1>1, <1>2, <1>3 DEF Ahead, Lies
<1>5. o \in Nat /\ o + n + 1 <= Size
  BY <1>2, <1>4, SizeNat
<1>6. TextAt(o + 1) = s
  BY <1>3, <1>4, <1>5, TextFound
<1> QED BY <1>3, <1>6, CommentFacts

\* Later names end later.
LEMMA NamesGrow ==
    ASSUME NEW b, NEW names \in Seq(Seq(Places)), NEW n \in Nat, n <= Len(names),
           NEW p, NEW ncut \in [0 .. n -> Nat], NamesLie(b, names, p, ncut, n),
           NEW m \in 1 .. n
    PROVE  ncut[m] <= ncut[n]
<1> DEFINE T == {i \in 1 .. n : ncut[n - i + 1] <= ncut[n]}
<1>1. n > 0 => 1 \in T
  <2>1. ASSUME n > 0 PROVE 1 \in T
    <3>1. 1 \in 1 .. n /\ n - 1 + 1 = n /\ n \in 0 .. n
      BY <2>1
    <3>2. PICK x \in Nat : x = ncut[n]
      BY <3>1
    <3>3. x <= x
      OBVIOUS
    <3> QED BY <3>1, <3>2, <3>3
  <2> QED BY <2>1
<1>2. ASSUME NEW i \in 1 .. n - 1, i \in T PROVE i + 1 \in T
  <2>1. PICK k \in 1 .. n : /\ k = n - i + 1 /\ k - 1 = n - (i + 1) + 1 /\ k \in 0 .. n
                            /\ k - 1 \in 0 .. n /\ i + 1 \in 1 .. n
    <3>1. /\ n - i + 1 \in 1 .. n /\ n - i + 1 - 1 = n - (i + 1) + 1 /\ n - i + 1 \in 0 .. n
          /\ n - i + 1 - 1 \in 0 .. n /\ i + 1 \in 1 .. n
      OBVIOUS
    <3> QED BY <3>1
  <2>2. k \in 1 .. Len(names) /\ n \in 0 .. n
    BY <2>1, LenProperties
  <2>3. PICK l \in Nat : l = Len(names[k])
    BY <2>2, ElementOfSeq, LenProperties
  <2>4. PICK x \in Nat, y \in Nat, z \in Nat : x = ncut[k - 1] /\ y = ncut[k] /\ z = ncut[n]
    BY <2>1, <2>2
  <2>5. y = x + l + 1
    BY <2>3, <2>4 DEF NamesLie
  <2>6. y <= z
    BY <1>2, <2>1, <2>4
  <2>7. x <= z
    BY <2>5, <2>6
  <2> QED BY <2>1, <2>4, <2>7
<1> HIDE DEF T
<1>3. 1 .. n \subseteq T
  BY <1>1, <1>2, RunningInduction
<1>4. n - m + 1 \in 1 .. n /\ n - (n - m + 1) + 1 = m
  OBVIOUS
<1>5. n - m + 1 \in T
  BY <1>3, <1>4
<1>6. ncut[n - (n - m + 1) + 1] <= ncut[n]
  BY <1>5 DEF T
<1> QED BY <1>4, <1>6

\* A name is read as it was written; the last one ends the section.
LEMMA NameBack ==
    ASSUME TypeInv, Name, nc = Chans, NEW p \in Nat, NEW q \in Nat, q + 1 \in 1 .. Size,
           block[q + 1] # Zero, NEW ncut, NamesAhead(p, q, ncut)
    PROVE  \/ result' = "malformed" /\ ~ Fits(written)
           \/ /\ result' # "malformed" /\ at' = 15
              /\ NamesAhead(p, q, ncut)'
           \/ /\ result' # "malformed" /\ at' = 16 /\ o' = q + 1
              /\ header'.alia = written.alia /\ NamesFit(written, Chans)
<1>1. result = "reading" /\ Section = "name"
  BY DEF Name
<1>2. /\ o \in 1 .. Size /\ header \in Struct /\ block[Size] = Zero
      /\ o - 1 \in Nat /\ o - 1 + 1 = o
  BY <1>1, StateFacts
<1>3. PICK n \in Nat, m \in Nat, names \in Seq(Seq(Places)), list \in Seq(Seq(Places)) :
          /\ n = Chans /\ m = Len(header.alia) /\ m < n /\ names = written.alia
          /\ list = header.alia /\ Len(names) = n /\ Len(list) = m
          /\ m \in 0 .. n /\ m + 1 \in 1 .. n
          /\ \A i \in 1 .. n : NoZero(names[i])
  <2>1. written.alia \in Seq(Seq(Places)) /\ header.alia \in Seq(Seq(Places))
    BY <1>2, BlockFacts, FieldFacts
  <2>2. PICK n \in Nat : n = Len(written.alia)
    BY <2>1, LenProperties
  <2>3. Len(header.alia) \in 0 .. n - 1
    BY <2>2 DEF NamesAhead, Chans
  <2>4. Len(header.alia) \in Nat /\ Len(header.alia) < n
        /\ Len(header.alia) \in 0 .. n /\ Len(header.alia) + 1 \in 1 .. n
    BY <2>2, <2>3
  <2>5. \A i \in 1 .. n : NoZero(written.alia[i])
    BY <2>2, BlockFacts DEF Written
  <2> QED BY <2>1, <2>2, <2>4, <2>5 DEF Chans
<1>4. /\ ncut \in [0 .. n -> Nat] /\ ncut[0] = 0 /\ NamesLie(block, names, p, ncut, n)
      /\ p + ncut[n] <= q /\ Blank(block, p + ncut[n] + 1, q)
      /\ \A i \in 1 .. m : list[i] = names[i] /\ Len(names[i]) < Limit
      /\ o = p + ncut[m] + 1
  BY <1>3 DEF NamesAhead
<1>5. PICK j \in 1 .. n, s \in Seq(Places), l \in Nat :
          /\ j = m + 1 /\ j - 1 = m /\ s = names[j] /\ l = Len(s) /\ NoZero(s)
  <2>1. m + 1 \in 1 .. n /\ m + 1 - 1 = m
    BY <1>3
  <2>2. names[m + 1] \in Seq(Places) /\ NoZero(names[m + 1])
    BY <1>3, <2>1, ElementOfSeq
  <2> QED BY <2>1, <2>2, LenProperties
<1>6. PICK u \in Nat, v \in Nat, w \in Nat :
          u = ncut[m] /\ v = ncut[j] /\ w = ncut[n] /\ v = u + l + 1 /\ v <= w
  <2>1. m \in 0 .. n /\ j \in 0 .. n /\ n \in 0 .. n
    BY <1>3
  <2>2. ncut[m] \in Nat /\ ncut[j] \in Nat /\ ncut[n] \in Nat
    BY <1>4, <2>1
  <2>3. ncut[j] = ncut[m] + l + 1
    BY <1>4, <1>5 DEF NamesLie
  <2>4. ncut[j] <= ncut[n]
    <3>1. n <= Len(names)
      BY <1>3
    <3> QED BY <1>4, <3>1, NamesGrow
  <2> QED BY <2>2, <2>3, <2>4
<1>7. Ended(block, s, o - 1)
  <2>1. Ended(block, names[j], p + ncut[j - 1])
    BY <1>4 DEF NamesLie
  <2>2. p + u = o - 1
    <3>1. o = p + u + 1
      BY <1>4, <1>6
    <3> QED BY <3>1
  <2> QED BY <1>5, <1>6, <2>1, <2>2
<1>8. /\ p + w <= q /\ o = p + u + 1 /\ o + l = p + v /\ o - 1 + l + 1 = o + l
      /\ o + l + 1 <= q + 1 /\ o + l + 1 <= Size /\ o + l <= Size /\ o + l + 1 > 0
  <2>1. p + w <= q /\ o = p + u + 1
    BY <1>4, <1>6
  <2>2. PICK x \in Nat : x = o
    BY <1>2, SizeNat
  <2>3. v = u + l + 1 /\ v <= w
    BY <1>6
  <2>4. x = p + u + 1 /\ x + l = p + v /\ x + l + 1 <= q + 1 /\ x - 1 + l + 1 = x + l
    <3>1. x = p + u + 1 /\ p + w <= q
      BY <2>1, <2>2
    <3> QED BY <2>3, <3>1
  <2>5. x + l + 1 <= Size /\ x + l <= Size
    BY <2>4, SizeNat
  <2> QED BY <2>1, <2>2, <2>4, <2>5
<1>9. StrLen(o) = l /\ TextAt(o) = s
  <2>1. PICK r \in Nat : r = o - 1 /\ r + 1 = o /\ r + l + 1 = o + l
    BY <1>2, <1>8
  <2>2. r + Len(s) + 1 <= Size
    BY <1>5, <1>8, <2>1
  <2> QED BY <1>2, <1>5, <1>7, <2>1, <2>2, TextFound
<1>10. CASE l >= Limit
  <2>1. ~ Fits(written)
    <3>1. ~ (Len(names[j]) < Limit)
      BY <1>5, <1>10, SizeNat
    <3> QED BY <1>3, <3>1 DEF Fits
  <2>2. result' = "malformed"
    BY <1>9, <1>10 DEF Name, Refuse
  <2> QED BY <2>1, <2>2
<1>11. ASSUME ~ (l >= Limit), result' # "malformed"
       PROVE  \/ /\ result' # "malformed" /\ at' = 15
                 /\ NamesAhead(p, q, ncut)'
              \/ /\ result' # "malformed" /\ at' = 16 /\ o' = q + 1
                 /\ header'.alia = written.alia /\ NamesFit(written, Chans)
  <2>1. /\ input' = input /\ at = 15 /\ nc' = nc /\ header' \in Struct
        /\ header'.alia = Append(header.alia, TextAt(o))
        /\ Len(header.alia) + 1 # nc => o' = o + StrLen(o) + 1 /\ at' = at
        /\ Len(header.alia) + 1 = nc => o' = SkipZeros(o + StrLen(o) + 1) /\ at' = 16
    BY <1>11, NameFacts
  <2>2. written' = written /\ block' = block
    BY <2>1, InputKept
  <2>3. PICK list2 \in Seq(Seq(Places)) :
            /\ list2 = header'.alia /\ Len(list2) = j
            /\ \A i \in 1 .. j : list2[i] = names[i] /\ Len(names[i]) < Limit
    <3>1. PICK list2 : list2 = Append(list, s) /\ list2 = header'.alia
      BY <1>3, <1>9, <2>1
    <3>2. /\ list2 \in Seq(Seq(Places)) /\ Len(list2) = m + 1
          /\ (\A i \in 1 .. m : list2[i] = list[i]) /\ list2[m + 1] = s
      <4>1. /\ Append(list, s) \in Seq(Seq(Places)) /\ Len(Append(list, s)) = Len(list) + 1
            /\ \A i \in 1 .. Len(list) : Append(list, s)[i] = list[i]
            /\ Append(list, s)[Len(list) + 1] = s
        BY AppendProperties
      <4>2. Len(list) = m
        BY <1>3
      <4> QED BY <3>1, <4>1, <4>2
    <3>3. Len(s) < Limit
      BY <1>5, <1>11, SizeNat
    <3>4. \A i \in 1 .. j : i \in 1 .. m \/ i = m + 1
      BY <1>5
    <3>5. \A i \in 1 .. j : list2[i] = names[i] /\ Len(names[i]) < Limit
      BY <1>4, <1>5, <3>2, <3>3, <3>4
    <3> QED BY <1>5, <3>1, <3>2, <3>5
  <2>4. CASE j # n
    <3>1. o' = o + l + 1 /\ at' = 15
      BY <1>3, <1>5, <1>9, <2>1, <2>4
    <3>2. o' = p + ncut[j] + 1 /\ j \in 0 .. n - 1
      <4>1. j \in 0 .. n - 1
        BY <2>4
      <4> QED BY <1>6, <1>8, <3>1, <4>1
    <3>3. NamesAhead(p, q, ncut)'
      BY <1>3, <1>4, <2>2, <2>3, <3>2 DEF NamesAhead, Chans
    <3> QED BY <1>11, <3>1, <3>3
  <2>5. CASE j = n
    <3>1. o' = SkipZeros(o + l + 1) /\ at' = 16
      BY <1>3, <1>5, <1>9, <2>1, <2>5
    <3>2. PICK r \in Nat : r = o + l + 1 /\ r = p + w + 1 /\ r <= q + 1 /\ r > 0
      <4>1. o + l = p + w
        BY <1>6, <1>8, <2>5
      <4>2. o + l + 1 = p + w + 1 /\ p + w + 1 \in Nat
        BY <4>1
      <4> QED BY <1>8, <4>2
    <3>3. Blank(block, r, q)
      BY <1>4, <1>6, <3>2
    <3>4. SkipZeros(r) = q + 1
      BY <3>2, <3>3, SkipFound
    <3>5. list2 = names
      BY <1>3, <2>3, <2>5, SeqEqual
    <3>6. NamesFit(written, Chans)
      BY <1>3, <2>3, <2>5 DEF NamesFit
    <3> QED BY <1>3, <1>11, <2>3, <3>1, <3>2, <3>4, <3>5, <3>6
  <2> QED BY <2>4, <2>5
<1>12. ASSUME ~ (l >= Limit) PROVE result' # "malformed"
  <2>1. ~ (StrLen(o) >= Limit \/ o + StrLen(o) + 1 > Size)
    BY <1>8, <1>9, <1>12, SizeNat
  <2>2. IF Len(header.alia) + 1 = nc
        THEN GoOn(SkipZeros(o + StrLen(o) + 1))
        ELSE UNCHANGED result
    BY <2>1 DEF Name
  <2>3. CASE Len(header.alia) + 1 # nc
    BY <1>1, <2>2, <2>3
  <2>4. CASE Len(header.alia) + 1 = nc
    <3>1. j = n
      BY <1>3, <1>5, <2>4
    <3>2. PICK r \in Nat : r = o + l + 1 /\ r = p + w + 1 /\ r <= q + 1 /\ r > 0
      <4>1. o + l = p + w
        BY <1>6, <1>8, <3>1
      <4>2. o + l + 1 = p + w + 1 /\ p + w + 1 \in Nat
        BY <4>1
      <4> QED BY <1>8, <4>2
    <3>3. Blank(block, r, q)
      BY <1>4, <1>6, <3>2
    <3>4. SkipZeros(r) = q + 1
      BY <3>2, <3>3, SkipFound
    <3>5. GoOn(q + 1)
      BY <1>9, <2>2, <2>4, <3>2, <3>4
    <3> QED BY <1>1, <3>5, GoesOnIn
  <2> QED BY <2>3, <2>4
<1> QED BY <1>10, <1>11, <1>12

LEMMA TakenFollows ==
    ASSUME TypeInv, Moved, at \in 1 .. 14, NEW pad, NEW cut, Holds(pad, cut), Follows(cut),
           o' = cut[at] + 1,
           \A t \in FieldNames \ {"alia"} : t # Section => header[t] = header'[t],
           Section \in FieldNames \ {"alia"} => header'[Section] = written[Section],
           Section \in Texts => Len(written[Section]) < Limit,
           at >= 7 => nc' = Chans,
           at = 14 => header'.alia = << >>
    PROVE  Follows(cut)'
<1>1. PICK a \in 1 .. 14 : a = at /\ Section = Sections[a]
  BY DEF Section
<1>2. at' = a + 1 /\ input' = input
  BY <1>1 DEF Moved
<1>3. written' = written /\ block' = block
  BY <1>2, InputKept
<1>4. at' - 1 = a /\ at' \in 2 .. 15 /\ at' # 16 /\ (at' = 15 => a = 14) /\ (at' > 7 => a >= 7)
  BY <1>2
<1>5. ASSUME NEW k \in 1 .. a, Sections[k] \in FieldNames \ {"alia"}
      PROVE  header'[Sections[k]] = written[Sections[k]]
  <2>1. CASE k = a
    BY <1>1, <1>5, <2>1
  <2>2. CASE k # a
    <3>1. k \in 1 .. a - 1 /\ k \in 1 .. 16 /\ a \in 1 .. 16
      BY <2>2
    <3>2. Sections[k] # Sections[a]
      BY <2>2, <3>1, SectionFacts
    <3>3. header[Sections[k]] = written[Sections[k]]
      BY <1>1, <1>5, <3>1 DEF Follows
    <3> QED BY <1>1, <1>5, <3>2, <3>3
  <2> QED BY <2>1, <2>2
<1>6. Fitting(written, a)
  <2>1. ASSUME NEW k \in 1 .. a, Sections[k] \in Texts PROVE Len(written[Sections[k]]) < Limit
    <3>1. CASE k = a
      BY <1>1, <2>1, <3>1
    <3>2. CASE k # a
      <4>1. k \in 1 .. a - 1
        BY <3>2
      <4> QED BY <1>1, <2>1, <4>1 DEF Follows, Fitting
    <3> QED BY <3>1, <3>2
  <2> QED BY <2>1 DEF Fitting
<1>7. ASSUME a = 14 PROVE \E ncut : NamesAhead(cut[14], cut[15], ncut)'
  <2>1. PICK p \in Nat, q \in Nat : p = cut[14] /\ q = cut[15]
    <3>1. 14 \in 0 .. 16 /\ 15 \in 0 .. 16
      OBVIOUS
    <3> QED BY <3>1, HoldsFacts
  <2>2. Lies(block, written, Chans, pad, "name", p, q)
    <3>1. 15 \in 1 .. 16 /\ 15 - 1 = 14 /\ Sections[15] = "name"
      BY SectionFacts
    <3> QED BY <2>1, <3>1, HoldsFacts
  <2>3. PICK c \in [0 .. Chans -> Nat] :
            /\ c[0] = 0 /\ NamesLie(block, written.alia, p, c, Chans)
            /\ q = p + c[Chans] + pad["name"]
            /\ Blank(block, p + c[Chans] + 1, q)
    BY <2>2 DEF Lies
  <2>4. Chans \in Nat /\ Chans > 0
    <3>1. Chans \in 1 .. Len(Counts)
      BY HoldsFacts
    <3>2. Len(Counts) = 9
      BY SizeNat
    <3> QED BY <3>1, <3>2
  <2>5. p + c[Chans] <= q
    <3>1. pad["name"] \in Nat /\ c[Chans] \in Nat
      <4>1. "name" \in Padded /\ Chans \in 0 .. Chans
        BY <2>4 DEF Padded
      <4> QED BY <2>3, <4>1, HoldsFacts
    <3>2. PICK y \in Nat, z \in Nat : y = c[Chans] /\ z = pad["name"]
      BY <3>1
    <3>3. q = p + y + z
      BY <2>3, <3>2
    <3>4. p + y <= q
      BY <3>3
    <3> QED BY <3>2, <3>4
  <2>6. header'.alia = << >> /\ Len(header'.alia) = 0
    <3>1. header'.alia = << >>
      BY <1>1, <1>7
    <3> QED BY <3>1, EmptySeq
  <2>7. o' = p + c[Len(header'.alia)] + 1
    <3>1. o' = p + 1
      BY <1>1, <1>7, <2>1
    <3>2. p + 0 + 1 = p + 1
      OBVIOUS
    <3> QED BY <2>3, <2>6, <3>1, <3>2
  <2>8. Len(header'.alia) \in 0 .. Chans - 1
    BY <2>4, <2>6
  <2>9. \A i \in 1 .. Len(header'.alia) :
            header'.alia[i] = written.alia[i] /\ Len(written.alia[i]) < Limit
    BY <2>6
  <2>10. NamesAhead(p, q, c)'
    BY <1>3, <2>3, <2>5, <2>7, <2>8, <2>9 DEF NamesAhead, Chans
  <2> QED BY <2>1, <2>10
<1>8. at' # 15 => o' = cut[at' - 1] + 1
  BY <1>1, <1>4
<1>9. at' > 7 => nc' = Chans'
  BY <1>1, <1>3, <1>4 DEF Chans
<1> QED BY <1>3, <1>4, <1>5, <1>6, <1>7, <1>8, <1>9 DEF Follows

LEMMA HoldsKept ==
    ASSUME TypeInv, input' = input, NEW pad, NEW cut
    PROVE  Holds(pad, cut)' <=> Holds(pad, cut)
<1>1. written' = written /\ block' = block
  BY InputKept
<1> QED BY <1>1 DEF Holds, Chans

LEMMA BackInit == HeaderInit => BackInv
BY DEF HeaderInit, BackInv

\* From one section to the next, or an exception.
LEMMA FollowsNext ==
    ASSUME TypeInv, HeaderNext, result = "reading", NEW pad, NEW cut, Holds(pad, cut), Follows(cut)
    PROVE  \/ result' = "malformed" /\ ~ Fits(written)
           \/ result' = "reading" /\ Follows(cut)'
           \/ result' = "ok" /\ header' = written /\ Fits(written)
<1>1. at # 15 => Ahead(pad, cut[at])
  BY FollowsAhead
<1>2. at > 7 => nc = Chans
  BY DEF Follows
<1>3. at \in 1 .. 16
  BY StateFacts
<1>4. ~ LastByte /\ ~ ParseHeader
  BY DEF LastByte, ParseHeader
<1>5. ~ TagMissing
  <2>1. CASE at # 15
    BY <1>1, <2>1, TagNotMissing
  <2>2. CASE at = 15
    BY <2>2, SectionFacts DEF TagMissing, Section
  <2> QED BY <2>1, <2>2
<1>6. CASE Number
  <2>1. Section \in Numbers
    BY <1>6 DEF Number
  <2>2. at \in {1, 3, 4, 5, 6, 9} /\ Section \notin Texts
    BY <1>3, <2>1, SectionFacts DEF Section
  <2>3. /\ result' # "malformed" /\ o' = cut[at] + 1
        /\ header'[Section] = written[Section]
    BY <1>1, <1>6, <2>2, NumberBack
  <2>4. Moved /\ Takes(o - 1, header', nc', o' - 1, 0)
    BY <1>6, <2>3, NumberTakes
  <2>5. /\ \A t \in FieldNames \ {"alia"} : t # Section => header[t] = header'[t]
        /\ nc' = nc
    BY <2>2, <2>4 DEF Takes
  <2>6. at \in 1 .. 14 /\ at # 14 /\ (at >= 7 => nc' = Chans)
    BY <1>2, <2>2, <2>5
  <2>7. Follows(cut)'
    BY <2>2, <2>3, <2>4, <2>5, <2>6, TakenFollows
  <2> QED BY <2>4, <2>7 DEF Moved
<1>7. CASE Sync
  <2>1. Section = "sync"
    BY <1>7 DEF Sync
  <2>2. at = 2 /\ Section \notin Texts
    BY <1>3, <2>1, SectionFacts DEF Section
  <2>3. /\ result' # "malformed" /\ o' = cut[at] + 1
        /\ header'[Section] = written[Section]
    BY <1>1, <1>7, <2>1, <2>2, SyncBack
  <2>4. Moved /\ Takes(o - 1, header', nc', o' - 1, 0)
    BY <1>7, <2>3, SyncTakes
  <2>5. /\ \A t \in FieldNames \ {"alia"} : t # Section => header[t] = header'[t]
    BY <2>4 DEF Takes
  <2>6. at \in 1 .. 14 /\ at # 14 /\ ~ (at >= 7)
    BY <2>2
  <2>7. Follows(cut)'
    BY <2>2, <2>3, <2>4, <2>5, <2>6, TakenFollows
  <2> QED BY <2>4, <2>7 DEF Moved
<1>8. CASE ChannelCount
  <2>1. Section = "chan"
    BY <1>8 DEF ChannelCount
  <2>2. at = 7 /\ Section \notin Texts /\ Section \notin FieldNames
    BY <1>3, <2>1, SectionFacts DEF Section, FieldNames
  <2>3. \/ result' = "malformed" /\ ~ Fits(written)
        \/ result' # "malformed" /\ o' = cut[at] + 1 /\ nc' = Chans
    BY <1>1, <1>8, <2>2, CountBack
  <2>4. CASE result' # "malformed"
    <3>1. Moved /\ header' = header
      BY <1>8, <2>4, CountTakes
    <3>2. at \in 1 .. 14 /\ at # 14
      BY <2>2
    <3>3. Follows(cut)'
      BY <2>2, <2>3, <2>4, <3>1, <3>2, TakenFollows
    <3> QED BY <3>1, <3>3 DEF Moved
  <2> QED BY <2>3, <2>4
<1>9. CASE Gain
  <2>1. Section = "gain"
    BY <1>9 DEF Gain
  <2>2. at = 8 /\ Section \notin Texts
    BY <1>3, <2>1, SectionFacts DEF Section
  <2>3. nc = Chans
    BY <1>2, <2>2
  <2>4. /\ result' # "malformed" /\ o' = cut[at] + 1
        /\ header'[Section] = written[Section]
    BY <1>1, <1>9, <2>1, <2>2, <2>3, GainBack
  <2>5. Moved /\ Takes(o - 1, header', nc', o' - 1, 0) /\ nc' = nc
    BY <1>9, <2>4, GainTakes
  <2>6. \A t \in FieldNames \ {"alia"} : t # Section => header[t] = header'[t]
    BY <2>5 DEF Takes
  <2>7. at \in 1 .. 14 /\ at # 14 /\ nc' = Chans
    BY <2>2, <2>3, <2>5
  <2>8. Follows(cut)'
    BY <2>2, <2>4, <2>5, <2>6, <2>7, TakenFollows
  <2> QED BY <2>5, <2>8 DEF Moved
<1>10. CASE Text
  <2>1. Section \in Texts
    BY <1>10 DEF Text
  <2>2. at \in 10 .. 13
    BY <1>3, <2>1, SectionFacts DEF Section
  <2>3. \/ result' = "malformed" /\ ~ Fits(written)
        \/ /\ result' # "malformed" /\ o' = cut[at] + 1
           /\ header'[Section] = written[Section] /\ Len(written[Section]) < Limit
    BY <1>1, <1>10, <2>2, TextBack
  <2>4. CASE result' # "malformed"
    <3>1. PICK z : Moved /\ Takes(o - 1, header', nc', o' - 1, z) /\ nc' = nc
      BY <1>10, <2>4, TextTakes
    <3>2. \A t \in FieldNames \ {"alia"} : t # Section => header[t] = header'[t]
      BY <3>1 DEF Takes
    <3>3. at \in 1 .. 14 /\ at # 14 /\ nc' = Chans
      BY <1>2, <2>2, <3>1
    <3>4. Follows(cut)'
      BY <2>3, <2>4, <3>1, <3>2, <3>3, TakenFollows
    <3> QED BY <3>1, <3>4 DEF Moved
  <2> QED BY <2>3, <2>4
<1>11. CASE ChannelNames
  <2>1. Section = "alia"
    BY <1>11 DEF ChannelNames
  <2>2. at = 14 /\ Section \notin Texts
    BY <1>3, <2>1, SectionFacts DEF Section
  <2>3. result' # "malformed" /\ o' = cut[at] + 1
    BY <1>1, <1>11, <2>2, AliasBack
  <2>4. Moved /\ Takes(o - 1, header', nc', o' - 1, 0) /\ nc' = nc /\ header'.alia = << >>
    BY <1>11, <2>3, AliasTakes
  <2>5. \A t \in FieldNames \ {"alia"} : t # Section => header[t] = header'[t]
    BY <2>4 DEF Takes
  <2>6. at \in 1 .. 14 /\ nc' = Chans
    BY <1>2, <2>2, <2>4
  <2>7. Follows(cut)'
    BY <2>1, <2>2, <2>3, <2>4, <2>5, <2>6, TakenFollows
  <2> QED BY <2>4, <2>7 DEF Moved
<1>12. CASE Name
  <2>1. Section = "name"
    BY <1>12 DEF Name
  <2>2. at = 15
    BY <1>3, <2>1, SectionFacts DEF Section
  <2>3. nc = Chans
    BY <1>2, <2>2
  <2>4. PICK ncut : NamesAhead(cut[14], cut[15], ncut)
    BY <2>2 DEF Follows
  <2>5. PICK p \in Nat, q \in Nat : /\ p = cut[14] /\ q = cut[15] /\ q + 1 \in 1 .. Size
                                    /\ block[q + 1] # Zero
    <3>1. /\ 14 \in 0 .. 16 /\ 15 \in 0 .. 16 /\ 15 \in 0 .. 15
          /\ 15 \in {10, 11, 12, 13, 15}
      OBVIOUS
    <3> QED BY <3>1, HoldsFacts
  <2>6. \/ result' = "malformed" /\ ~ Fits(written)
        \/ /\ result' # "malformed" /\ at' = 15
           /\ NamesAhead(p, q, ncut)'
        \/ /\ result' # "malformed" /\ at' = 16 /\ o' = q + 1
           /\ header'.alia = written.alia /\ NamesFit(written, Chans)
    BY <1>12, <2>3, <2>4, <2>5, NameBack
  <2>7. CASE result' # "malformed"
    <3>1. /\ result' = "reading" /\ input' = input /\ nc' = nc
          /\ \A t \in FieldNames \ {"alia"} : header[t] = header'[t]
      BY <1>12, <2>7, NameFacts
    <3>2. written' = written /\ block' = block
      BY <3>1, InputKept
    <3>3. /\ \A k \in 1 .. 14 : Sections[k] \in FieldNames \ {"alia"} =>
                 header'[Sections[k]] = written[Sections[k]]
          /\ Fitting(written, 14)
      <4>1. at - 1 = 14
        BY <2>2
      <4> QED BY <3>1, <4>1 DEF Follows
    <3>4. CASE at' = 15 /\ NamesAhead(p, q, ncut)'
      <4>1. at' - 1 = 14 /\ at' # 16
        BY <3>4
      <4>2. Follows(cut)'
        BY <2>3, <2>5, <3>1, <3>2, <3>3, <3>4, <4>1 DEF Follows, Chans
      <4> QED BY <3>1, <4>2
    <3>5. CASE /\ at' = 16 /\ o' = q + 1
               /\ header'.alia = written.alia /\ NamesFit(written, Chans)
      <4>1. at' - 1 = 15 /\ at' # 15
        BY <3>5
      <4>2. Sections[15] \notin FieldNames /\ Sections[15] \notin Texts
        BY SectionFacts DEF FieldNames
      <4>3. \A k \in 1 .. 15 : k \in 1 .. 14 \/ k = 15
        OBVIOUS
      <4>4. Fitting(written, 15)
        BY <3>3, <4>2, <4>3 DEF Fitting
      <4>5. \A k \in 1 .. 15 : Sections[k] \in FieldNames \ {"alia"} =>
                header'[Sections[k]] = written[Sections[k]]
        BY <3>3, <4>2, <4>3
      <4>6. Follows(cut)'
        BY <2>3, <2>5, <3>1, <3>2, <3>5, <4>1, <4>4, <4>5 DEF Follows, Chans
      <4> QED BY <3>1, <4>6
    <3> QED BY <2>6, <2>7, <3>4, <3>5
  <2> QED BY <2>6, <2>7
<1>13. CASE Comment
  <2>1. /\ result' = "ok" /\ at = 16 /\ header' \in Struct
        /\ \A t \in FieldNames : t # "cmnt" => header[t] = header'[t]
    BY <1>13, CommentFacts
  <2>2. /\ \A k \in 1 .. 15 : Sections[k] \in FieldNames \ {"alia"} =>
               header[Sections[k]] = written[Sections[k]]
        /\ Fitting(written, 15) /\ nc = Chans
        /\ header.alia = written.alia /\ NamesFit(written, Chans)
    <3>1. at - 1 = 15 /\ at > 7
      BY <2>1
    <3> QED BY <2>1, <3>1 DEF Follows
  <2>3. header'.cmnt = written.cmnt
    <3>1. Ahead(pad, cut[at]) /\ cut[at] <= Size /\ block[Size] = Zero
      BY <1>1, <2>1 DEF Holds
    <3> QED BY <1>13, <3>1, CommentBack
  <2>4. ASSUME NEW t \in FieldNames PROVE header'[t] = written[t]
    <3>1. CASE t = "cmnt"
      BY <2>3, <3>1
    <3>2. CASE t = "alia"
      BY <2>1, <2>2, <3>2
    <3>3. CASE t \notin {"cmnt", "alia"}
      <4>1. t \in {"time", "sync", "addr", "rate", "writ", "lost", "gain", "bitd",
                   "rcid", "rtci", "lati", "logi"}
        BY <3>3 DEF FieldNames
      <4>2. \E k \in 1 .. 15 : Sections[k] = t
        <5>1. /\ Sections[1] = "time" /\ Sections[2] = "sync" /\ Sections[3] = "addr"
              /\ Sections[4] = "rate" /\ Sections[5] = "writ" /\ Sections[6] = "lost"
              /\ Sections[8] = "gain" /\ Sections[9] = "bitd" /\ Sections[10] = "rcid"
              /\ Sections[11] = "rtci" /\ Sections[12] = "lati" /\ Sections[13] = "logi"
          BY DEF Sections
        <5>2. {1, 2, 3, 4, 5, 6, 8, 9, 10, 11, 12, 13} \subseteq 1 .. 15
          OBVIOUS
        <5> QED BY <4>1, <5>1, <5>2
      <4> QED BY <2>1, <2>2, <3>3, <4>2
    <3> QED BY <3>1, <3>2, <3>3
  <2>5. header' = written
    <3>1. PICK h \in Struct, g \in Struct : h = header' /\ g = written
      BY <2>1, BlockFacts
    <3>2. h = [t \in FieldNames |-> h[t]] /\ g = [t \in FieldNames |-> g[t]]
      BY StructFields
    <3>3. \A t \in FieldNames : h[t] = g[t]
      BY <2>4, <3>1
    <3>4. [t \in FieldNames |-> h[t]] = [t \in FieldNames |-> g[t]]
      BY <3>3
    <3> QED BY <3>1, <3>2, <3>4
  <2>6. Fits(written)
    <3>1. Fitting(written, 16)
      <4>1. Sections[16] \notin Texts /\ \A k \in 1 .. 16 : k \in 1 .. 15 \/ k = 16
        BY SectionFacts
      <4> QED BY <2>2, <4>1 DEF Fitting
    <3>2. nc \in 1 .. MaxChannels
      BY <2>1, StateFacts
    <3> QED BY <2>2, <3>1, <3>2, BlockFacts, FitsIs DEF Chans
  <2> QED BY <2>1, <2>5, <2>6
<1> QED BY <1>4, <1>5, <1>6, <1>7, <1>8, <1>9, <1>10, <1>11, <1>12, <1>13 DEF HeaderNext

LEMMA BackNext == TypeInv /\ BackInv /\ [HeaderNext]_headerVars => BackInv'
<1> SUFFICES ASSUME TypeInv, BackInv, [HeaderNext]_headerVars,
                    NEW pad, NEW cut, Holds(pad, cut)'
             PROVE  /\ result' = "malformed" => ~ Fits(written)'
                    /\ result' = "reading" => Follows(cut)'
                    /\ result' \in {"ok", "parsed"} => header' = written' /\ Fits(written)'
  BY DEF BackInv
<1>1. input' = input
  BY DEF HeaderNext, headerVars, LastByte, TagMissing, Number, Sync, ChannelCount, Gain, Text,
         ChannelNames, Name, Comment, ParseHeader, GoOn, Refuse
<1>2. written' = written /\ block' = block /\ Holds(pad, cut)
  BY <1>1, InputKept, HoldsKept
<1>3. /\ result = "malformed" => ~ Fits(written)
      /\ result = "reading" => Follows(cut)
      /\ result \in {"ok", "parsed"} => header = written /\ Fits(written)
  BY <1>2 DEF BackInv
<1>4. Fits(written)' <=> Fits(written)
  BY <1>2 DEF Fits
<1>5. CASE UNCHANGED headerVars
  <2>1. result' = result /\ header' = header /\ (Follows(cut) => Follows(cut)')
    BY <1>5 DEF headerVars, input, Follows, NamesAhead, Chans
  <2> QED BY <1>2, <1>3, <1>4, <2>1
<1>6. CASE HeaderNext /\ result = "reading"
  <2>1. \/ result' = "malformed" /\ ~ Fits(written)
        \/ result' = "reading" /\ Follows(cut)'
        \/ result' = "ok" /\ header' = written /\ Fits(written)
    BY <1>2, <1>3, <1>6, FollowsNext
  <2> QED BY <1>2, <1>4, <2>1
<1>7. CASE HeaderNext /\ result # "reading"
  <2>1. LastByte \/ ParseHeader
    BY <1>7 DEF HeaderNext, TagMissing, Number, Sync, ChannelCount, Gain, Text, ChannelNames,
                Name, Comment, Tagged
  <2>2. CASE LastByte
    <3>1. block[Size] = Zero
      BY <1>2 DEF Holds
    <3>2. result = "new" /\ result' = "reading" /\ o' = o /\ at' = at /\ nc' = nc
      BY <2>2, <3>1 DEF LastByte
    <3>3. o = 1 /\ at = 1
      BY <3>2 DEF TypeInv
    <3>4. cut[0] = 0
      BY <1>2, HoldsFacts
    <3>5. at' - 1 = 0 /\ at' # 15 /\ at' # 16 /\ ~ (at' > 7) /\ o' = cut[0] + 1
      BY <3>2, <3>3, <3>4
    <3>6. Fitting(written', 0)
      BY DEF Fitting
    <3>7. Follows(cut)'
      BY <3>5, <3>6 DEF Follows
    <3> QED BY <3>2, <3>7
  <2>3. CASE ParseHeader
    <3>1. result = "ok" /\ result' = "parsed" /\ header' = header
      BY <2>3 DEF ParseHeader
    <3> QED BY <1>2, <1>3, <1>4, <3>1
  <2> QED BY <2>1, <2>2, <2>3
<1> QED BY <1>5, <1>6, <1>7

\* What a header says is what the reader reports of it.
LEMMA MeaningIs ==
    ASSUME TypeInv
    PROVE  Meaning(written) = Reported(written)
<1>1. FromBcd(bytes) = CalendarTime(bytes)
  BY BlockFacts, CalendarTimes
<1>2. Meaning(written) =
          [Reported(written) EXCEPT !.time = TimeOf(written.time),
                                    !.sync_time = TimeOf(written.sync[2])]
  BY <1>1 DEF Meaning, TimeOf
<1> QED BY <1>2 DEF Reported

\* A recorder's block is read as it was written, or refused if it does not fit.
THEOREM ReadsBackAlways == HeaderSpec => []ReadsBack
<1>1. HeaderInit => TypeInv /\ BackInv
  BY TypeInit, BackInit
<1>2. TypeInv /\ BackInv /\ [HeaderNext]_headerVars => (TypeInv /\ BackInv)'
  BY TypeNext, BackNext
<1>3. TypeInv /\ BackInv => ReadsBack
  <2> SUFFICES ASSUME TypeInv, BackInv, result \in {"parsed", "malformed"},
                      Describes(written, block), block[Size] = Zero
               PROVE  IF Fits(written) THEN result = "parsed" /\ hash = Meaning(written)
                      ELSE result = "malformed"
    BY DEF ReadsBack
  <2>1. PICK n \in 1 .. Len(Counts), h \in Struct : n = Chans /\ h = written /\ n = Len(h.alia)
    BY BlockFacts DEF Chans
  <2>2. \E pad, cut : Laid(block, h, n, pad, cut, 16) /\ cut[16] <= Size
    <3>1. Describes(h, block)
      BY <2>1
    <3> QED BY <2>1, <3>1, DescribesIs
  <2>3. PICK pad, cut : Holds(pad, cut)
    BY <2>1, <2>2 DEF Holds
  <2>4. /\ result = "malformed" => ~ Fits(written)
        /\ result = "parsed" => header = written /\ Fits(written)
    BY <2>3 DEF BackInv
  <2>5. result = "parsed" => hash = Reported(header)
    BY DEF TypeInv
  <2> QED BY <2>4, <2>5, MeaningIs
<1> QED BY <1>1, <1>2, <1>3, PTL DEF HeaderSpec

-----------------------------------------------------------------------------
(***************************************************************************)
(* KumSdFile: the frames of a card                                         *)
(***************************************************************************)

Rec == card[source]

\* The method whose iteration yielded describes, unless it was left or failed.
Method == IF status \in {"each", "process"} THEN status ELSE ended

\* What is known of the frames before the one that is next.
Seen ==
    /\ source = 0 => yielded = << >> /\ ended = "no"
    /\ source > 0 =>
        /\ Faithful
        /\ \A i \in 1 .. Len(yielded) : yielded[i].frame < next
        /\ Method # "no" => \A k \in Recorded(Rec) :
              k < next /\ (Method = "each" \/ Rec.frames[k].kind # "other") =>
                  \E i \in 1 .. Len(yielded) : yielded[i].frame = k
    /\ status \in {"each", "process"} =>
        /\ ended = "no"
        /\ \A j \in 1 .. next - 1 : Rec.frames[j].kind # "end"

\* After the end, nothing that was recorded is left.
Exhausted == ended # "no" => \A k \in Recorded(Rec) : k < next

\* each_frame reads the recording whose headers were loaded last, process the
\* first, whose start time was valid when the card was opened.
Current ==
    /\ status = "new" => fields.data = 0
    /\ status = "each" => source = fields.data
    /\ status = "process" => source = 1
    /\ status \in {"idle", "each", "process"} => fields.data > 0 /\ card[1].timed
    /\ loaded => fields.data > 0

\* file->pos is where the stream stands, so that the end address is not missed.
InStep ==
    status \in {"each", "process"} =>
        IF MoreFrames THEN pos = Present.at
        ELSE next > 1 => pos = After(card[source].frames[next - 1])

IInv == card \in Cards /\ TypeOK /\ InStep /\ Seen /\ Exhausted /\ Current /\ Coherent /\ OwnBase

LEMMA Entries ==
    ASSUME NEW s \in Seq([frame : Nat, base : Nat]), NEW i \in 1 .. Len(s)
    PROVE  s[i].frame \in Nat
<1> DEFINE E == [frame : Nat, base : Nat]
<1>1. s \in Seq(E)
  OBVIOUS
<1>2. \A e \in E : e.frame \in Nat
  OBVIOUS
<1> HIDE DEF E
<1>3. s[i] \in E
  BY <1>1
<1> QED BY <1>2, <1>3

LEMMA InitIInv == Init => IInv
<1> SUFFICES ASSUME Init PROVE IInv
  OBVIOUS
<1>1. card \in Seq(Recording) /\ Len(card) \in Nat
  BY CardAssumption DEF Init
<1>2. TypeOK
  <2>1. /\ status = "new" /\ loaded = FALSE /\ source = 0 /\ pos = 0
        /\ yielded = << >> /\ ended = "no"
    BY DEF Init
  <2>2. fields \in [data : 0 .. Len(card), base : 0 .. Len(card), last : 0 .. Len(card),
                    sync : 0 .. Len(card), skew : 0 .. Len(card), ids : 0 .. Len(card)]
    <3>1. 0 \in 0 .. Len(card)
      BY <1>1
    <3> QED BY <3>1 DEF Init
  <2>3. 0 \in 0 .. Len(card)
    BY <1>1
  <2>4. yielded \in Seq([frame : Nat, base : Nat])
    BY <2>1
  <2>5. status \notin {"each", "process"} /\ ~ (source > 0)
    BY <2>1
  <2> QED BY <1>1, <2>1, <2>2, <2>3, <2>4, <2>5 DEF TypeOK
<1>3. Coherent
  BY DEF Init, Coherent, Timed, IsLatest
<1>4. OwnBase
  BY DEF Init, OwnBase
<1> QED
  BY <1>2, <1>3, <1>4 DEF Init, IInv, InStep, Seen, Exhausted, Current

\* What the present recording looks like.
LEMMA RecFacts ==
  ASSUME TypeOK, source > 0
  PROVE  /\ Rec \in Recording
         /\ Rec.frames \in Seq(Frame) /\ Rec.end \in Nat
         /\ next \in 1 .. Len(Rec.frames) + 1
         /\ \A k \in 1 .. Len(Rec.frames) :
               /\ Rec.frames[k] \in Frame
               /\ Rec.frames[k].at \in Nat /\ Rec.frames[k].words \in Nat \ {0}
<1>1. source \in 1 .. Len(card) /\ card \in Seq(Recording)
  BY DEF TypeOK
<1>2. Rec \in Recording
  BY <1>1 DEF Rec
<1>3. Rec.frames \in Seq(Frame) /\ Rec.end \in Nat
  BY <1>2 DEF Recording
<1>4. \A k \in 1 .. Len(Rec.frames) : Rec.frames[k] \in Frame
  BY <1>3
<1> QED BY <1>2, <1>3, <1>4 DEF Frame, TypeOK, Rec

\* At the first frame of a recording nothing is handed out yet.
LEMMA RewindFacts ==
  ASSUME TypeOK, NEW k \in 1 .. Len(card), Rewind(k), UNCHANGED card
  PROVE  /\ source' = k /\ source' > 0 /\ pos' = 0 /\ ended' = "no"
         /\ next' = 1 /\ next' \in 1 .. Len(card'[source'].frames) + 1
         /\ yielded' = << >>
         /\ Seen' /\ Exhausted' /\ OwnBase'
<1>1. /\ source' = k /\ source' > 0 /\ pos' = 0 /\ ended' = "no"
      /\ next' = 1 /\ yielded' = << >>
  BY DEF Rewind
<1>2. next' \in 1 .. Len(card'[source'].frames) + 1
  <2>1. card[k] \in Recording
    BY DEF TypeOK
  <2>2. card[k].frames \in Seq(Frame)
    BY <2>1 DEF Recording
  <2> QED BY <1>1, <2>2
<1>3. Faithful'
  BY <1>1 DEF Faithful
<1>4. \A j \in Recorded(Rec)' : ~ (j < next')
  BY <1>1 DEF Recorded
<1>5. Seen'
  BY <1>1, <1>3, <1>4 DEF Seen
<1> QED BY <1>1, <1>2, <1>5 DEF Exhausted, OwnBase

\* The latest of the first n + 1 numbers in a set is n + 1 itself, or that of the
\* first n.
LEMMA LatestGrows ==
  ASSUME NEW n \in Nat, NEW S \in SUBSET (1 .. n), NEW x, NEW P \in BOOLEAN, IsLatest(x, S)
  PROVE  IsLatest(IF P THEN n + 1 ELSE x, S \cup (IF P THEN {n + 1} ELSE {}))
<1>1. CASE P
  <2>1. \A j \in S : j <= n + 1
    OBVIOUS
  <2> QED BY <1>1, <2>1 DEF IsLatest
<1>2. CASE ~ P
  BY <1>2 DEF IsLatest
<1> QED BY <1>1, <1>2

\* What one more pair of headers sets.
LEMMA LoadFacts ==
  ASSUME card \in Seq(Recording), Coherent, NEW k \in 1 .. Len(card), k = fields.data + 1,
         fields.data \in Nat, NEW g, g = Load(fields, k),
         fields \in [data : 0 .. Len(card), base : 0 .. Len(card), last : 0 .. Len(card),
                    sync : 0 .. Len(card), skew : 0 .. Len(card), ids : 0 .. Len(card)]
  PROVE  /\ IsLatest(g.base, Timed(k)) /\ IsLatest(g.sync, Timed(k))
         /\ IsLatest(g.ids, {j \in Timed(k) : card[j].sync # "same"})
         /\ IsLatest(g.skew, {j \in Timed(k) : card[j].sync = "both"})
<1> DEFINE n == fields.data
           ts == card[k].timed
           is == card[k].timed /\ card[k].sync # "same"
           ss == card[k].timed /\ card[k].sync = "both"
           I(m) == {j \in Timed(m) : card[j].sync # "same"}
           B(m) == {j \in Timed(m) : card[j].sync = "both"}
<1>1. ts \in BOOLEAN /\ card[k].sync \in {"both", "same", "none"}
  <2>1. card[k] \in Recording
    OBVIOUS
  <2> QED BY <2>1 DEF Recording
<1>2. /\ g.base = IF ts THEN k ELSE fields.base
      /\ g.sync = IF ts THEN k ELSE fields.sync
      /\ g.ids = IF is THEN k ELSE fields.ids
      /\ g.skew = IF ss THEN k ELSE fields.skew
  <2>1. CASE ~ card[k].timed
    BY <2>1 DEF Load
  <2>2. CASE card[k].timed /\ card[k].sync = "same"
    BY <2>2 DEF Load
  <2>3. CASE card[k].timed /\ card[k].sync # "same"
    BY <2>3 DEF Load
  <2> QED BY <2>1, <2>2, <2>3
<1>3. \A j : j \in 1 .. k <=> j \in 1 .. n \/ j = k
  OBVIOUS
<1>4. /\ Timed(k) = Timed(n) \cup (IF ts THEN {k} ELSE {})
      /\ I(k) = I(n) \cup (IF is THEN {k} ELSE {})
      /\ B(k) = B(n) \cup (IF ss THEN {k} ELSE {})
      /\ Timed(n) \in SUBSET (1 .. n) /\ I(n) \in SUBSET (1 .. n)
      /\ B(n) \in SUBSET (1 .. n)
  BY <1>3 DEF Timed
<1>5. /\ IsLatest(fields.base, Timed(n)) /\ IsLatest(fields.sync, Timed(n))
      /\ IsLatest(fields.ids, I(n)) /\ IsLatest(fields.skew, B(n))
  BY DEF Coherent
<1>6. n \in Nat /\ k = n + 1 /\ ts \in BOOLEAN /\ is \in BOOLEAN /\ ss \in BOOLEAN
  BY <1>1
<1> HIDE DEF n, ts, is, ss, I, B
<1>7. IsLatest(g.base, Timed(k))
  BY <1>2, <1>4, <1>5, <1>6, LatestGrows
<1>8. IsLatest(g.sync, Timed(k))
  BY <1>2, <1>4, <1>5, <1>6, LatestGrows
<1>9. IsLatest(g.ids, I(k))
  BY <1>2, <1>4, <1>5, <1>6, LatestGrows
<1>10. IsLatest(g.skew, B(k))
  BY <1>2, <1>4, <1>5, <1>6, LatestGrows
<1> QED BY <1>7, <1>8, <1>9, <1>10 DEF I, B

LEMMA NextFileStep == IInv /\ NextFile => IInv'
<1> SUFFICES ASSUME IInv, NextFile PROVE IInv'
  OBVIOUS
<1> DEFINE k == fields.data + 1
<1>1. /\ UNCHANGED card
      /\ status \in {"new", "idle"} /\ status' \in {"closed", "idle"}
      /\ loaded' = (k <= Len(card) /\ card[k].timed /\ card[k].sync # "same")
      /\ fields' = IF k <= Len(card) THEN Load(fields, k) ELSE fields
      /\ status = "new" /\ ~ loaded' => status' = "closed"
  BY DEF NextFile
<1>2. /\ fields \in [data : 0 .. Len(card), base : 0 .. Len(card), last : 0 .. Len(card),
                     sync : 0 .. Len(card), skew : 0 .. Len(card), ids : 0 .. Len(card)]
      /\ Len(card) \in Nat /\ TypeOK
  BY DEF IInv, TypeOK
<1>3. /\ fields' \in [data : 0 .. Len(card), base : 0 .. Len(card), last : 0 .. Len(card),
                      sync : 0 .. Len(card), skew : 0 .. Len(card), ids : 0 .. Len(card)]
      /\ fields'.data = IF k <= Len(card) THEN k ELSE fields.data
      /\ loaded' => /\ fields'.base = k /\ fields'.last = k /\ fields'.sync = k
                    /\ fields'.ids = k
                    /\ card[k].sync = "both" => fields'.skew = k
  <2>1. CASE k <= Len(card)
    <3>1. k \in 0 .. Len(card) /\ fields' = Load(fields, k)
      BY <1>1, <1>2, <2>1
    <3> HIDE DEF k
    <3> QED BY <1>1, <1>2, <2>1, <3>1 DEF Load
  <2>2. CASE ~ (k <= Len(card))
    BY <1>1, <1>2, <2>2
  <2> QED BY <2>1, <2>2
<1>4. Current'
  <2>1. status = "new" /\ status' = "idle" => fields'.data > 0 /\ card[1].timed
    <3> SUFFICES ASSUME status = "new", status' = "idle"
                 PROVE  fields'.data > 0 /\ card[1].timed
      OBVIOUS
    <3>1. loaded' /\ fields.data = 0
      BY <1>1 DEF IInv, Current
    <3>2. k = 1
      BY <3>1
    <3>3. k <= Len(card) /\ card[k].timed
      <4> HIDE DEF k
      <4> QED BY <1>1, <3>1, Zenon
    <3> QED BY <1>3, <3>2, <3>3
  <2>2. fields'.data \in {fields.data, fields.data + 1} /\ fields.data \in Nat
    <3>1. fields.data \in 0 .. Len(card)
      BY <1>2
    <3> QED BY <1>2, <1>3, <3>1
  <2>3. status = "idle" => fields.data > 0 /\ card[1].timed
    BY DEF IInv, Current
  <2>4. fields.data > 0 => fields'.data > 0
    BY <2>2
  <2>5. loaded' => fields'.data > 0
    <3>1. loaded' => fields'.data = fields.data + 1
      BY <1>1, <1>3
    <3> QED BY <2>2, <3>1
  <2> QED BY <1>1, <2>1, <2>3, <2>4, <2>5 DEF Current
<1>5. Coherent'
  <2>1. /\ card \in Seq(Recording) /\ Coherent /\ fields.data \in 0 .. Len(card)
    BY <1>2 DEF IInv, TypeOK
  <2>2. loaded' => \A a \in {"base", "last", "sync", "ids"} : fields'[a] = fields'.data
    BY <1>1, <1>3
  <2>3. CASE k <= Len(card)
    <3>1. PICK m \in 1 .. Len(card) : m = k
      BY <1>2, <2>1, <2>3
    <3>2. fields' = Load(fields, m) /\ fields'.data = m
      BY <1>1, <1>3, <2>3, <3>1
    <3>3. /\ IsLatest(fields'.base, Timed(m)) /\ IsLatest(fields'.sync, Timed(m))
          /\ IsLatest(fields'.ids, {j \in Timed(m) : card[j].sync # "same"})
          /\ IsLatest(fields'.skew, {j \in Timed(m) : card[j].sync = "both"})
      <4>1. m = fields.data + 1 /\ fields.data \in Nat
        BY <2>1, <1>2, <3>1
      <4> HIDE DEF k
      <4> QED BY <1>2, <2>1, <3>2, <4>1, LoadFacts
    <3> HIDE DEF k
    <3> QED BY <1>1, <2>2, <3>2, <3>3 DEF Coherent, Timed
  <2>4. CASE ~ (k <= Len(card))
    <3>1. fields' = fields
      BY <1>1, <2>4
    <3> HIDE DEF k
    <3> QED BY <1>1, <2>1, <2>2, <3>1 DEF Coherent, Timed
  <2> QED BY <2>3, <2>4
<1>6. InStep'
  BY <1>1 DEF InStep
<1>7. TypeOK' /\ Seen' /\ Exhausted' /\ OwnBase'
  <2>1. CASE loaded'
    <3>1. k \in 1 .. Len(card) /\ Rewind(k)
      <4>1. k \in 1 .. Len(card)
        <5>1. k <= Len(card)
          BY <1>1, <2>1, Zenon
        <5>2. fields.data \in 0 .. Len(card)
          BY <1>2
        <5> QED BY <1>2, <5>1, <5>2
      <4>2. Rewind(k)
        BY <2>1, Zenon DEF NextFile
      <4> QED BY <4>1, <4>2
    <3> HIDE DEF k
    <3>2. /\ source' = k /\ source' > 0 /\ pos' = 0 /\ ended' = "no"
          /\ next' \in 1 .. Len(card'[source'].frames) + 1
          /\ yielded' = << >>
      BY <1>1, <1>2, <3>1, RewindFacts
    <3>3. Seen' /\ Exhausted' /\ OwnBase'
      BY <1>1, <1>2, <3>1, RewindFacts
    <3> QED BY <1>1, <1>2, <1>3, <2>1, <3>1, <3>2, <3>3 DEF TypeOK
  <2>2. CASE ~ loaded'
    <3>1. UNCHANGED << source, next, pos, yielded, ended >>
      BY <2>2 DEF NextFile, reading
    <3>2. TypeOK'
      BY <1>1, <1>2, <1>3, <3>1 DEF TypeOK
    <3>3. Method' = Method \/ Method' = ended
      BY <1>1, <3>1 DEF Method
    <3> QED BY <1>1, <3>1, <3>2
            DEF IInv, Seen, Exhausted, Method, Rec, Faithful, Recorded, OwnBase, Timed
  <2> QED BY <2>1, <2>2
<1> QED BY <1>1, <1>4, <1>5, <1>6, <1>7 DEF IInv

\* Both methods begin at the first frame of a recording.
LEMMA StartStep ==
  ASSUME IInv, NEW k \in 1 .. Len(card), Rewind(k), status = "idle",
         status' \in {"each", "process"}, UNCHANGED << card, loaded >>,
         \/ UNCHANGED fields
         \/ fields' = [fields EXCEPT !.last = fields.data],
         status' = "each" => k = fields.data, status' = "process" => k = 1,
         k <= fields.data
  PROVE  IInv'
<1>1. TypeOK /\ Len(card) \in Nat
  BY DEF IInv, TypeOK
<1>2. /\ source' = k /\ source' > 0 /\ pos' = 0 /\ ended' = "no" /\ next' = 1
      /\ next' \in 1 .. Len(card'[source'].frames) + 1
      /\ yielded' = << >>
  BY <1>1, RewindFacts
<1>3. Seen' /\ Exhausted' /\ OwnBase'
  BY <1>1, RewindFacts
<1>4. /\ fields' \in [data : 0 .. Len(card), base : 0 .. Len(card), last : 0 .. Len(card),
                      sync : 0 .. Len(card), skew : 0 .. Len(card), ids : 0 .. Len(card)]
      /\ fields'.data = fields.data /\ fields'.base = fields.base
      /\ fields'.sync = fields.sync /\ fields'.skew = fields.skew
      /\ fields'.ids = fields.ids
      /\ fields'.last \in {fields.last, fields.data}
  BY <1>1 DEF TypeOK
<1>5. TypeOK'
  BY <1>1, <1>2, <1>4 DEF TypeOK
<1>6. InStep'
  <2>1. card \in Cards
    BY DEF IInv
  <2>2. Contiguous(card[k].frames)
    BY <2>1, CardAssumption
  <2>3. 1 <= Len(card[k].frames) => card[k].frames[1].at = 0
    <3>1. card[k] \in Recording
      BY <1>1 DEF TypeOK
    <3>2. card[k].frames \in Seq(Frame)
      BY <3>1 DEF Recording
    <3> QED BY <2>2, <3>2 DEF Contiguous
  <2> QED BY <1>2, <2>3 DEF InStep, MoreFrames, Present
<1>7. Current'
  BY <1>2, <1>4 DEF IInv, Current
<1>8. Coherent'
  <2>1. loaded => fields.last = fields.data
    BY DEF IInv, Coherent
  <2> QED BY <1>4, <2>1 DEF IInv, Coherent, Timed
<1> QED BY <1>3, <1>5, <1>6, <1>7, <1>8 DEF IInv

LEMMA EachFrameStep == IInv /\ EachFrame => IInv'
<1> SUFFICES ASSUME IInv, EachFrame PROVE IInv'
  OBVIOUS
<1>1. fields.data \in 1 .. Len(card)
  BY DEF IInv, TypeOK, Current, EachFrame
<1> QED BY <1>1, StartStep DEF EachFrame

LEMMA ProcessStep == IInv /\ Process => IInv'
<1> SUFFICES ASSUME IInv, Process PROVE IInv'
  OBVIOUS
<1>1. fields.data \in 1 .. Len(card)
  BY DEF IInv, TypeOK, Current, Process
<1>2. 1 \in 1 .. Len(card) /\ 1 <= fields.data
  BY <1>1
<1> QED BY <1>2, StartStep DEF Process

\* An iteration that is left or fails, and close.
LEMMA StopStep ==
  ASSUME IInv, status \in {"each", "process", "idle"}, status' \in {"idle", "closed"},
         UNCHANGED << card, fields, loaded, source, next, yielded, ended >>, pos' \in Nat
  PROVE  IInv'
<1>1. TypeOK'
  BY DEF IInv, TypeOK
<1>2. InStep' /\ OwnBase'
  BY DEF IInv, InStep, OwnBase, Timed
<1>3. Method' # "no" => Method = Method'
  BY DEF IInv, Seen, Method
<1>4. Seen'
  BY <1>3 DEF IInv, Seen, Faithful, Rec, Recorded
<1>5. Exhausted' /\ Current' /\ Coherent'
  BY DEF IInv, Exhausted, Current, Coherent, Timed, Rec, Recorded
<1> QED BY <1>1, <1>2, <1>4, <1>5 DEF IInv

LEMMA StopSteps == IInv /\ (CardEnds \/ ReadError \/ Leave \/ Close) => IInv'
<1> SUFFICES ASSUME IInv, CardEnds \/ ReadError \/ Leave \/ Close PROVE IInv'
  OBVIOUS
<1>1. pos \in Nat
  BY DEF IInv, TypeOK
<1>2. CASE CardEnds \/ Leave \/ Close
  BY <1>1, <1>2, StopStep DEF CardEnds, Leave, Close, reading
<1>3. CASE ReadError
  BY <1>1, <1>3, StopStep DEF ReadError
<1> QED BY <1>2, <1>3

\* Frames lie behind those before them: of those that do not, take the first.
LEMMA Order ==
  ASSUME card \in Cards, TypeOK, source > 0
  PROVE  /\ \A j, k \in 1 .. Len(Rec.frames) :
               j < k => After(Rec.frames[j]) <= Rec.frames[k].at
         /\ \A k \in 1 .. Len(Rec.frames) :
               k > 1 => Rec.frames[k].at = After(Rec.frames[k - 1])
<1>1. source \in 1 .. Len(card)
  BY DEF TypeOK
<1>2. Contiguous(Rec.frames)
  BY <1>1, CardAssumption DEF Rec
<1>3. /\ Len(Rec.frames) \in Nat
      /\ \A k \in 1 .. Len(Rec.frames) :
             Rec.frames[k].at \in Nat /\ Rec.frames[k].words \in Nat \ {0}
  BY RecFacts
<1>4. \A k \in 1 .. Len(Rec.frames) : k > 1 => Rec.frames[k].at = After(Rec.frames[k - 1])
  BY <1>2, <1>3 DEF Contiguous
<1>5. ASSUME NEW j \in 1 .. Len(Rec.frames)
      PROVE  \A k \in 1 .. Len(Rec.frames) :
                 j < k => After(Rec.frames[j]) <= Rec.frames[k].at
  <2> DEFINE T == {k \in 1 .. Len(Rec.frames) :
                       j < k /\ ~(After(Rec.frames[j]) <= Rec.frames[k].at)}
  <2>1. SUFFICES ASSUME T # {} PROVE FALSE
    OBVIOUS
  <2>2. PICK n \in T : \A m \in T : n <= m
    <3>1. T \in SUBSET Nat
      BY <1>3
    <3> HIDE DEF T
    <3> QED BY <2>1, <3>1, LeastNumber
  <2>3. /\ n \in 1 .. Len(Rec.frames) /\ j < n /\ n - 1 \in 1 .. Len(Rec.frames)
        /\ ~(After(Rec.frames[j]) <= Rec.frames[n].at)
        /\ Rec.frames[n].at = After(Rec.frames[n - 1])
    <3>1. n \in 1 .. Len(Rec.frames) /\ j < n /\ ~(After(Rec.frames[j]) <= Rec.frames[n].at)
      BY <2>2
    <3>2. n > 1 /\ n - 1 \in 1 .. Len(Rec.frames)
      BY <1>3, <3>1
    <3> QED BY <1>4, <3>1, <3>2
  <2>4. n - 1 # j
    <3>1. After(Rec.frames[j]) \in Nat
      BY <1>3 DEF After
    <3> QED BY <2>3, <3>1
  <2>5. n - 1 \in T
    <3>1. /\ Rec.frames[n - 1].at \in Nat /\ Rec.frames[n - 1].words \in Nat
          /\ Rec.frames[j].at \in Nat /\ Rec.frames[j].words \in Nat
      BY <1>3, <2>3
    <3>2. ~(After(Rec.frames[j]) <= Rec.frames[n - 1].at)
      BY <2>3, <3>1 DEF After
    <3>3. j < n - 1
      BY <2>3, <2>4
    <3> QED BY <2>3, <3>2, <3>3
  <2> QED BY <1>3, <2>2, <2>3, <2>5
<1> QED BY <1>4, <1>5

LEMMA ReturnStep == IInv /\ Return => IInv'
<1> SUFFICES ASSUME IInv, Return PROVE IInv'
  OBVIOUS
<1>1. /\ status \in {"each", "process"} /\ status' = "idle" /\ ended' = status
      /\ UNCHANGED << card, fields, loaded, source, next, yielded >>
      /\ pos' \in {pos, pos + 1} /\ AtEnd /\ source > 0
  BY DEF IInv, TypeOK, Return
<1>2. TypeOK'
  BY <1>1 DEF IInv, TypeOK
<1>3. InStep' /\ OwnBase'
  BY <1>1 DEF IInv, InStep, OwnBase, Timed
<1>4. Method' = Method
  BY <1>1 DEF Method
<1>5. Seen'
  BY <1>1, <1>4 DEF IInv, Seen, Faithful, Rec, Recorded
\* A frame from next on ends behind the end address.
<1>6. \A k \in Recorded(Rec) : k < next
  <2> SUFFICES ASSUME NEW k \in Recorded(Rec), k >= next PROVE FALSE
    <3>1. next \in Nat /\ \A k \in Recorded(Rec) : k \in Nat
      BY <1>1, RecFacts DEF IInv, Recorded
    <3> QED BY <3>1
  <2>1. /\ k \in 1 .. Len(Rec.frames) /\ After(Rec.frames[k]) <= Rec.end
        /\ next \in 1 .. Len(Rec.frames) /\ Len(Rec.frames) \in Nat
    BY <1>1, RecFacts DEF IInv, Recorded
  <2>2. /\ Rec.frames[k].at \in Nat /\ Rec.frames[k].words \in Nat \ {0}
        /\ Rec.frames[next].at \in Nat /\ Rec.frames[next].words \in Nat \ {0}
        /\ Rec.end \in Nat
    BY <1>1, <2>1, RecFacts DEF IInv
  <2>3. pos = Rec.frames[next].at
    BY <1>1, <2>1 DEF IInv, InStep, MoreFrames, Present, Rec
  <2>4. After(Rec.frames[next]) <= After(Rec.frames[k])
    <3>1. CASE k = next
      BY <3>1, <2>2 DEF After
    <3>2. CASE k > next
      <4>1. After(Rec.frames[next]) <= Rec.frames[k].at
        BY <1>1, <2>1, <3>2, Order DEF IInv
      <4> QED BY <4>1, <2>2 DEF After
    <3> QED BY <3>1, <3>2, <2>1
  <2>5. After(Rec.frames[next]) > Rec.end
    <3>1. pos + 1 > Rec.end \/ pos + Rec.frames[next].words > Rec.end
      BY <1>1 DEF AtEnd, Present, Rec
    <3>2. After(Rec.frames[next]) = pos + Rec.frames[next].words
      BY <2>3 DEF After
    <3>3. pos \in Nat /\ Rec.frames[next].words \in Nat /\ Rec.frames[next].words >= 1
      BY <2>2, <2>3
    <3> QED BY <3>1, <3>2, <3>3, <2>2
  <2> QED BY <2>1, <2>2, <2>4, <2>5 DEF After
<1>7. Exhausted'
  BY <1>1, <1>6 DEF Exhausted, Rec, Recorded
<1>8. Current' /\ Coherent'
  BY <1>1 DEF IInv, Current, Coherent, Timed
<1> QED BY <1>1, <1>2, <1>3, <1>5, <1>7, <1>8 DEF IInv

LEMMA ReadFrameStep == IInv /\ ReadFrame => IInv'
<1> SUFFICES ASSUME IInv, ReadFrame PROVE IInv'
  OBVIOUS
<1> DEFINE f == Rec.frames[next]
           h == [frame |-> next, base |-> BaseTime]
<1>1. /\ status \in {"each", "process"} /\ source > 0 /\ source <= fields.data
      /\ next \in 1 .. Len(Rec.frames) /\ Len(Rec.frames) \in Nat
      /\ UNCHANGED << card, fields, loaded, source >>
      /\ next' = next + 1 /\ pos' = pos + f.words /\ Rec' = Rec
      /\ status' = IF f.kind = "end" THEN "idle" ELSE status
      /\ ended' = IF f.kind = "end" THEN status ELSE "no"
  <2>1. status \in {"each", "process"} /\ source > 0 /\ source <= fields.data
    BY DEF IInv, TypeOK, ReadFrame
  <2>2. next \in 1 .. Len(Rec.frames) + 1 /\ Len(Rec.frames) \in Nat
    BY <2>1, RecFacts DEF IInv
  <2>3. next \in 1 .. Len(Rec.frames)
    BY <2>2 DEF ReadFrame, MoreFrames, Rec
  <2> QED BY <2>1, <2>2, <2>3 DEF ReadFrame, Present, Rec
<1>2. yielded' = IF f.kind \in HandedOut THEN Append(yielded, h) ELSE yielded
  BY DEF ReadFrame, Present, Rec
<1>3. /\ f.at \in Nat /\ f.words \in Nat \ {0} /\ Rec.end \in Nat /\ pos = f.at
      /\ pos \in Nat /\ After(f) <= Rec.end
  <2>1. f.at \in Nat /\ f.words \in Nat \ {0} /\ Rec.end \in Nat
    BY <1>1, RecFacts DEF IInv
  <2>2. pos = f.at
    BY <1>1 DEF IInv, InStep, MoreFrames, Present, Rec
  <2>3. ~ (pos + f.words > Rec.end)
    BY <1>1 DEF ReadFrame, AtEnd, MoreFrames, Present, Rec
  <2> HIDE DEF f
  <2> QED BY <2>1, <2>2, <2>3 DEF After
<1>4. h \in [frame : Nat, base : Nat] /\ h.frame = next /\ h.base = BaseTime
  <2>1. BaseTime \in Nat
    BY DEF IInv, TypeOK, BaseTime
  <2> QED BY <1>1, <2>1
<1>5. yielded \in Seq([frame : Nat, base : Nat])
  BY DEF IInv, TypeOK
\* Where the entries of yielded come from.
<1>6. /\ yielded' \in Seq([frame : Nat, base : Nat])
      /\ \A i \in 1 .. Len(yielded') :
            IF i <= Len(yielded) THEN i \in 1 .. Len(yielded) /\ yielded'[i] = yielded[i]
            ELSE i = Len(yielded) + 1 /\ yielded'[i] = h /\ f.kind \in HandedOut
      /\ Len(yielded') >= Len(yielded) /\ Len(yielded) \in Nat /\ Len(yielded') \in Nat
      /\ \A i \in 1 .. Len(yielded) : yielded'[i] = yielded[i]
      /\ f.kind \in HandedOut =>
            /\ Len(yielded') = Len(yielded) + 1
            /\ yielded'[Len(yielded) + 1] = h
  <2> HIDE DEF h, f
  <2>1. CASE f.kind \in HandedOut
    BY <2>1, <1>2, <1>4, <1>5
  <2>2. CASE f.kind \notin HandedOut
    BY <2>2, <1>2, <1>5
  <2> QED BY <2>1, <2>2
<1>7. HandedOut \subseteq {"data", "timestamp", "other"}
  BY DEF HandedOut
\* No End frame so far.
<1>8. \A j \in 1 .. next - 1 : Rec.frames[j].kind # "end"
  BY <1>1 DEF IInv, Seen
<1>9. f.kind \in HandedOut => next \in Recorded(Rec)
  <2> SUFFICES ASSUME f.kind \in HandedOut PROVE next \in Recorded(Rec)
    OBVIOUS
  <2>1. \A j \in 1 .. next : Rec.frames[j].kind # "end"
    <3>1. f.kind # "end" /\ f.kind # "unknown"
      BY <1>7
    <3> QED BY <1>1, <1>8, <3>1
  <2> QED BY <1>1, <1>3, <1>7, <2>1 DEF Recorded
<1> HIDE DEF h
<1>10. TypeOK'
  <2>1. next' \in 1 .. Len(Rec.frames) + 1
    BY <1>1
  <2>2. pos' \in Nat
    BY <1>1, <1>3
  <2>3. /\ card' \in Seq(Recording) /\ Len(card) \in Nat
        /\ fields' \in [data : 0 .. Len(card), base : 0 .. Len(card), last : 0 .. Len(card),
                        sync : 0 .. Len(card), skew : 0 .. Len(card), ids : 0 .. Len(card)]
        /\ loaded' \in BOOLEAN /\ source' \in 0 .. Len(card)
        /\ status' \in {"each", "process", "idle"}
        /\ ended' \in {"no", "each", "process"}
    BY <1>1 DEF IInv, TypeOK
  <2>4. next' \in 1 .. Len(card'[source'].frames) + 1
    BY <1>1, <2>1 DEF Rec
  <2> QED BY <1>1, <1>6, <2>2, <2>3, <2>4 DEF TypeOK
<1>11. InStep'
  <2>1. pos' = After(f)
    BY <1>1, <1>3 DEF After
  <2>2. CASE next + 1 <= Len(Rec.frames)
    <3>1. next + 1 \in 1 .. Len(Rec.frames) /\ next + 1 > 1
      BY <1>1, <2>2
    <3>2. Rec.frames[next + 1].at = After(Rec.frames[next + 1 - 1])
      BY <1>1, <3>1, Order DEF IInv
    <3>3. next + 1 - 1 = next
      BY <1>1
    <3>4. pos' = Rec.frames[next + 1].at
      BY <2>1, <3>2, <3>3
    <3> QED BY <1>1, <2>2, <3>4 DEF InStep, MoreFrames, Present, Rec
  <2>3. CASE ~ (next + 1 <= Len(Rec.frames))
    <3>1. next' - 1 = next
      BY <1>1
    <3>2. pos' = After(Rec.frames[next' - 1])
      BY <2>1, <3>1
    <3> QED BY <1>1, <2>3, <3>2 DEF InStep, MoreFrames, Rec
  <2> QED BY <2>2, <2>3
<1>12. Faithful'
  <2>1. Recorded(card[source])' = Recorded(Rec)
    BY <1>1 DEF Rec, Recorded
  <2>2. ASSUME NEW i \in 1 .. Len(yielded') PROVE yielded'[i].frame \in Recorded(Rec)
    <3>1. CASE i <= Len(yielded)
      BY <1>1, <1>6, <3>1 DEF IInv, Seen, Faithful, Rec
    <3>2. CASE ~ (i <= Len(yielded))
      BY <1>4, <1>6, <1>9, <3>2
    <3> QED BY <3>1, <3>2
  <2>3. ASSUME NEW i \in 1 .. Len(yielded') - 1
        PROVE  yielded'[i].frame < yielded'[i + 1].frame
    <3>1. i \in 1 .. Len(yielded) /\ yielded'[i] = yielded[i]
      BY <1>6
    <3>2. CASE i + 1 <= Len(yielded)
      <4>1. i \in 1 .. Len(yielded) - 1 /\ yielded'[i + 1] = yielded[i + 1]
        BY <1>6, <3>1, <3>2
      <4> QED BY <1>1, <3>1, <4>1 DEF IInv, Seen, Faithful
    <3>3. CASE ~ (i + 1 <= Len(yielded))
      <4>1. yielded'[i + 1] = h
        BY <1>6, <3>3
      <4>2. yielded[i].frame < next
        BY <1>1, <3>1 DEF IInv, Seen
      <4> QED BY <1>4, <3>1, <4>1, <4>2
    <3> QED BY <3>2, <3>3
  <2> QED BY <2>1, <2>2, <2>3 DEF Faithful
<1>13. \A i \in 1 .. Len(yielded') : yielded'[i].frame < next'
  <2> SUFFICES ASSUME NEW i \in 1 .. Len(yielded') PROVE yielded'[i].frame < next'
    OBVIOUS
  <2>1. CASE i <= Len(yielded)
    <3>1. i \in 1 .. Len(yielded) /\ yielded'[i] = yielded[i]
      BY <1>6, <2>1
    <3>2. yielded[i].frame < next
      BY <1>1, <3>1 DEF IInv, Seen
    <3>3. yielded[i].frame \in Nat
      BY <1>5, <3>1, Entries
    <3> QED BY <1>1, <3>1, <3>2, <3>3
  <2>2. CASE ~ (i <= Len(yielded))
    BY <1>1, <1>4, <1>6, <2>2
  <2> QED BY <2>1, <2>2
<1>14. ASSUME NEW k \in Recorded(Rec), k < next',
              status = "each" \/ Rec.frames[k].kind # "other"
       PROVE  \E i \in 1 .. Len(yielded') : yielded'[i].frame = k
  <2>1. k \in 1 .. Len(Rec.frames) /\ Rec.frames[k] \in Frame
    BY <1>1, RecFacts DEF IInv, Recorded
  <2>2. CASE k < next
    <3>1. PICK i \in 1 .. Len(yielded) : yielded[i].frame = k
      BY <1>1, <1>14, <2>2 DEF IInv, Seen, Method
    <3>2. i \in 1 .. Len(yielded') /\ yielded'[i] = yielded[i]
      BY <1>6
    <3> QED BY <3>1, <3>2
  <2>3. CASE ~ (k < next)
    <3>1. k = next
      BY <1>1, <1>14, <2>1, <2>3
    <3>2. f.kind \in Kinds /\ f.kind # "end" /\ f.kind # "unknown"
      BY <2>1, <3>1 DEF Recorded, Frame
    <3>3. f.kind \in HandedOut
      BY <1>1, <1>14, <3>1, <3>2 DEF HandedOut, Kinds
    <3>4. Len(yielded) + 1 \in 1 .. Len(yielded') /\ yielded'[Len(yielded) + 1].frame = k
      BY <1>4, <1>6, <3>1, <3>3
    <3> QED BY <3>4
  <2> QED BY <2>2, <2>3
<1>15. Seen'
  <2>1. Method' = status
    BY <1>1 DEF Method
  <2>2. Recorded(Rec)' = Recorded(Rec)
    BY <1>1 DEF Recorded
  <2>3. status' \in {"each", "process"} =>
          ended' = "no" /\ \A j \in 1 .. next' - 1 : Rec.frames[j].kind # "end"
    <3>1. f.kind # "end" => \A j \in 1 .. next : Rec.frames[j].kind # "end"
      BY <1>1, <1>8
    <3> QED BY <1>1, <3>1
  <2>4. source' > 0 /\ source' # 0
    BY <1>1 DEF IInv, TypeOK
  <2> QED BY <1>1, <1>12, <1>13, <1>14, <2>1, <2>2, <2>3, <2>4 DEF Seen
<1>16. Exhausted'
  <2> SUFFICES ASSUME ended' # "no", NEW k \in Recorded(Rec) PROVE k < next'
    BY <1>1 DEF Exhausted, Recorded
  <2>1. f.kind = "end" /\ k \in Nat /\ ~ (next \in 1 .. k)
    BY <1>1 DEF Recorded
  <2> QED BY <1>1, <2>1
<1>17. Current' /\ Coherent'
  BY <1>1 DEF IInv, Current, Coherent, Timed
<1>18. OwnBase'
  <2>1. IsLatest(BaseTime, Timed(source))
    <3>1. CASE status = "each"
      BY <3>1 DEF BaseTime, IInv, Current, Coherent
    <3>2. CASE status = "process"
      <4>1. source = 1 /\ BaseTime = 1 /\ card[1].timed
        BY <3>2 DEF BaseTime, IInv, Current
      <4>2. Timed(1) = {1}
        BY <4>1 DEF Timed
      <4> QED BY <4>1, <4>2 DEF IsLatest
    <3> QED BY <1>1, <3>1, <3>2
  <2>2. ASSUME NEW i \in 1 .. Len(yielded') PROVE IsLatest(yielded'[i].base, Timed(source))
    <3>1. CASE i <= Len(yielded)
      BY <1>1, <1>6, <3>1 DEF IInv, OwnBase
    <3>2. CASE ~ (i <= Len(yielded))
      BY <1>1, <1>4, <1>6, <2>1, <3>2
    <3> QED BY <3>1, <3>2
  <2> QED BY <1>1, <2>2 DEF OwnBase, Timed
<1> QED BY <1>1, <1>10, <1>11, <1>15, <1>16, <1>17, <1>18 DEF IInv

LEMMA StepIInv == IInv /\ [Next]_vars => IInv'
<1> SUFFICES ASSUME IInv, [Next]_vars PROVE IInv'
  OBVIOUS
<1>1. CASE NextFile
  BY <1>1, NextFileStep
<1>2. CASE EachFrame
  BY <1>2, EachFrameStep
<1>3. CASE Process
  BY <1>3, ProcessStep
<1>4. CASE Return
  BY <1>4, ReturnStep
<1>5. CASE ReadFrame
  BY <1>5, ReadFrameStep
<1>6. CASE CardEnds \/ ReadError \/ Leave \/ Close
  BY <1>6, StopSteps
<1>7. CASE UNCHANGED vars
  <2>1. UNCHANGED << card, status, fields, loaded, source, next, pos, yielded, ended >>
    BY <1>7 DEF vars, reading
  <2>2. TypeOK' /\ InStep' /\ OwnBase' /\ Current' /\ Coherent'
    BY <2>1
    DEF IInv, TypeOK, InStep, OwnBase, Current, Coherent, Timed, MoreFrames, Present
  <2>3. Seen' /\ Exhausted'
    BY <2>1 DEF IInv, Seen, Exhausted, Method, Rec, Faithful, Recorded
  <2> QED BY <2>1, <2>2, <2>3 DEF IInv
<1> QED BY <1>1, <1>2, <1>3, <1>4, <1>5, <1>6, <1>7 DEF Next, Iterate

LEMMA Invariant == Spec => []IInv
  BY InitIInv, StepIInv, PTL DEF Spec

\* The types, and that a recording is only read between its first frame and the
\* one behind its last.
THEOREM TypeCorrect == Spec => []TypeOK
<1>1. IInv => TypeOK
  BY DEF IInv
<1> QED BY <1>1, Invariant, PTL

\* each_frame and process hand out frames of the recording, whole, in its order
\* and without repetition, in whatever order a client calls the methods.
THEOREM OnlyFrames == Spec => []Faithful
<1>1. IInv => Faithful
  <2> SUFFICES ASSUME IInv PROVE Faithful
    OBVIOUS
  <2>1. CASE source > 0
    BY <2>1 DEF IInv, Seen
  <2>2. CASE source = 0
    BY <2>2 DEF IInv, Seen, Faithful
  <2> QED BY <2>1, <2>2 DEF IInv, TypeOK
<1> QED BY <1>1, Invariant, PTL

\* An iteration that comes to its end has missed none of them.
THEOREM AllFrames == Spec => []Complete
<1>1. IInv => Complete
  <2> SUFFICES ASSUME IInv, ended # "no", NEW k \in Recorded(card[source]),
                      ended = "each" \/ card[source].frames[k].kind # "other"
               PROVE  \E i \in 1 .. Len(yielded) : yielded[i].frame = k
    BY DEF Complete
  <2>1. k \in Recorded(Rec) /\ (ended = "each" \/ Rec.frames[k].kind # "other")
    BY DEF Rec
  <2>2. source > 0 /\ k < next
    BY <2>1 DEF IInv, Seen, Exhausted, TypeOK
  <2>3. Method = ended
    BY DEF IInv, Seen, Method
  <2> QED BY <2>1, <2>2, <2>3 DEF IInv, Seen
<1> QED BY <1>1, Invariant, PTL

\* file->pos is where the stream stands.
THEOREM PosInStep == Spec => []InStep
<1>1. IInv => InStep
  BY DEF IInv
<1> QED BY <1>1, Invariant, PTL

\* The attributes are those of one pair of headers after a next_file that
\* returns, and otherwise of the latest pairs that could set them
\* (kumsd.rb 33-74).
THEOREM OneHeader == Spec => []Coherent
<1>1. IInv => Coherent
  BY DEF IInv
<1> QED BY <1>1, Invariant, PTL

\* Time stamps count from the start of the latest recording with a valid start
\* time, up to the one that is read (kumsd.rb 52, 90-98).
THEOREM OwnTimes == Spec => []OwnBase
<1>1. IInv => OwnBase
  BY DEF IInv
<1> QED BY <1>1, Invariant, PTL
=============================================================================
