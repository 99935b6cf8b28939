-------------------------- MODULE MakeseedFast_proofs --------------------------
(***************************************************************************)
(* Theorems about MakeseedFast, for every number of channels, length of    *)
(* the buffers, record capacity, disk and card.                            *)
(***************************************************************************)
EXTENDS MakeseedFast, FiniteSetTheorems, SequenceTheorems,
        WellFoundedInduction, TLAPS

-----------------------------------------------------------------------------
(***************************************************************************)
(* Induction                                                               *)
(*                                                                         *)
(* The induction theorems of the library take a formula with a parameter.  *)
(* Here a set of numbers stands in its place.                              *)
(***************************************************************************)

\* The segments 1 .. n, ordered by inclusion, are well-founded.
LEMMA LeastNumber ==
    ASSUME NEW T \in SUBSET Nat, T # {}
    PROVE  \E n \in T : \A m \in T : n <= m
<1> DEFINE Segments == {1 .. n : n \in T}
           Smaller  == StrictSubsetOrdering(Nat)
<1>1. Segments \subseteq FiniteSubsetsOf(Nat) /\ Segments # {}
  <2>1. ASSUME NEW n \in T PROVE 1 .. n \in FiniteSubsetsOf(Nat)
    <3>1. n \in Nat /\ IsFiniteSet(1 .. n) /\ 1 .. n \subseteq Nat
      BY FS_Interval
    <3> QED BY <3>1 DEF FiniteSubsetsOf
  <2> QED BY <2>1
<1>2. IsWellFoundedOn(Smaller, FiniteSubsetsOf(Nat))
  BY FS_StrictSubsetOrderingWellFounded
<1>3. PICK s \in Segments : \A t \in Segments : << t, s >> \notin Smaller
  <2> HIDE DEF Segments, Smaller
  <2> QED BY <1>1, <1>2, WFMin
<1>4. PICK n \in T : s = 1 .. n
  OBVIOUS
<1>5. ASSUME NEW m \in T, m < n PROVE FALSE
  <2>1. 1 .. m \in Segments
    OBVIOUS
  <2>2. << 1 .. m, 1 .. n >> \notin Smaller
    BY <1>3, <1>4, <2>1
  <2>3. /\ 1 .. m \subseteq 1 .. n /\ n \in 1 .. n /\ n \notin 1 .. m
        /\ 1 .. m \subseteq Nat /\ 1 .. n \subseteq Nat
    BY <1>5
  <2> QED BY <2>2, <2>3 DEF StrictSubsetOrdering
<1> QED BY <1>5

LEMMA SetInduction ==
    ASSUME NEW T, 0 \in T, \A n \in Nat : n \in T => n + 1 \in T
    PROVE  Nat \subseteq T
<1>1. SUFFICES ASSUME Nat \ T # {} PROVE FALSE
  OBVIOUS
<1>2. PICK n \in Nat \ T : \A m \in Nat \ T : n <= m
  <2> DEFINE R == Nat \ T
  <2>1. R \in SUBSET Nat /\ R # {}
    BY <1>1
  <2> HIDE DEF R
  <2>2. \E n \in R : \A m \in R : n <= m
    BY <2>1, LeastNumber
  <2> QED BY <2>2 DEF R
<1>3. n # 0 /\ n - 1 \in Nat /\ n - 1 \notin Nat \ T
  BY <1>2
<1> QED BY <1>3

-----------------------------------------------------------------------------
(***************************************************************************)
(* The concatenation of a list of sequences                                *)
(***************************************************************************)

\* g[i] is the concatenation of the first i members of list, up to the n-th.
Running(list, n, g) ==
    g = [i \in 1 .. n |-> IF i = 1 THEN list[i] ELSE g[i - 1] \o list[i]]

LEMMA RunningExists ==
    ASSUME NEW list, NEW n \in Nat
    PROVE  \E g : Running(list, n, g)
<1> DEFINE T == {m \in Nat : \E g : Running(list, m, g)}
<1>1. 0 \in T
  <2> DEFINE g == [i \in 1 .. 0 |-> list[i]]
  <2>1. g = [i \in 1 .. 0 |-> IF i = 1 THEN list[i] ELSE g[i - 1] \o list[i]]
    OBVIOUS
  <2>2. Running(list, 0, g)
    BY <2>1 DEF Running
  <2> HIDE DEF g
  <2> QED BY <2>2
<1>2. ASSUME NEW m \in Nat, m \in T PROVE m + 1 \in T
  <2>1. PICK g : Running(list, m, g)
    BY <1>2
  <2> DEFINE last == IF m = 0 THEN list[1] ELSE g[m] \o list[m + 1]
             h == [i \in 1 .. m + 1 |-> IF i <= m THEN g[i] ELSE last]
  <2>2. ASSUME NEW i \in 1 .. m + 1
        PROVE  h[i] = IF i = 1 THEN list[i] ELSE h[i - 1] \o list[i]
    <3>1. CASE i = m + 1
      BY <3>1
    <3>2. CASE i \in 1 .. m
      <4>1. g[i] = IF i = 1 THEN list[i] ELSE g[i - 1] \o list[i]
        BY <2>1, <3>2 DEF Running
      <4>2. h[i] = g[i] /\ (i # 1 => h[i - 1] = g[i - 1])
        BY <3>2
      <4> HIDE DEF h, last
      <4> QED BY <4>1, <4>2
    <3> QED BY <3>1, <3>2
  <2>3. Running(list, m + 1, h)
    <3>1. h \in [1 .. m + 1 -> {h[i] : i \in 1 .. m + 1}]
      OBVIOUS
    <3> HIDE DEF h, last
    <3>2. h = [i \in 1 .. m + 1 |-> h[i]]
      BY <3>1
    <3> QED BY <2>2, <3>2 DEF Running
  <2> HIDE DEF h
  <2> QED BY <2>3
<1> HIDE DEF T
<1>3. Nat \subseteq T
  BY <1>1, <1>2, SetInduction
<1> QED BY <1>3 DEF T

\* What holds of the beginning and of each further member holds of all.
LEMMA RunningInduction ==
    ASSUME NEW n \in Nat, NEW T, n > 0 => 1 \in T,
           \A i \in 1 .. n - 1 : i \in T => i + 1 \in T
    PROVE  1 .. n \subseteq T
<1> DEFINE U == {i \in Nat : i \in 1 .. n => i \in T}
<1>1. 0 \in U
  OBVIOUS
<1>2. ASSUME NEW i \in Nat, i \in U PROVE i + 1 \in U
  BY <1>2
<1> HIDE DEF U
<1>3. Nat \subseteq U
  BY <1>1, <1>2, SetInduction
<1> QED BY <1>3 DEF U

LEMMA RunningUnique ==
    ASSUME NEW list, NEW n \in Nat, NEW g, NEW h,
           Running(list, n, g), Running(list, n, h)
    PROVE  g = h
<1> DEFINE T == {i \in 1 .. n : g[i] = h[i]}
<1>1. \A i \in 1 .. n : /\ g[i] = IF i = 1 THEN list[i] ELSE g[i - 1] \o list[i]
                        /\ h[i] = IF i = 1 THEN list[i] ELSE h[i - 1] \o list[i]
  BY DEF Running
<1>2. n > 0 => 1 \in T
  BY <1>1
<1>3. ASSUME NEW i \in 1 .. n - 1, i \in T PROVE i + 1 \in T
  <2>1. i + 1 \in 1 .. n /\ i + 1 # 1 /\ i + 1 - 1 = i /\ g[i] = h[i]
    BY <1>3
  <2>2. PICK j \in 1 .. n : j = i + 1 /\ j # 1 /\ j - 1 = i
    BY <2>1
  <2>3. g[j] = g[i] \o list[j] /\ h[j] = h[i] \o list[j]
    BY <1>1, <2>2
  <2> QED BY <2>1, <2>2, <2>3
<1> HIDE DEF T
<1>4. 1 .. n \subseteq T
  BY <1>2, <1>3, RunningInduction
<1>5. \A i \in 1 .. n : g[i] = h[i]
  BY <1>4 DEF T
<1>6. g = [i \in 1 .. n |-> g[i]] /\ h = [i \in 1 .. n |-> h[i]]
  BY DEF Running
<1>7. [i \in 1 .. n |-> g[i]] = [i \in 1 .. n |-> h[i]]
  BY <1>5
<1> QED BY <1>6, <1>7

LEMMA FlattenIsRunning ==
    ASSUME NEW list, Len(list) \in Nat \ {0}, NEW g, Running(list, Len(list), g)
    PROVE  FlattenSeq(list) = g[Len(list)]
<1> DEFINE n == Len(list)
           f == CHOOSE h : h = [i \in 1 .. n |->
                    IF i = 1 THEN list[i] ELSE h[i - 1] \o list[i]]
<1>1. FlattenSeq(list) = f[n]
  BY DEF FlattenSeq
<1>2. Running(list, n, f)
  BY DEF Running
<1> HIDE DEF f
<1>3. f = g
  BY <1>2, RunningUnique
<1> QED BY <1>1, <1>3

\* list is a list of sequences over S.
LEMMA FlattenType ==
    ASSUME NEW S, NEW list \in Seq(Seq(S))
    PROVE  /\ FlattenSeq(list) \in Seq(S)
           /\ list = << >> => FlattenSeq(list) = << >>
<1>1. CASE list = << >>
  BY <1>1 DEF FlattenSeq
<1>2. CASE list # << >>
  <2> DEFINE n == Len(list)
  <2>1. n \in Nat \ {0} /\ \A i \in 1 .. n : list[i] \in Seq(S)
    BY <1>2, EmptySeq, ElementOfSeq
  <2>2. PICK g : Running(list, n, g)
    BY <2>1, RunningExists
  <2> HIDE DEF n
  <2> DEFINE T == {i \in 1 .. n : g[i] \in Seq(S)}
  <2>3. \A i \in 1 .. n : g[i] = IF i = 1 THEN list[i] ELSE g[i - 1] \o list[i]
    BY <2>2 DEF Running
  <2>4. 1 \in T
    BY <2>1, <2>3
  <2>5. ASSUME NEW i \in 1 .. n - 1, i \in T PROVE i + 1 \in T
    <3>1. PICK j \in 1 .. n : j = i + 1 /\ j # 1 /\ j - 1 = i
      BY <2>1
    <3>2. g[j] = g[i] \o list[j]
      BY <2>3, <3>1
    <3>3. g[i] \in Seq(S) /\ list[j] \in Seq(S)
      BY <2>1, <2>5
    <3> QED BY <3>1, <3>2, <3>3, ConcatProperties
  <2> HIDE DEF T
  <2>6. 1 .. n \subseteq T
    BY <2>1, <2>4, <2>5, RunningInduction
  <2>7. g[n] \in Seq(S)
    BY <2>1, <2>6 DEF T
  <2>8. FlattenSeq(list) = g[n]
    BY <2>1, <2>2, FlattenIsRunning DEF n
  <2> QED BY <1>2, <2>7, <2>8
<1> QED BY <1>1, <1>2

LEMMA FlattenAppend ==
    ASSUME NEW S, NEW list \in Seq(Seq(S)), NEW x \in Seq(S)
    PROVE  FlattenSeq(Append(list, x)) = FlattenSeq(list) \o x
<1> DEFINE n    == Len(list)
           more == Append(list, x)
<1>1. /\ n \in Nat
      /\ more \in Seq(Seq(S)) /\ Len(more) = n + 1
      /\ \A i \in 1 .. n : more[i] = list[i]
      /\ more[n + 1] = x
  BY LenProperties, AppendProperties
<1> HIDE DEF n, more
<1>2. PICK h : Running(more, n + 1, h)
  <2>1. n + 1 \in Nat
    BY <1>1
  <2> QED BY <2>1, RunningExists
<1>3. FlattenSeq(more) = h[n + 1]
  BY <1>1, <1>2, FlattenIsRunning
<1>4. \A i \in 1 .. n + 1 : h[i] = IF i = 1 THEN more[i] ELSE h[i - 1] \o more[i]
  BY <1>2 DEF Running
<1>5. CASE n = 0
  <2>1. list = << >>
    BY <1>5, EmptySeq DEF n
  <2>2. FlattenSeq(list) = << >> /\ << >> \o x = x
    BY <2>1, FlattenType, ConcatEmptySeq
  <2>3. h[n + 1] = x
    BY <1>1, <1>4, <1>5
  <2> QED BY <1>3, <2>2, <2>3 DEF more
<1>6. CASE n # 0
  <2> DEFINE g == [i \in 1 .. n |-> h[i]]
  <2>1. ASSUME NEW i \in 1 .. n
        PROVE  g[i] = IF i = 1 THEN list[i] ELSE g[i - 1] \o list[i]
    <3>1. h[i] = IF i = 1 THEN list[i] ELSE h[i - 1] \o list[i]
      BY <1>1, <1>4
    <3>2. i # 1 => i - 1 \in 1 .. n
      BY <1>1
    <3> QED BY <3>1, <3>2
  <2>2. Running(list, n, g)
    <3>1. g = [i \in 1 .. n |-> g[i]]
      OBVIOUS
    <3> HIDE DEF g
    <3> QED BY <2>1, <3>1 DEF Running
  <2> HIDE DEF g
  <2>3. FlattenSeq(list) = g[n]
    BY <1>1, <1>6, <2>2, FlattenIsRunning DEF n
  <2>4. g[n] = h[n]
    BY <1>1, <1>6 DEF g
  <2>5. h[n + 1] = h[n] \o x
    <3>1. PICK j \in 1 .. n + 1 : j = n + 1 /\ j # 1 /\ j - 1 = n
      BY <1>1, <1>6
    <3> QED BY <1>1, <1>4, <3>1
  <2> QED BY <1>3, <2>3, <2>4, <2>5 DEF more
<1> QED BY <1>1, <1>5, <1>6

\* All members but the k-th are empty.
LEMMA FlattenOne ==
    ASSUME NEW S, NEW list \in Seq(Seq(S)), NEW k \in Int, k <= Len(list),
           \A i \in 1 .. Len(list) : i # k => list[i] = << >>
    PROVE  FlattenSeq(list) = IF k < 1 THEN << >> ELSE list[k]
<1> DEFINE n == Len(list)
           one == IF k < 1 THEN << >> ELSE list[k]
           g == [i \in 1 .. n |-> IF i < k THEN << >> ELSE one]
<1>1. /\ n \in Nat /\ k <= n
      /\ \A i \in 1 .. n : list[i] \in Seq(S)
  BY LenProperties, ElementOfSeq
<1>2. one \in Seq(S)
  BY <1>1, EmptySeq
<1>3. \A i \in 1 .. n : list[i] = IF i = k THEN one ELSE << >>
  BY <1>1
<1>4. k < 1 => one = << >>
  OBVIOUS
<1>5. CASE n = 0
  <2>1. list = << >>
    BY <1>5, EmptySeq
  <2>2. k < 1
    BY <1>1, <1>5
  <2> QED BY <2>1, <2>2, FlattenType
<1> HIDE DEF one
<1>6. CASE n # 0
  <2>1. /\ one \o << >> = one /\ << >> \o one = one
        /\ << >> \o << >> = << >>
    BY <1>2, ConcatEmptySeq, EmptySeq
  <2> HIDE DEF n
  <2>2. ASSUME NEW i \in 1 .. n
        PROVE  g[i] = IF i = 1 THEN list[i] ELSE g[i - 1] \o list[i]
    <3>1. g[i] = IF i < k THEN << >> ELSE one
      OBVIOUS
    <3>2. CASE i = 1
      <4>1. list[i] = IF i = k THEN one ELSE << >>
        BY <1>3
      <4>2. g[i] = list[i]
        <5>1. CASE k < 1
          BY <1>4, <3>1, <3>2, <4>1, <5>1
        <5>2. CASE k = 1
          BY <3>1, <3>2, <4>1, <5>2
        <5>3. CASE k > 1
          BY <3>1, <3>2, <4>1, <5>3
        <5> QED BY <5>1, <5>2, <5>3
      <4> QED BY <3>2, <4>2
    <3>3. CASE i # 1
      <4>1. g[i - 1] = IF i - 1 < k THEN << >> ELSE one
        BY <1>1, <3>3
      <4>2. list[i] = IF i = k THEN one ELSE << >>
        BY <1>3
      <4> HIDE DEF g
      <4>3. g[i - 1] \o list[i] = g[i]
        <5>1. CASE i < k
          BY <1>1, <2>1, <3>1, <4>1, <4>2, <5>1
        <5>2. CASE i = k
          <6>1. g[i - 1] = << >> /\ list[i] = one /\ g[i] = one
            BY <1>1, <3>1, <4>1, <4>2, <5>2
          <6> QED BY <2>1, <6>1
        <5>3. CASE i > k
          <6>1. g[i - 1] = one /\ list[i] = << >> /\ g[i] = one
            BY <1>1, <3>1, <4>1, <4>2, <5>3
          <6> QED BY <2>1, <6>1
        <5>4. i < k \/ i = k \/ i > k
          BY <1>1
        <5> QED BY <5>1, <5>2, <5>3, <5>4
      <4> QED BY <3>3, <4>3
    <3> QED BY <3>2, <3>3
  <2>3. Running(list, n, g)
    <3>1. g = [i \in 1 .. n |-> g[i]]
      OBVIOUS
    <3> HIDE DEF g
    <3> QED BY <2>2, <3>1 DEF Running
  <2>4. g[n] = one
    BY <1>1, <1>6
  <2> HIDE DEF g
  <2>5. FlattenSeq(list) = g[n]
    BY <1>1, <1>6, <2>3, FlattenIsRunning DEF n
  <2> QED BY <2>4, <2>5 DEF one
<1> QED BY <1>1, <1>5, <1>6

-----------------------------------------------------------------------------
(***************************************************************************)
(* Records, and lists of records                                           *)
(***************************************************************************)

\* The samples of the records of a list, record by record.
Blocks(list) == [k \in 1 .. Len(list) |-> list[k].samples]

LEMMA FunctionIsSeq ==
    ASSUME NEW S, NEW n \in Nat, NEW f \in [1 .. n -> S]
    PROVE  f \in Seq(S) /\ Len(f) = n
<1>1. f \in Seq(S)
  BY SeqDef
<1>2. Len(f) \in Nat /\ DOMAIN f = 1 .. Len(f)
  BY <1>1, LenProperties
<1>3. 1 .. n = 1 .. Len(f)
  BY <1>2
<1> QED BY <1>1, <1>2, <1>3

LEMMA BlocksType ==
    ASSUME NEW list \in Seq(Record)
    PROVE  /\ Blocks(list) \in Seq(Seq(Nat)) /\ Len(Blocks(list)) = Len(list)
           /\ Content(list) = FlattenSeq(Blocks(list))
           /\ Content(list) \in Seq(Nat)
<1>1. Len(list) \in Nat
  BY LenProperties
<1>2. Blocks(list) \in [1 .. Len(list) -> Seq(Nat)]
  <2>1. ASSUME NEW k \in 1 .. Len(list) PROVE list[k].samples \in Seq(Nat)
    <3>1. list[k] \in Record
      BY ElementOfSeq
    <3> QED BY <3>1 DEF Record
  <2> QED BY <2>1 DEF Blocks
<1>3. Blocks(list) \in Seq(Seq(Nat)) /\ Len(Blocks(list)) = Len(list)
  BY <1>1, <1>2, FunctionIsSeq
<1>4. Content(list) = FlattenSeq(Blocks(list))
  BY DEF Content, Blocks
<1> QED BY <1>3, <1>4, FlattenType

LEMMA ContentEmpty == Content(<< >>) = << >>
<1>1. << >> \in Seq(Record)
  OBVIOUS
<1>2. Len(Blocks(<< >>)) = 0 /\ Blocks(<< >>) \in Seq(Seq(Nat))
  BY <1>1, BlocksType, EmptySeq
<1>3. Blocks(<< >>) = << >>
  BY <1>2, EmptySeq
<1> QED BY <1>1, <1>2, <1>3, BlocksType, FlattenType

\* A record more is its samples more.
LEMMA ContentAppend ==
    ASSUME NEW list \in Seq(Record), NEW r \in Record
    PROVE  Content(Append(list, r)) = Content(list) \o r.samples
<1> DEFINE more == Append(list, r)
<1>1. /\ more \in Seq(Record) /\ Len(list) \in Nat
      /\ Len(more) = Len(list) + 1
      /\ \A k \in 1 .. Len(list) : more[k] = list[k]
      /\ more[Len(list) + 1] = r
  BY AppendProperties, LenProperties
<1>2. r.samples \in Seq(Nat)
  BY DEF Record
<1> HIDE DEF more
<1>3. Blocks(more) = Append(Blocks(list), r.samples)
  <2> DEFINE after == Blocks(more)
             before == Append(Blocks(list), r.samples)
  <2>1. /\ Blocks(list) \in Seq(Seq(Nat)) /\ Len(Blocks(list)) = Len(list)
        /\ after \in Seq(Seq(Nat)) /\ Len(after) = Len(list) + 1
    BY <1>1, BlocksType
  <2>2. /\ before \in Seq(Seq(Nat)) /\ Len(before) = Len(list) + 1
        /\ \A k \in 1 .. Len(list) : before[k] = Blocks(list)[k]
        /\ before[Len(list) + 1] = r.samples
    BY <1>2, <2>1, AppendProperties
  <2> HIDE DEF after, before
  <2>3. ASSUME NEW k \in 1 .. Len(list) + 1 PROVE after[k] = before[k]
    <3>1. after[k] = more[k].samples
      BY <1>1 DEF Blocks, after
    <3>2. CASE k = Len(list) + 1
      BY <1>1, <2>2, <3>1, <3>2
    <3>3. CASE k \in 1 .. Len(list)
      <4>1. Blocks(list)[k] = list[k].samples
        BY <3>3 DEF Blocks
      <4> QED BY <1>1, <2>2, <3>1, <3>3, <4>1
    <3> QED BY <1>1, <3>2, <3>3
  <2>4. after = before
    BY <2>1, <2>2, <2>3, SeqEqual
  <2> QED BY <2>4 DEF after, before
<1>4. FlattenSeq(Append(Blocks(list), r.samples)) = FlattenSeq(Blocks(list)) \o r.samples
  BY <1>2, BlocksType, FlattenAppend
<1> QED BY <1>1, <1>3, <1>4, BlocksType DEF more

\* The samples of the open record.
Started(ch) == IF ch.record = None THEN << >> ELSE ch.record.samples

LEMMA StartedType ==
    ASSUME NEW ch \in Channel
    PROVE  /\ Started(ch) \in Seq(Nat)
           /\ ch.record # None => ch.record \in Record
<1>1. ch.record \in Record \cup {None}
  BY DEF Channel
<1> QED BY <1>1, EmptySeq DEF Started, Record

\* The open record can take at least one sample: one turn of the loop takes the
\* first n samples of the slice b into it.
LEMMA TakeSliceFacts ==
    ASSUME NEW ch \in Channel, ch.time # None, NEW b \in Seq(Nat), b # << >>,
           Len(Started(ch)) < Capacity
    PROVE  \E n \in 1 .. Len(b), r \in Record :
               LET taken == TakeSlice(ch, b)
               IN  /\ r.samples = Started(ch) \o SubSeq(b, 1, n)
                   /\ Len(r.samples) = Len(Started(ch)) + n
                   /\ Len(r.samples) <= Capacity
                   /\ r.seq = IF ch.record = None THEN ch.next ELSE ch.record.seq
                   /\ r.start = IF ch.record = None THEN Clock(ch) ELSE ch.record.start
                   /\ taken.rest = SubSeq(b, n + 1, Len(b))
                   /\ taken.chan \in Channel
                   /\ taken.chan.time = ch.time
                   /\ taken.chan.offset = ch.offset + n
                   /\ taken.chan.next = IF ch.record = None THEN ch.next + 1 ELSE ch.next
                   /\ IF Len(r.samples) = Capacity
                      THEN taken.out = << r >> /\ taken.chan.record = None
                      ELSE taken.out = << >> /\ taken.chan.record = r
<1> DEFINE open == WithRecord(ch)
           o == open.record
           n == Fits(o, b)
           r == PushBuffer(o, b)
           taken == TakeSlice(ch, b)
<1>1. /\ ch.time \in Nat /\ ch.offset \in Nat /\ ch.next \in Nat
      /\ ch.record \in Record \cup {None} /\ Len(b) \in Nat \ {0}
      /\ Capacity \in Nat \ {0}
  BY CapacityAssumption, EmptySeq DEF Channel
<1>2. /\ o \in Record /\ o.samples = Started(ch)
      /\ o.seq = IF ch.record = None THEN ch.next ELSE ch.record.seq
      /\ o.start = IF ch.record = None THEN Clock(ch) ELSE ch.record.start
      /\ open.time = ch.time /\ open.offset = ch.offset
      /\ open.next = IF ch.record = None THEN ch.next + 1 ELSE ch.next
  <2>1. CASE ch.record = None
    <3>1. open = [ch EXCEPT !.record = NewRecord(ch), !.next = @ + 1]
      BY <2>1 DEF WithRecord
    <3>2. /\ open.record = NewRecord(ch) /\ open.next = ch.next + 1
          /\ open.time = ch.time /\ open.offset = ch.offset
      BY <3>1 DEF Channel
    <3>3. << >> \in Seq(Nat)
      BY EmptySeq
    <3> HIDE DEF open
    <3> QED BY <1>1, <2>1, <3>2, <3>3 DEF NewRecord, Clock, Record, Started
  <2>2. CASE ch.record # None
    <3>1. open = ch
      BY <2>2 DEF WithRecord
    <3> HIDE DEF open
    <3> QED BY <1>1, <2>2, <3>1 DEF Started
  <2> QED BY <2>1, <2>2
<1>3. open = [time |-> ch.time, offset |-> ch.offset, record |-> o, next |-> open.next]
  BY <1>1 DEF WithRecord, Channel
<1> HIDE DEF open
<1>4. Len(o.samples) \in Nat /\ o.samples \in Seq(Nat)
  BY <1>2, LenProperties DEF Record
<1>5. n \in 1 .. Len(b) /\ n <= Capacity - Len(o.samples) /\ n \in Int
  BY <1>1, <1>2, <1>4 DEF Fits
<1>6. SubSeq(b, 1, n) \in Seq(Nat) /\ Len(SubSeq(b, 1, n)) = n
  <2>1. \A i \in 1 .. n : b[i] \in Nat
    BY <1>1, <1>5, ElementOfSeq
  <2>2. 1 <= n /\ n - 1 + 1 = n /\ 1 \in Int
    BY <1>1, <1>5
  <2> HIDE DEF n
  <2>3. Len(SubSeq(b, 1, n)) = n - 1 + 1 /\ SubSeq(b, 1, n) \in Seq(Nat)
    BY <1>5, <2>1, <2>2, SubSeqProperties
  <2> QED BY <2>2, <2>3
<1>7. /\ r \in Record /\ r.seq = o.seq /\ r.start = o.start
      /\ r.samples = o.samples \o SubSeq(b, 1, n)
      /\ Len(r.samples) = Len(o.samples) + n
  <2>1. r = [o EXCEPT !.samples = o.samples \o SubSeq(b, 1, n)]
    BY DEF PushBuffer
  <2> HIDE DEF n, r, o
  <2>2. /\ o.samples \o SubSeq(b, 1, n) \in Seq(Nat)
        /\ Len(o.samples \o SubSeq(b, 1, n)) = Len(o.samples) + n
    BY <1>4, <1>6, ConcatProperties
  <2> QED BY <1>2, <2>1, <2>2 DEF Record
<1> HIDE DEF n, r, o
<1>8. Len(r.samples) <= Capacity /\ Len(r.samples) = Len(Started(ch)) + n
  BY <1>1, <1>2, <1>4, <1>5, <1>7
<1>9. IsFull(r) <=> Len(r.samples) = Capacity
  <2>1. Len(r.samples) \in Nat
    BY <1>4, <1>5, <1>7
  <2> QED BY <1>1, <1>8, <2>1 DEF IsFull
<1> DEFINE after == [open EXCEPT !.offset = @ + n]
<1>10. /\ taken.chan = [after EXCEPT !.record = IF IsFull(r) THEN None ELSE r]
       /\ taken.out = IF IsFull(r) THEN << r >> ELSE << >>
       /\ taken.rest = SubSeq(b, n + 1, Len(b))
  BY DEF TakeSlice, n, r, o, open
<1>11. taken.chan = [time |-> ch.time, offset |-> ch.offset + n,
                     record |-> IF IsFull(r) THEN None ELSE r, next |-> open.next]
  <2>1. after = [time |-> ch.time, offset |-> ch.offset + n, record |-> o,
                 next |-> open.next]
    BY <1>2, <1>3
  <2> HIDE DEF after, taken
  <2> QED BY <1>10, <2>1
<1> HIDE DEF taken
<1>12. taken.chan \in Channel
  <2>1. ch.offset + n \in Nat /\ open.next \in Nat
    BY <1>1, <1>2, <1>5
  <2> QED BY <1>1, <1>7, <1>11, <2>1 DEF Channel
<1> n \in 1 .. Len(b) /\ r \in Record
  BY <1>5, <1>7
<1> WITNESS n \in 1 .. Len(b), r \in Record
<1> QED BY <1>2, <1>7, <1>8, <1>9, <1>10, <1>11, <1>12 DEF taken

-----------------------------------------------------------------------------
(***************************************************************************)
(* The inductive invariant                                                 *)
(***************************************************************************)

\* All channels have the same clock, and buffers of the same length.
OneClock ==
    \A c, d \in Channels :
        chan[c].time = chan[d].time /\ Len(buffer[c]) = Len(buffer[d])

\* What is yielded are the slices of the last channels, in order, and nothing is
\* collected meanwhile.
QueueOK ==
    /\ Len(queue) <= NChannels
    /\ \A i \in 1 .. Len(queue) :
           /\ queue[i].channel = NChannels - Len(queue) + i - 1
           /\ queue[i].samples # << >>
           /\ Len(queue[i].samples) <= BufferLen
    /\ queue # << >> => \A c \in Channels : buffer[c] = << >>

\* Nothing is on its way in the program when the channels are closed.
PhaseOK ==
    /\ closed \in 0 .. NChannels
    /\ status \in {"reading", "flushing"} => closed = 0
    /\ status = "closing" => closed < NChannels
    /\ status \in {"flushing", "closing", "finished"} =>
           \A c \in Channels : buffer[c] = << >>
    /\ status \in {"closing", "finished"} => queue = << >>
    /\ closed > 0 => queue = << >> /\ \A c \in Channels : buffer[c] = << >>

\* The count of the samples lags behind exactly when a gap is unknown, and
\* nothing was read before it left zero.
CountOK ==
    /\ number <= tick - 1
    /\ unknown <=> number < tick - 1
    /\ number = 0 =>
           /\ queue = << >> /\ heard = << >>
           /\ \A c \in Channels : /\ buffer[c] = << >> /\ file[c] = << >>
                                  /\ chan[c].record = None /\ chan[c].offset = 0

\* Every tick since the clock was set is that of a sample that was heard, or of
\* a missing one.
HeardOK ==
    /\ \A g \in missing : g < tick
    /\ \A k \in 1 .. Len(heard) : heard[k] < tick
    /\ \A c \in Channels : chan[c].time # None =>
           /\ chan[c].time <= tick
           /\ tick = chan[c].time + Len(heard) + MissingIn(chan[c].time, tick)
           /\ \A k \in 1 .. Len(heard) :
                  heard[k] = chan[c].time + k - 1 + MissingIn(chan[c].time, heard[k])

\* The newest sample in a buffer is the one before the next.
FreshOK ==
    \A c \in Channels : buffer[c] # << >> /\ ~ unknown =>
        buffer[c][Len(buffer[c])] = tick - 1

\* The slice of channel c that is not yet taken.
Slice(c) == IF c < NChannels - Len(queue) THEN << >>
            ELSE queue[c - NChannels + Len(queue) + 1].samples

UntimedOK(c) ==
    chan[c].time = None => heard = << >> /\ file[c] = << >> /\ chan[c].record = None

\* The first samples that were heard are in records, as many as the clock of
\* the channel counts; then come its slice and its buffer.
PlacesOK(c) == chan[c].time # None =>
    /\ chan[c].offset + Len(Slice(c)) + Len(buffer[c]) = Len(heard)
    /\ \A j \in 1 .. Len(Slice(c)) : Slice(c)[j] = heard[chan[c].offset + j]
    /\ \A j \in 1 .. Len(buffer[c]) :
           buffer[c][j] = heard[chan[c].offset + Len(Slice(c)) + j]

\* A record holds the samples of the moments it claims, counted since the clock
\* was set.
Placed(r, c) ==
    /\ chan[c].time # None
    /\ chan[c].time <= r.start
    /\ Len(r.samples) \in 1 .. Capacity
    /\ r.start + Len(r.samples) <= chan[c].time + chan[c].offset
    /\ \A i \in 1 .. Len(r.samples) : r.samples[i] = heard[r.start - chan[c].time + i]

RecordsOK(c) == \A r \in Written(c) \cup Open(c) : Placed(r, c)

\* The last record in the file of a channel, if there is one, ends before the
\* moment t.
EndsBefore(c, t) == file[c] # << >> =>
    file[c][Len(file[c])].start + Len(file[c][Len(file[c])].samples) <= t

\* What the next record of an open channel will be.
NextOK(c) == closed <= c =>
    IF chan[c].record = None
    THEN /\ chan[c].next = Len(file[c]) + 1
         /\ chan[c].time # None => EndsBefore(c, Clock(chan[c]))
    ELSE /\ chan[c].next = Len(file[c]) + 2
         /\ chan[c].record.seq = Len(file[c]) + 1
         /\ Len(chan[c].record.samples) < Capacity
         /\ chan[c].record.start + Len(chan[c].record.samples) = Clock(chan[c])
         /\ EndsBefore(c, chan[c].record.start)

\* The file and the open record hold what was heard, up to the offset.
ContentOK(c) == chan[c].time # None =>
    IF c < closed THEN Content(file[c]) = heard
    ELSE Content(file[c]) \o Started(chan[c]) = SubSeq(heard, 1, chan[c].offset)

ChannelOK(c) ==
    UntimedOK(c) /\ PlacesOK(c) /\ RecordsOK(c) /\ NextOK(c) /\ ContentOK(c)

IInv ==
    /\ TypeOK
    /\ OneClock /\ QueueOK /\ PhaseOK /\ CountOK /\ HeardOK /\ FreshOK /\ Gapless
    /\ \A c \in Channels : ChannelOK(c)

-----------------------------------------------------------------------------
(***************************************************************************)
(* What the steps do to the queue                                          *)
(***************************************************************************)

LEMMA ChannelZero == 0 \in Channels
BY FastAssumption DEF Channels

LEMMA ChannelRange ==
    /\ NChannels \in Nat \ {0}
    /\ \A c : c \in Channels <=> c \in Nat /\ c < NChannels
BY FastAssumption DEF Channels

Slices == Seq([channel : Channels, samples : Seq(Nat)])

LEMMA QueueElements ==
    ASSUME queue \in Slices
    PROVE  /\ Len(queue) \in Nat
           /\ queue # << >> => Len(queue) > 0
           /\ \A i \in 1 .. Len(queue) :
                  queue[i].channel \in Channels /\ queue[i].samples \in Seq(Nat)
<1>1. Len(queue) \in Nat
  BY LenProperties DEF Slices
<1>2. queue # << >> => Len(queue) > 0
  BY EmptySeq DEF Slices
<1>3. \A i \in 1 .. Len(queue) : queue[i] \in [channel : Channels, samples : Seq(Nat)]
  BY ElementOfSeq DEF Slices
<1> QED BY <1>1, <1>2, <1>3

\* The buffers b, which are equally long, are yielded: they are the slices then.
LEMMA YieldFacts ==
    ASSUME NEW b \in [Channels -> Seq(Nat)], NEW n \in Nat, n <= BufferLen,
           \A c \in Channels : Len(b[c]) = n, Yield(b)
    PROVE  /\ queue' \in Slices
           /\ Len(queue') <= NChannels
           /\ \A i \in 1 .. Len(queue') :
                  /\ queue'[i].channel = NChannels - Len(queue') + i - 1
                  /\ queue'[i].samples # << >>
                  /\ Len(queue'[i].samples) <= BufferLen
                  /\ \E c \in Channels : queue'[i].samples = b[c]
           /\ \A c \in Channels : Slice(c)' = b[c]
           /\ queue' # << >> => n > 0
<1>1. \A c \in Channels : b[c] = << >> <=> n = 0
  BY EmptySeq
<1>2. CASE n = 0
  <2>1. queue' = << >>
    BY <1>1, <1>2 DEF Yield
  <2>2. Len(queue') = 0 /\ queue' \in Slices
    BY <2>1, EmptySeq DEF Slices
  <2>3. \A c \in Channels : Slice(c)' = b[c]
    BY <1>1, <1>2, <2>2, ChannelRange DEF Slice
  <2> QED BY <2>1, <2>2, <2>3, ChannelRange
<1>3. CASE n # 0
  <2> DEFINE Slot == [channel : Channels, samples : Seq(Nat)]
             f == [i \in 1 .. NChannels |-> [channel |-> i - 1, samples |-> b[i - 1]]]
  <2>1. queue' = f
    BY <1>1, <1>3, ChannelZero DEF Yield
  <2>2. ASSUME NEW i \in 1 .. NChannels
        PROVE  /\ i - 1 \in Channels /\ f[i] \in Slot
               /\ f[i].channel = i - 1 /\ f[i].samples = b[i - 1]
    <3>1. i - 1 \in Channels
      BY ChannelRange
    <3> QED BY <3>1
  <2>3. f \in [1 .. NChannels -> Slot]
    BY <2>2
  <2> HIDE DEF f, Slot
  <2>4. queue' \in Seq(Slot) /\ Len(queue') = NChannels
    BY <2>1, <2>3, FunctionIsSeq, ChannelRange
  <2>5. ASSUME NEW i \in 1 .. Len(queue')
        PROVE  /\ queue'[i].channel = NChannels - Len(queue') + i - 1
               /\ queue'[i].samples # << >>
               /\ Len(queue'[i].samples) <= BufferLen
               /\ \E c \in Channels : queue'[i].samples = b[c]
    <3>1. queue'[i].channel = i - 1 /\ queue'[i].samples = b[i - 1] /\ i - 1 \in Channels
      BY <2>1, <2>2, <2>4
    <3> QED BY <1>1, <1>3, <2>4, <3>1, ChannelRange
  <2>6. ASSUME NEW c \in Channels PROVE Slice(c)' = b[c]
    <3>1. c + 1 \in 1 .. NChannels /\ c + 1 - 1 = c
      BY ChannelRange
    <3>2. Slice(c)' = queue'[c - NChannels + NChannels + 1].samples
      BY <2>4, <3>1, ChannelRange DEF Slice
    <3>3. c - NChannels + NChannels + 1 = c + 1
      BY ChannelRange
    <3>4. f[c + 1].samples = b[c]
      <4>1. PICK i \in 1 .. NChannels : i = c + 1 /\ i - 1 = c
        BY <3>1, ChannelRange
      <4>2. f[i].samples = b[i - 1]
        BY <2>2
      <4> QED BY <4>1, <4>2
    <3> QED BY <2>1, <3>2, <3>3, <3>4
  <2> QED BY <1>3, <2>4, <2>5, <2>6 DEF Slices, Slot
<1> QED BY <1>2, <1>3

\* Nothing waits, and no slice is there.
LEMMA NothingWaits ==
    ASSUME queue = << >>, NEW c \in Channels
    PROVE  Slice(c) = << >>
<1>1. Len(queue) = 0
  BY EmptySeq
<1> QED BY <1>1, ChannelRange DEF Slice

\* channel_flush for all channels.
LEMMA FlushFacts ==
    ASSUME TypeOK, OneClock, FlushAll
    PROVE  /\ queue' \in Slices /\ buffer' \in [Channels -> Seq(Nat)]
           /\ QueueOK'
           /\ \A c \in Channels : buffer'[c] = << >> /\ Slice(c)' = buffer[c]
           /\ \A i \in 1 .. Len(queue') :
                  \E c \in Channels : queue'[i].samples = buffer[c]
           /\ queue' # << >> => \E c \in Channels : buffer[c] # << >>
<1>1. /\ Yield(buffer) /\ buffer' = [c \in Channels |-> << >>]
      /\ buffer \in [Channels -> Seq(Nat)]
      /\ \A c \in Channels : Len(buffer[c]) < BufferLen
  BY DEF FlushAll, TypeOK
<1> DEFINE n == Len(buffer[0])
<1>2. /\ n \in Nat /\ n <= BufferLen
      /\ \A c \in Channels : Len(buffer[c]) = n
  <2>1. buffer[0] \in Seq(Nat)
    BY <1>1, ChannelZero
  <2>2. n \in Nat
    BY <2>1, LenProperties
  <2> QED BY <1>1, <2>2, ChannelZero, FastAssumption DEF OneClock
<1> HIDE DEF n
<1>3. /\ queue' \in Slices
      /\ Len(queue') <= NChannels
      /\ \A i \in 1 .. Len(queue') :
             /\ queue'[i].channel = NChannels - Len(queue') + i - 1
             /\ queue'[i].samples # << >>
             /\ Len(queue'[i].samples) <= BufferLen
             /\ \E c \in Channels : queue'[i].samples = buffer[c]
      /\ \A c \in Channels : Slice(c)' = buffer[c]
      /\ queue' # << >> => n > 0
  BY <1>1, <1>2, YieldFacts
<1>4. buffer' \in [Channels -> Seq(Nat)] /\ \A c \in Channels : buffer'[c] = << >>
  BY <1>1, EmptySeq
<1>5. queue' # << >> => buffer[0] # << >>
  BY <1>3, EmptySeq DEF n
<1> QED BY <1>3, <1>4, <1>5, ChannelZero DEF QueueOK

\* A data frame: each channel gets one sample, and the buffers are yielded when
\* they are full.
More(c) == Append(buffer[c], tick)

LEMMA DataFacts ==
    ASSUME TypeOK, OneClock, DataFrame
    PROVE  /\ queue' \in Slices /\ buffer' \in [Channels -> Seq(Nat)]
           /\ QueueOK'
           /\ \A c \in Channels :
                  /\ More(c) \in Seq(Nat) /\ More(c) # << >>
                  /\ Len(More(c)) = Len(buffer[c]) + 1
                  /\ \A i \in 1 .. Len(buffer[c]) : More(c)[i] = buffer[c][i]
                  /\ More(c)[Len(buffer[c]) + 1] = tick
           /\ \/ /\ \A c \in Channels : Slice(c)' = << >> /\ buffer'[c] = More(c)
                 /\ \A c \in Channels : Len(More(c)) < BufferLen
                 /\ queue' = << >>
              \/ /\ \A c \in Channels : Slice(c)' = More(c) /\ buffer'[c] = << >>
                 /\ \A i \in 1 .. Len(queue') :
                        \E c \in Channels : queue'[i].samples = More(c)
<1> DEFINE more == [c \in Channels |-> Append(buffer[c], tick)]
           n == Len(buffer[0]) + 1
<1>1. /\ buffer \in [Channels -> Seq(Nat)] /\ tick \in Nat
      /\ \A c \in Channels : Len(buffer[c]) < BufferLen
      /\ BufferLen \in Nat \ {0}
  BY FastAssumption DEF TypeOK
<1>2. ASSUME NEW c \in Channels
      PROVE  /\ More(c) \in Seq(Nat) /\ More(c) # << >>
             /\ Len(buffer[c]) \in Nat
             /\ Len(More(c)) = Len(buffer[c]) + 1
             /\ \A i \in 1 .. Len(buffer[c]) : More(c)[i] = buffer[c][i]
             /\ More(c)[Len(buffer[c]) + 1] = tick
             /\ more[c] = More(c)
  <2>1. buffer[c] \in Seq(Nat)
    BY <1>1
  <2> QED BY <1>1, <2>1, AppendProperties, LenProperties DEF More
<1>3. /\ more \in [Channels -> Seq(Nat)] /\ n \in Nat /\ n <= BufferLen
      /\ \A c \in Channels : Len(more[c]) = n
  <2>1. \A c \in Channels : Len(buffer[c]) = Len(buffer[0])
    BY ChannelZero DEF OneClock
  <2>2. \A c \in Channels : Append(buffer[c], tick) \in Seq(Nat)
    BY <1>2 DEF More
  <2>3. more \in [Channels -> Seq(Nat)]
    BY <2>2
  <2> HIDE DEF more
  <2> QED BY <1>1, <1>2, <2>1, <2>3, ChannelZero
<1>4. /\ queue = << >>
      /\ IF \A c \in Channels : Len(more[c]) = BufferLen
         THEN Yield(more) /\ buffer' = [c \in Channels |-> << >>]
         ELSE buffer' = more /\ UNCHANGED queue
  BY DEF DataFrame, NextFrame
<1> HIDE DEF more, n
<1>5. CASE n = BufferLen
  <2>1. Yield(more) /\ buffer' = [c \in Channels |-> << >>]
    BY <1>3, <1>4, <1>5
  <2>2. /\ queue' \in Slices
        /\ Len(queue') <= NChannels
        /\ \A i \in 1 .. Len(queue') :
               /\ queue'[i].channel = NChannels - Len(queue') + i - 1
               /\ queue'[i].samples # << >>
               /\ Len(queue'[i].samples) <= BufferLen
               /\ \E c \in Channels : queue'[i].samples = more[c]
        /\ \A c \in Channels : Slice(c)' = more[c]
    BY <1>3, <2>1, YieldFacts
  <2>3. buffer' \in [Channels -> Seq(Nat)] /\ \A c \in Channels : buffer'[c] = << >>
    BY <2>1, EmptySeq
  <2>4. QueueOK'
    BY <2>2, <2>3 DEF QueueOK
  <2>5. \A i \in 1 .. Len(queue') : \E c \in Channels : queue'[i].samples = More(c)
    BY <1>2, <2>2
  <2>6. \A c \in Channels : Slice(c)' = More(c)
    BY <1>2, <2>2
  <2> QED BY <1>2, <2>2, <2>3, <2>4, <2>5, <2>6
<1>6. CASE n # BufferLen
  <2>1. buffer' = more /\ queue' = << >>
    BY <1>3, <1>4, <1>6, ChannelZero
  <2>2. queue' \in Slices /\ Len(queue') = 0
    BY <2>1, EmptySeq DEF Slices
  <2>3. \A c \in Channels : Slice(c)' = << >> /\ buffer'[c] = More(c)
    BY <1>2, <2>1, <2>2, ChannelRange DEF Slice
  <2>4. QueueOK'
    BY <2>1, <2>2, ChannelRange DEF QueueOK
  <2>5. \A c \in Channels : Len(More(c)) < BufferLen
    BY <1>1, <1>2, <1>3, <1>6
  <2> QED BY <1>2, <1>3, <2>1, <2>2, <2>3, <2>4, <2>5
<1> QED BY <1>5, <1>6

\* The first slice is taken, or the first part of it.
LEMMA HeadFacts ==
    ASSUME queue \in Slices, QueueOK, queue # << >>
    PROVE  LET c == Head(queue).channel
           IN  /\ c \in Channels /\ c = NChannels - Len(queue)
               /\ Head(queue).samples = Slice(c)
               /\ Slice(c) \in Seq(Nat) /\ Slice(c) # << >>
               /\ Len(Slice(c)) <= BufferLen
<1>1. Head(queue) = queue[1] /\ Len(queue) \in Nat /\ 1 \in 1 .. Len(queue)
  BY QueueElements
<1>2. /\ queue[1].channel = NChannels - Len(queue) + 1 - 1
      /\ queue[1].samples # << >> /\ Len(queue[1].samples) <= BufferLen
      /\ queue[1].channel \in Channels /\ queue[1].samples \in Seq(Nat)
  BY <1>1, QueueElements DEF QueueOK
<1> DEFINE c == Head(queue).channel
<1>3. c \in Channels /\ c = NChannels - Len(queue)
  BY <1>1, <1>2, ChannelRange
<1> HIDE DEF c
<1>4. Slice(c) = queue[1].samples
  <2>1. ~ (c < NChannels - Len(queue)) /\ c - NChannels + Len(queue) + 1 = 1
    BY <1>1, <1>3, ChannelRange
  <2> QED BY <2>1 DEF Slice
<1> QED BY <1>1, <1>2, <1>3, <1>4 DEF c

LEMMA TailFacts ==
    ASSUME queue \in Slices, QueueOK, queue # << >>, queue' = Tail(queue),
           UNCHANGED buffer
    PROVE  /\ queue' \in Slices /\ QueueOK' /\ << >> \notin Waiting'
           /\ Waiting' \subseteq Waiting
           /\ \A c \in Channels :
                  Slice(c)' = IF c = Head(queue).channel THEN << >> ELSE Slice(c)
<1> DEFINE n == Len(queue)
<1>1. /\ n \in Nat \ {0} /\ n <= NChannels
      /\ queue' \in Slices /\ Len(queue') = n - 1
      /\ \A i \in 1 .. n - 1 : queue'[i] = queue[i + 1]
  <2>1. queue \in Seq([channel : Channels, samples : Seq(Nat)])
    BY DEF Slices
  <2>2. n \in Nat \ {0} /\ n <= NChannels
    BY QueueElements DEF QueueOK
  <2> QED BY <2>1, <2>2, HeadTailProperties DEF Slices
<1> HIDE DEF n
<1>2. ASSUME NEW i \in 1 .. n - 1
      PROVE  /\ queue'[i].channel = NChannels - (n - 1) + i - 1
             /\ queue'[i].samples # << >>
             /\ Len(queue'[i].samples) <= BufferLen
             /\ queue'[i].samples \in Waiting
  <2>1. i + 1 \in 1 .. n /\ queue'[i] = queue[i + 1]
    BY <1>1
  <2>2. PICK j \in 1 .. n : j = i + 1
    BY <2>1
  <2>3. /\ queue[j].channel = NChannels - n + j - 1
        /\ queue[j].samples # << >>
        /\ Len(queue[j].samples) <= BufferLen
    BY DEF QueueOK, n
  <2>4. queue'[i] = queue[j]
    BY <2>1, <2>2
  <2>5. NChannels - n + j - 1 = NChannels - (n - 1) + i - 1
    BY <1>1, <2>2, ChannelRange
  <2> QED BY <2>3, <2>4, <2>5 DEF Waiting, n
<1>3. \A c \in Channels : buffer'[c] = << >>
  BY DEF QueueOK
<1>4. QueueOK'
  BY <1>1, <1>2, <1>3, ChannelRange DEF QueueOK
<1>5. << >> \notin Waiting' /\ Waiting' \subseteq Waiting
  BY <1>1, <1>2 DEF Waiting
<1>6. ASSUME NEW c \in Channels
      PROVE  Slice(c)' = IF c = Head(queue).channel THEN << >> ELSE Slice(c)
  <2>1. Head(queue).channel = NChannels - n
    BY HeadFacts DEF n
  <2>2. CASE c <= NChannels - n
    <3>1. c < NChannels - Len(queue')
      BY <1>1, <2>2, ChannelRange
    <3>2. Slice(c)' = << >>
      BY <3>1 DEF Slice
    <3>3. c # NChannels - n => Slice(c) = << >>
      BY <1>1, <2>2, ChannelRange DEF Slice, n
    <3> QED BY <2>1, <3>2, <3>3
  <2>3. CASE c > NChannels - n
    <3>1. PICK i \in 1 .. n - 1 : i = c - NChannels + n
      BY <1>1, <2>3, ChannelRange
    <3>2. /\ ~ (c < NChannels - Len(queue')) /\ c - NChannels + Len(queue') + 1 = i
          /\ ~ (c < NChannels - n) /\ c - NChannels + n + 1 = i + 1
      BY <1>1, <2>3, <3>1, ChannelRange
    <3>3. Slice(c)' = queue'[i].samples /\ Slice(c) = queue[i + 1].samples
      BY <3>2 DEF Slice, n
    <3>4. queue'[i] = queue[i + 1]
      BY <1>1
    <3> QED BY <1>1, <2>1, <2>3, <3>3, <3>4, ChannelRange
  <2> QED BY <1>1, <2>2, <2>3, ChannelRange
<1> QED BY <1>1, <1>4, <1>5, <1>6

LEMMA RestFacts ==
    ASSUME queue \in Slices, QueueOK, queue # << >>, UNCHANGED buffer,
           NEW rest \in Seq(Nat), rest # << >>, Len(rest) <= BufferLen,
           queue' = [queue EXCEPT ![1].samples = rest]
    PROVE  /\ queue' \in Slices /\ QueueOK' /\ << >> \notin Waiting'
           /\ Waiting' \subseteq Waiting \cup {rest}
           /\ \A c \in Channels :
                  Slice(c)' = IF c = Head(queue).channel THEN rest ELSE Slice(c)
<1> DEFINE n == Len(queue)
           Slot == [channel : Channels, samples : Seq(Nat)]
           first == [queue[1] EXCEPT !.samples = rest]
<1>1. /\ n \in Nat \ {0} /\ n <= NChannels /\ queue \in Seq(Slot)
      /\ queue[1] \in Slot
  <2>1. n \in Nat \ {0} /\ n <= NChannels /\ queue \in Seq(Slot)
    BY QueueElements DEF QueueOK, Slices
  <2>2. 1 \in 1 .. n
    BY <2>1
  <2> HIDE DEF Slot
  <2> QED BY <2>1, <2>2, ElementOfSeq
<1>2. /\ first \in Slot /\ first.channel = queue[1].channel
      /\ first.samples = rest
  BY <1>1
<1>3. queue' = [queue EXCEPT ![1] = first]
  OBVIOUS
<1> HIDE DEF n, Slot, first
<1>4. /\ queue' \in Seq(Slot) /\ Len(queue') = n
      /\ \A i \in 1 .. n : queue'[i] = IF i = 1 THEN first ELSE queue[i]
  <2>1. 1 \in 1 .. Len(queue)
    BY <1>1 DEF n
  <2> DEFINE after == [queue EXCEPT ![1] = first]
  <2>2. queue \in Seq(Slot) /\ first \in Slot
    BY <1>1, <1>2
  <2>3. /\ after \in Seq(Slot) /\ Len(after) = Len(queue)
        /\ \A j \in 1 .. Len(queue) : after[j] = IF j = 1 THEN first ELSE queue[j]
    BY <2>1, <2>2, ExceptSeq
  <2> HIDE DEF after
  <2> QED BY <1>3, <2>3 DEF n, after
<1>5. ASSUME NEW i \in 1 .. n
      PROVE  /\ queue'[i].channel = NChannels - n + i - 1
             /\ queue'[i].samples # << >>
             /\ Len(queue'[i].samples) <= BufferLen
             /\ queue'[i].samples \in Waiting \cup {rest}
             /\ queue'[i].samples = IF i = 1 THEN rest ELSE queue[i].samples
  <2>1. /\ queue[i].channel = NChannels - n + i - 1
        /\ queue[i].samples # << >>
        /\ Len(queue[i].samples) <= BufferLen
        /\ queue[i].samples \in Waiting
    BY DEF QueueOK, Waiting, n
  <2>2. CASE i = 1
    <3>1. queue'[i] = first
      BY <1>4, <2>2
    <3> QED BY <1>2, <2>1, <2>2, <3>1
  <2>3. CASE i # 1
    BY <1>4, <2>1, <2>3
  <2> QED BY <2>2, <2>3
<1>6. \A c \in Channels : buffer'[c] = << >>
  BY DEF QueueOK
<1>7. QueueOK'
  BY <1>1, <1>4, <1>5, <1>6 DEF QueueOK
<1>8. << >> \notin Waiting' /\ Waiting' \subseteq Waiting \cup {rest}
  BY <1>4, <1>5 DEF Waiting
<1>9. ASSUME NEW c \in Channels
      PROVE  Slice(c)' = IF c = Head(queue).channel THEN rest ELSE Slice(c)
  <2>1. Head(queue).channel = NChannels - n
    BY HeadFacts DEF n
  <2>2. CASE c < NChannels - n
    BY <1>4, <2>1, <2>2, ChannelRange, <1>1 DEF Slice, n
  <2>3. CASE ~ (c < NChannels - n)
    <3>1. PICK i \in 1 .. n : i = c - NChannels + n + 1
      BY <1>1, <2>3, ChannelRange
    <3>2. Slice(c)' = queue'[i].samples /\ Slice(c) = queue[i].samples
      BY <1>4, <2>3, <3>1 DEF Slice, n
    <3>3. i = 1 <=> c = NChannels - n
      BY <1>1, <3>1, ChannelRange
    <3> QED BY <1>5, <2>1, <3>2, <3>3
  <2> QED BY <2>2, <2>3
<1> QED BY <1>4, <1>7, <1>8, <1>9 DEF Slices, Slot

\* One turn of the loop in sample_buffer: channel c takes n samples of its slice
\* into the record r.
Filled(c, n, r) ==
    /\ c \in Channels /\ r \in Record /\ n \in 1 .. Len(Slice(c))
    /\ r.samples = Started(chan[c]) \o SubSeq(Slice(c), 1, n)
    /\ Len(r.samples) = Len(Started(chan[c])) + n
    /\ Len(r.samples) <= Capacity
    /\ r.seq = IF chan[c].record = None THEN chan[c].next ELSE chan[c].record.seq
    /\ r.start = IF chan[c].record = None THEN Clock(chan[c]) ELSE chan[c].record.start
    /\ chan'[c].time = chan[c].time /\ chan'[c].offset = chan[c].offset + n
    /\ chan'[c].next = IF chan[c].record = None THEN chan[c].next + 1 ELSE chan[c].next
    /\ IF Len(r.samples) = Capacity
       THEN chan'[c].record = None /\ file'[c] = Append(file[c], r)
       ELSE chan'[c].record = r /\ file'[c] = file[c]
    /\ \A d \in Channels \ {c} : chan'[d] = chan[d] /\ file'[d] = file[d]
    /\ Slice(c)' = SubSeq(Slice(c), n + 1, Len(Slice(c)))
    /\ \A d \in Channels \ {c} : Slice(d)' = Slice(d)
    /\ Waiting' \subseteq Waiting \cup {Slice(c)'}
    /\ Slice(c) \in Waiting

LEMMA SomethingStarted ==
    ASSUME NEW c \in Channels, TypeOK, NextOK(c), closed = 0
    PROVE  Len(Started(chan[c])) < Capacity
<1>1. closed <= c
  BY ChannelRange
<1>2. CASE chan[c].record = None
  BY <1>2, EmptySeq, CapacityAssumption DEF Started
<1>3. CASE chan[c].record # None
  BY <1>1, <1>3 DEF NextOK, Started
<1> QED BY <1>2, <1>3

LEMMA FillFacts ==
    ASSUME TypeOK, QueueOK, PhaseOK, \A c \in Channels : NextOK(c), FillRecord
    PROVE  \/ status' = "aborted" /\ UNCHANGED << queue, output >>
           \/ /\ status' = status
              /\ queue' \in Slices /\ QueueOK' /\ << >> \notin Waiting'
              /\ chan' \in [Channels -> Channel] /\ file' \in [Channels -> Seq(Record)]
              /\ room' \in Nat
              /\ \E c \in Channels, n \in Nat, r \in Record : 
                     Filled(c, n, r) /\ chan[c].time # None
<1> DEFINE b == Head(queue).samples
<1>1. queue \in Slices /\ queue # << >> /\ closed = 0
  <2>1. status \in {"reading", "flushing"}
    BY DEF FillRecord
  <2> QED BY <2>1 DEF FillRecord, PhaseOK, TypeOK, Slices
<1>2. PICK c \in Channels :
          /\ c = Head(queue).channel /\ b = Slice(c) /\ b \in Seq(Nat) /\ b # << >>
          /\ Len(b) <= BufferLen
  BY <1>1, HeadFacts
<1> DEFINE taken == TakeSlice(chan[c], b)
<1>3. /\ chan[c].time # None /\ UNCHANGED buffer
      /\ \/ status' = "aborted" /\ UNCHANGED << queue, output >>
         \/ /\ ~ (taken.out # << >> /\ room = 0)
            /\ queue' = IF taken.rest = << >> THEN Tail(queue)
                        ELSE [queue EXCEPT ![1].samples = taken.rest]
            /\ chan' = [chan EXCEPT ![c] = taken.chan]
            /\ file' = [file EXCEPT ![c] = @ \o taken.out]
            /\ room' = room - Len(taken.out)
            /\ UNCHANGED status
  BY <1>2 DEF FillRecord
<1>4. /\ chan \in [Channels -> Channel]
      /\ file \in [Channels -> Seq(Record)] /\ room \in Nat
  BY DEF TypeOK
<1>5. chan[c] \in Channel /\ Len(Started(chan[c])) < Capacity
  BY <1>4, <1>1, SomethingStarted
<1>6. b \in Waiting
  <2>1. Len(queue) \in Nat /\ Len(queue) > 0
    BY <1>1, QueueElements
  <2>2. 1 \in 1 .. Len(queue) /\ Head(queue) = queue[1]
    BY <2>1
  <2> QED BY <2>2 DEF Waiting, b
<1> HIDE DEF b
<1>7. PICK n \in 1 .. Len(b), r \in Record :
          /\ r.samples = Started(chan[c]) \o SubSeq(b, 1, n)
          /\ Len(r.samples) = Len(Started(chan[c])) + n
          /\ Len(r.samples) <= Capacity
          /\ r.seq = IF chan[c].record = None THEN chan[c].next ELSE chan[c].record.seq
          /\ r.start = IF chan[c].record = None THEN Clock(chan[c]) ELSE chan[c].record.start
          /\ taken.rest = SubSeq(b, n + 1, Len(b))
          /\ taken.chan \in Channel
          /\ taken.chan.time = chan[c].time
          /\ taken.chan.offset = chan[c].offset + n
          /\ taken.chan.next = IF chan[c].record = None THEN chan[c].next + 1
                               ELSE chan[c].next
          /\ IF Len(r.samples) = Capacity
             THEN taken.out = << r >> /\ taken.chan.record = None
             ELSE taken.out = << >> /\ taken.chan.record = r
  BY <1>2, <1>3, <1>5, TakeSliceFacts
<1> HIDE DEF taken
<1>8. CASE status' = "aborted" /\ UNCHANGED << queue, output >>
  BY <1>8
<1>9. CASE /\ ~ (taken.out # << >> /\ room = 0)
           /\ queue' = IF taken.rest = << >> THEN Tail(queue)
                       ELSE [queue EXCEPT ![1].samples = taken.rest]
           /\ chan' = [chan EXCEPT ![c] = taken.chan]
           /\ file' = [file EXCEPT ![c] = @ \o taken.out]
           /\ room' = room - Len(taken.out)
           /\ UNCHANGED status
  <2>1. /\ chan' \in [Channels -> Channel] /\ chan'[c] = taken.chan
        /\ \A d \in Channels \ {c} : chan'[d] = chan[d]
    BY <1>4, <1>2, <1>3, <1>7, <1>9
  <2>2. file[c] \in Seq(Record) /\ file'[c] = file[c] \o taken.out
    BY <1>4, <1>2, <1>3, <1>9
  <2>3. /\ taken.out \in Seq(Record) /\ room' \in Nat
        /\ file'[c] = IF Len(r.samples) = Capacity THEN Append(file[c], r) ELSE file[c]
    <3>1. CASE Len(r.samples) = Capacity
      <4>1. taken.out = << r >>
        BY <1>7, <3>1
      <4>2. << r >> \in Seq(Record) /\ Len(<< r >>) = 1 /\ << r >> # << >>
        OBVIOUS
      <4>3. file[c] \o << r >> = Append(file[c], r)
        BY <2>2, AppendIsConcat
      <4>4. room' \in Nat
        BY <1>4, <1>9, <4>1, <4>2
      <4> QED BY <2>2, <3>1, <4>1, <4>2, <4>3, <4>4
    <3>2. CASE Len(r.samples) # Capacity
      <4>1. taken.out = << >>
        BY <1>7, <3>2
      <4>2. << >> \in Seq(Record) /\ Len(<< >>) = 0
        BY EmptySeq
      <4>3. file[c] \o << >> = file[c]
        BY <2>2, ConcatEmptySeq
      <4>4. room' \in Nat
        BY <1>4, <1>9, <4>1, <4>2
      <4> QED BY <2>2, <3>2, <4>1, <4>2, <4>3, <4>4
    <3> QED BY <3>1, <3>2
  <2>4. /\ file' \in [Channels -> Seq(Record)]
        /\ \A d \in Channels \ {c} : file'[d] = file[d]
    <3>1. file[c] \o taken.out \in Seq(Record)
      BY <2>2, <2>3, ConcatProperties
    <3> QED BY <1>4, <1>2, <1>3, <1>9, <3>1
  <2>5. /\ taken.rest \in Seq(Nat) /\ Len(taken.rest) <= BufferLen
    <3>1. Len(b) \in Nat /\ \A i \in 1 .. Len(b) : b[i] \in Nat
      BY <1>2, <1>3, LenProperties, ElementOfSeq
    <3>2. n + 1 \in Int /\ Len(b) \in Int /\ \A i \in n + 1 .. Len(b) : b[i] \in Nat
      BY <3>1
    <3>3. /\ SubSeq(b, n + 1, Len(b)) \in Seq(Nat)
          /\ Len(SubSeq(b, n + 1, Len(b))) =
                IF n + 1 <= Len(b) THEN Len(b) - (n + 1) + 1 ELSE 0
      BY <3>2, SubSeqProperties
    <3> DEFINE rest == SubSeq(b, n + 1, Len(b))
    <3>4. rest \in Seq(Nat) /\ Len(rest) = IF n + 1 <= Len(b) THEN Len(b) - (n + 1) + 1 ELSE 0
      BY <3>3
    <3>5. taken.rest = rest
      BY <1>7
    <3> HIDE DEF rest
    <3>6. Len(rest) <= Len(b)
      BY <3>1, <3>4
    <3>7. Len(rest) <= BufferLen
      BY <1>2, <3>1, <3>4, <3>6, FastAssumption
    <3> QED BY <3>4, <3>5, <3>7
  <2>6. /\ queue' \in Slices /\ QueueOK' /\ << >> \notin Waiting'
        /\ Waiting' \subseteq Waiting \cup {taken.rest}
        /\ \A d \in Channels : Slice(d)' = IF d = c THEN taken.rest ELSE Slice(d)
    <3>1. CASE taken.rest = << >>
      <4>1. queue' = Tail(queue)
        BY <1>9, <3>1
      <4> QED BY <1>1, <1>2, <1>3, <3>1, <4>1, TailFacts
    <3>2. CASE taken.rest # << >>
      <4>1. queue' = [queue EXCEPT ![1].samples = taken.rest]
        BY <1>9, <3>2
      <4> QED BY <1>1, <1>2, <1>3, <2>5, <3>2, <4>1, RestFacts
    <3> QED BY <3>1, <3>2
  <2>7. Filled(c, n, r)
    <3>1. IF Len(r.samples) = Capacity
          THEN chan'[c].record = None /\ file'[c] = Append(file[c], r)
          ELSE chan'[c].record = r /\ file'[c] = file[c]
      BY <1>7, <2>1, <2>3
    <3>2. /\ chan'[c].time = chan[c].time /\ chan'[c].offset = chan[c].offset + n
          /\ chan'[c].next = IF chan[c].record = None THEN chan[c].next + 1
                             ELSE chan[c].next
      BY <1>7, <2>1
    <3>3. \A d \in Channels \ {c} : chan'[d] = chan[d] /\ file'[d] = file[d]
      BY <2>1, <2>4
    <3>4. /\ Slice(c)' = SubSeq(b, n + 1, Len(b))
          /\ \A d \in Channels \ {c} : Slice(d)' = Slice(d)
          /\ Waiting' \subseteq Waiting \cup {Slice(c)'}
      <4>1. Slice(c)' = taken.rest
        BY <1>2, <1>3, <2>6
      <4>2. taken.rest = SubSeq(b, n + 1, Len(b))
        BY <1>7
      <4> QED BY <2>6, <4>1, <4>2
    <3> QED BY <1>2, <1>3, <1>6, <1>7, <3>1, <3>2, <3>3, <3>4 DEF Filled
  <2>8. n \in Nat
    BY <1>7
  <2> QED BY <1>2, <1>3, <1>9, <2>1, <2>3, <2>4, <2>6, <2>7, <2>8
<1> QED BY <1>3, <1>8, <1>9

-----------------------------------------------------------------------------
(***************************************************************************)
(* Types, and the queue                                                    *)
(***************************************************************************)

\* The part of the type invariant that is about the reader.
ReaderOK ==
    /\ buffer \in [Channels -> Seq(Nat)]
    /\ \A c \in Channels : Len(buffer[c]) < BufferLen
    /\ queue \in Slices
    /\ << >> \notin Waiting
    /\ QueueOK

LEMMA WaitingFull == QueueOK => << >> \notin Waiting
BY DEF QueueOK, Waiting

LEMMA FlushedReader ==
    ASSUME TypeOK, OneClock, FlushAll
    PROVE  ReaderOK'
<1>1. /\ queue' \in Slices /\ buffer' \in [Channels -> Seq(Nat)] /\ QueueOK'
      /\ \A c \in Channels : buffer'[c] = << >>
  BY FlushFacts
<1>2. \A c \in Channels : Len(buffer'[c]) < BufferLen
  BY <1>1, EmptySeq, FastAssumption
<1>3. (<< >> \notin Waiting)'
  BY <1>1, WaitingFull, PTL
<1> QED BY <1>1, <1>2, <1>3 DEF ReaderOK

LEMMA ReaderStep == IInv /\ [Next]_vars => ReaderOK'
<1> SUFFICES ASSUME IInv, [Next]_vars PROVE ReaderOK'
  OBVIOUS
<1>1. TypeOK /\ OneClock /\ QueueOK /\ PhaseOK /\ \A c \in Channels : NextOK(c)
  BY DEF IInv, ChannelOK
<1>2. ReaderOK
  BY <1>1 DEF TypeOK, ReaderOK, Slices
<1>3. CASE UNCHANGED << buffer, queue >>
  BY <1>2, <1>3 DEF ReaderOK, Waiting, QueueOK
<1>4. CASE FlushAll
  BY <1>1, <1>4, FlushedReader
<1>5. CASE Timestamp
  BY <1>3, <1>5 DEF Timestamp, reader
<1>6. CASE DataFrame
  <2>1. /\ queue' \in Slices /\ buffer' \in [Channels -> Seq(Nat)]
        /\ QueueOK'
        /\ \/ \A c \in Channels : buffer'[c] = More(c) /\ Len(More(c)) < BufferLen
           \/ \A c \in Channels : buffer'[c] = << >>
    BY <1>1, <1>6, DataFacts
  <2>2. \A c \in Channels : Len(buffer'[c]) < BufferLen
    BY <2>1, EmptySeq, FastAssumption
  <2>3. (<< >> \notin Waiting)'
    BY <2>1, WaitingFull, PTL
  <2> QED BY <2>1, <2>2, <2>3 DEF ReaderOK
<1>7. CASE \E n \in 0 .. MaxLost : LostFrames(n)
  BY <1>4, <1>7 DEF LostFrames
<1>8. CASE \E gap \in 0 .. MaxGap : FrameNumber(gap)
  BY <1>3, <1>4, <1>8 DEF FrameNumber
<1>9. CASE \E gap \in 0 .. MaxGap : OtherFrame(gap)
  BY <1>3, <1>9 DEF OtherFrame, reader
<1>10. CASE EndFrame
  BY <1>4, <1>10 DEF EndFrame
<1>11. CASE ReadError
  BY <1>3, <1>11 DEF ReadError, reader
<1>12. CASE DropBuffer
  <2>1. queue # << >> /\ queue' = Tail(queue) /\ UNCHANGED buffer
    BY <1>12 DEF DropBuffer
  <2>2. queue' \in Slices /\ QueueOK' /\ << >> \notin Waiting'
    BY <1>1, <1>2, <2>1, TailFacts DEF ReaderOK
  <2> QED BY <1>2, <2>1, <2>2 DEF ReaderOK
<1>13. CASE FillRecord
  <2>1. UNCHANGED buffer
    BY <1>13 DEF FillRecord
  <2>2. \/ UNCHANGED queue
        \/ queue' \in Slices /\ QueueOK' /\ << >> \notin Waiting'
    BY <1>1, <1>13, FillFacts
  <2> QED BY <1>2, <2>1, <2>2 DEF ReaderOK, Waiting, QueueOK
<1>14. CASE Return
  BY <1>3, <1>14 DEF Return, reader
<1>15. CASE CloseChannel
  BY <1>3, <1>15 DEF CloseChannel, reader
<1>16. CASE UNCHANGED vars
  BY <1>3, <1>16 DEF vars, reader
<1> QED
  BY <1>5, <1>6, <1>7, <1>8, <1>9, <1>10, <1>11, <1>12, <1>13, <1>14, <1>15, <1>16
  DEF Next

\* The parts that are about the card and the histories, and about the channels.
CardOK ==
    /\ left \in Nat /\ tick \in Nat \ {0} /\ refused \in RefusalCases
    /\ status \in {"reading", "flushing", "closing", "finished", "aborted"}
    /\ number \in Nat /\ missing \subseteq Nat /\ unknown \in BOOLEAN
    /\ hidden \subseteq Nat /\ heard \in Seq(Nat)

OutputOK ==
    /\ room \in Nat
    /\ chan \in [Channels -> Channel]
    /\ file \in [Channels -> Seq(Record)]
    /\ closed \in 0 .. NChannels

LEMMA TypeParts ==
    /\ TypeOK => CardOK /\ OutputOK
    /\ CardOK /\ OutputOK /\ ReaderOK => TypeOK /\ QueueOK
<1>1. TypeOK => CardOK
  BY DEF TypeOK, CardOK
<1>2. TypeOK => OutputOK
  BY DEF TypeOK, OutputOK
<1>3. CardOK /\ OutputOK /\ ReaderOK => TypeOK /\ QueueOK
  BY DEF TypeOK, CardOK, OutputOK, ReaderOK, Slices
<1> QED BY <1>1, <1>2, <1>3

LEMMA BoundTypes == (\A n \in 0 .. MaxLost : n \in Nat) /\ (\A n \in 0 .. MaxGap : n \in Nat)
BY FastAssumption

LEMMA CardStep == IInv /\ [Next]_vars => CardOK'
<1> SUFFICES ASSUME IInv, [Next]_vars PROVE CardOK'
  OBVIOUS
<1>1. CardOK
  BY TypeParts DEF IInv
<1>2. ASSUME NEW n \in Nat, Gap(n)
      PROVE  tick' \in Nat \ {0} /\ missing' \subseteq Nat /\ tick' = tick + n
  BY <1>1, <1>2 DEF Gap, CardOK
<1>3. CASE Timestamp
  BY <1>1, <1>3 DEF Timestamp, NextFrame, CardOK, history, reader
<1>4. CASE DataFrame
  <2>1. left' = left - 1 /\ left > 0 /\ number' = number + 1 /\ tick' = tick + 1
    BY <1>4 DEF DataFrame, NextFrame
  <2>2. heard' \in Seq(Nat)
    BY <1>1, <1>4, AppendProperties DEF DataFrame, CardOK
  <2>3. /\ UNCHANGED << refused, status, missing, unknown >>
        /\ hidden' = IF unknown THEN hidden \cup {tick} ELSE hidden
    BY <1>4 DEF DataFrame
  <2> QED BY <1>1, <2>1, <2>2, <2>3 DEF CardOK
<1>5. ASSUME NEW n \in 0 .. MaxLost, LostFrames(n) PROVE CardOK'
  BY <1>1, <1>2, <1>5, BoundTypes DEF LostFrames, NextFrame, CardOK
<1>6. ASSUME NEW gap \in 0 .. MaxGap, FrameNumber(gap) PROVE CardOK'
  <2>1. Gap(gap) /\ gap \in Nat
    BY <1>6, BoundTypes DEF FrameNumber
  <2>2. tick' \in Nat \ {0} /\ missing' \subseteq Nat /\ tick' = tick + gap
    BY <1>2, <2>1
  <2>3. number' \in Nat
    BY <1>1, <1>6, <2>1 DEF FrameNumber, CardOK
  <2>4. left' \in Nat /\ UNCHANGED << refused, status, hidden, heard >>
    BY <1>1, <1>6 DEF FrameNumber, NextFrame, CardOK
  <2>5. unknown' \in BOOLEAN
    BY <1>6 DEF FrameNumber
  <2> QED BY <1>1, <2>2, <2>3, <2>4, <2>5 DEF CardOK
<1>7. ASSUME NEW gap \in 0 .. MaxGap, OtherFrame(gap) PROVE CardOK'
  <2>1. Gap(gap) /\ gap \in Nat
    BY <1>7, BoundTypes DEF OtherFrame
  <2>2. tick' \in Nat \ {0} /\ missing' \subseteq Nat
    BY <1>2, <2>1
  <2>3. /\ left' \in Nat
        /\ UNCHANGED << refused, status, number, hidden, heard >>
    BY <1>1, <1>7 DEF OtherFrame, NextFrame, CardOK, reader
  <2>4. unknown' \in BOOLEAN
    BY <1>7 DEF OtherFrame
  <2> QED BY <1>1, <2>2, <2>3, <2>4 DEF CardOK
<1>8. CASE EndFrame
  BY <1>1, <1>8 DEF EndFrame, CardOK, card, history
<1>9. CASE ReadError
  BY <1>1, <1>9 DEF ReadError, CardOK, card, reader, history
<1>10. CASE DropBuffer
  BY <1>1, <1>10 DEF DropBuffer, CardOK, card, history
<1>11. CASE FillRecord
  <2>1. UNCHANGED << card, number, history >> /\ status' \in {status, "aborted"}
    BY <1>11 DEF FillRecord
  <2> QED BY <1>1, <2>1 DEF CardOK, card, history
<1>12. CASE Return
  BY <1>1, <1>12 DEF Return, CardOK, card, reader, history
<1>13. CASE CloseChannel
  <2>1. /\ UNCHANGED << card, reader, history >>
        /\ status' \in {"aborted", "closing", "finished"}
    BY <1>13 DEF CloseChannel
  <2> QED BY <1>1, <2>1 DEF CardOK, card, reader, history
<1>14. CASE UNCHANGED vars
  BY <1>1, <1>14 DEF CardOK, vars, card, reader, history
<1> QED
  BY <1>3, <1>4, <1>5, <1>6, <1>7, <1>8, <1>9, <1>10, <1>11, <1>12, <1>13, <1>14
  DEF Next

\* Channel#done of the channel that is closed next.
LEMMA CloseFacts ==
    ASSUME TypeOK, PhaseOK, CloseChannel
    PROVE  /\ closed \in Channels /\ UNCHANGED << chan, card, reader, history >>
           /\ \/ status' = "aborted" /\ UNCHANGED << output, closed >>
              \/ /\ closed' = closed + 1
                 /\ status' = IF closed + 1 = NChannels THEN "finished" ELSE "closing"
                 /\ room' \in Nat /\ file' \in [Channels -> Seq(Record)]
                 /\ file'[closed] = IF chan[closed].record = None THEN file[closed]
                                    ELSE Append(file[closed], chan[closed].record)
                 /\ \A d \in Channels \ {closed} : file'[d] = file[d]
<1> DEFINE out == Pending(chan[closed])
<1>1. closed \in Channels
  BY ChannelRange DEF CloseChannel, PhaseOK
<1>2. /\ chan[closed] \in Channel /\ file \in [Channels -> Seq(Record)] /\ room \in Nat
      /\ file[closed] \in Seq(Record)
  BY <1>1 DEF TypeOK
<1>3. /\ UNCHANGED << chan, card, reader, history >>
      /\ \/ status' = "aborted" /\ UNCHANGED << output, closed >>
         \/ /\ ~ (out # << >> /\ room = 0)
            /\ file' = [file EXCEPT ![closed] = @ \o out]
            /\ room' = room - Len(out) /\ closed' = closed + 1
            /\ status' = IF closed' = NChannels THEN "finished" ELSE "closing"
  BY DEF CloseChannel, Done, output
<1>4. /\ out \in Seq(Record)
      /\ IF chan[closed].record = None THEN out = << >> /\ Len(out) = 0
         ELSE out # << >> /\ Len(out) = 1
      /\ file[closed] \o out = IF chan[closed].record = None THEN file[closed]
                               ELSE Append(file[closed], chan[closed].record)
  <2>1. CASE chan[closed].record = None
    <3>1. out = << >>
      BY <2>1 DEF Pending
    <3> HIDE DEF out
    <3>2. file[closed] \o out = file[closed] /\ Len(out) = 0 /\ out \in Seq(Record)
      BY <1>2, <3>1, ConcatEmptySeq, EmptySeq
    <3> QED BY <2>1, <3>1, <3>2
  <2>2. CASE chan[closed].record # None
    <3> DEFINE r == chan[closed].record
    <3>1. out = << r >> /\ r \in Record
      BY <1>2, <2>2 DEF Pending, Channel
    <3> HIDE DEF out, r
    <3>2. << r >> \in Seq(Record) /\ Len(<< r >>) = 1 /\ << r >> # << >>
      BY <3>1
    <3>3. file[closed] \o << r >> = Append(file[closed], r)
      BY <1>2, <3>1, AppendIsConcat
    <3> QED BY <2>2, <3>1, <3>2, <3>3 DEF r
  <2> QED BY <2>1, <2>2
<1> HIDE DEF out
<1>5. CASE status' = "aborted" /\ UNCHANGED << output, closed >>
  BY <1>1, <1>3, <1>5
<1>6. CASE /\ ~ (out # << >> /\ room = 0)
           /\ file' = [file EXCEPT ![closed] = @ \o out]
           /\ room' = room - Len(out) /\ closed' = closed + 1
           /\ status' = IF closed' = NChannels THEN "finished" ELSE "closing"
  <2>1. room' \in Nat
    BY <1>2, <1>4, <1>6
  <2>2. file[closed] \o out \in Seq(Record)
    BY <1>2, <1>4, ConcatProperties
  <2>3. /\ file' \in [Channels -> Seq(Record)]
        /\ file'[closed] = file[closed] \o out
        /\ \A d \in Channels \ {closed} : file'[d] = file[d]
    BY <1>1, <1>2, <1>6, <2>2
  <2> QED BY <1>1, <1>3, <1>4, <1>6, <2>1, <2>3
<1> QED BY <1>3, <1>5, <1>6

LEMMA OutputStep == IInv /\ [Next]_vars => OutputOK'
<1> SUFFICES ASSUME IInv, [Next]_vars PROVE OutputOK'
  OBVIOUS
<1>1. OutputOK /\ TypeOK /\ QueueOK /\ PhaseOK /\ \A c \in Channels : NextOK(c)
  BY TypeParts DEF IInv, ChannelOK
<1>2. CASE UNCHANGED << output, closed >>
  BY <1>1, <1>2 DEF output, OutputOK
<1>3. CASE Timestamp
  <2>1. \A c \in Channels : SetTime(chan[c], tick) \in Channel
    BY <1>1 DEF TypeOK, SetTime, Channel
  <2>2. chan' \in [Channels -> Channel]
    BY <1>1, <1>3, <2>1 DEF Timestamp, OutputOK
  <2> QED BY <1>1, <1>3, <2>2 DEF Timestamp, OutputOK
<1>4. CASE DataFrame
  BY <1>2, <1>4 DEF DataFrame
<1>5. CASE \E n \in 0 .. MaxLost : LostFrames(n)
  BY <1>2, <1>5 DEF LostFrames
<1>6. CASE \E gap \in 0 .. MaxGap : FrameNumber(gap)
  BY <1>2, <1>6 DEF FrameNumber
<1>7. CASE \E gap \in 0 .. MaxGap : OtherFrame(gap)
  BY <1>2, <1>7 DEF OtherFrame
<1>8. CASE EndFrame
  BY <1>2, <1>8 DEF EndFrame
<1>9. CASE ReadError
  BY <1>2, <1>9 DEF ReadError
<1>10. CASE DropBuffer
  BY <1>2, <1>10 DEF DropBuffer
<1>11. CASE FillRecord
  <2>1. UNCHANGED closed
    BY <1>11 DEF FillRecord
  <2>2. \/ UNCHANGED output
        \/ /\ chan' \in [Channels -> Channel] /\ file' \in [Channels -> Seq(Record)]
           /\ room' \in Nat
    BY <1>1, <1>11, FillFacts
  <2> QED BY <1>1, <1>2, <2>1, <2>2 DEF OutputOK
<1>12. CASE Return
  BY <1>2, <1>12 DEF Return
<1>13. CASE CloseChannel
  <2>1. \/ UNCHANGED << output, closed >>
        \/ /\ closed' = closed + 1 /\ closed \in Channels /\ UNCHANGED chan
           /\ room' \in Nat /\ file' \in [Channels -> Seq(Record)]
    BY <1>1, <1>13, CloseFacts
  <2> QED BY <1>1, <1>2, <2>1, ChannelRange DEF OutputOK
<1>14. CASE UNCHANGED vars
  BY <1>2, <1>14 DEF vars
<1> QED
  BY <1>3, <1>4, <1>5, <1>6, <1>7, <1>8, <1>9, <1>10, <1>11, <1>12, <1>13, <1>14
  DEF Next

LEMMA TypeStep == IInv /\ [Next]_vars => TypeOK' /\ QueueOK'
<1> SUFFICES ASSUME IInv, [Next]_vars PROVE TypeOK' /\ QueueOK'
  OBVIOUS
<1>1. CardOK' /\ OutputOK' /\ ReaderOK'
  BY CardStep, OutputStep, ReaderStep
<1> QED BY <1>1, TypeParts, PTL DEF ReaderOK

-----------------------------------------------------------------------------
(***************************************************************************)
(* The clocks and the counts                                               *)
(***************************************************************************)

\* What most steps do to the samples on their way: nothing, or they yield the
\* buffers.
Resting == UNCHANGED << buffer, queue, chan, file, closed, heard, hidden >>
Flushing ==
    /\ queue = << >>
    /\ FlushAll
    /\ UNCHANGED << chan, file, closed, heard, hidden >>

\* The first time stamp, which may be repeated.
SetClocks ==
    /\ number = 0
    /\ \A c \in Channels : chan'[c] = SetTime(chan[c], tick)
    /\ UNCHANGED << buffer, queue, file, closed, heard, hidden >>

LEMMA StepKinds ==
    IInv /\ [Next]_vars =>
        \/ Resting \/ Flushing \/ SetClocks
        \/ DataFrame \/ DropBuffer \/ FillRecord \/ CloseChannel
<1> SUFFICES ASSUME [Next]_vars, ~ DataFrame, ~ DropBuffer, ~ FillRecord, ~ CloseChannel
             PROVE  Resting \/ Flushing \/ SetClocks
  OBVIOUS
<1>1. CASE Timestamp
  <2>1. CASE number = 0
    BY <1>1, <2>1 DEF Timestamp, SetClocks, reader, history
  <2>2. CASE number # 0
    BY <1>1, <2>2 DEF Timestamp, Resting, reader, history
  <2> QED BY <2>1, <2>2
<1>2. CASE \E n \in 0 .. MaxLost : LostFrames(n)
  BY <1>2 DEF LostFrames, NextFrame, Flushing, output
<1>3. CASE \E gap \in 0 .. MaxGap : FrameNumber(gap)
  BY <1>3 DEF FrameNumber, NextFrame, Flushing, Resting, output
<1>4. CASE \E gap \in 0 .. MaxGap : OtherFrame(gap)
  BY <1>4 DEF OtherFrame, Resting, reader, output
<1>5. CASE EndFrame
  BY <1>5 DEF EndFrame, Flushing, output, history
<1>6. CASE ReadError
  BY <1>6 DEF ReadError, Resting, reader, output, history
<1>7. CASE Return
  BY <1>7 DEF Return, Resting, reader, output, history
<1>8. CASE UNCHANGED vars
  BY <1>8 DEF vars, Resting, reader, output, history
<1> QED BY <1>1, <1>2, <1>3, <1>4, <1>5, <1>6, <1>7, <1>8 DEF Next

\* The facts of the invariant that the steps are about.
LEMMA InvParts ==
    IInv => /\ TypeOK /\ OneClock /\ QueueOK /\ PhaseOK /\ CountOK /\ HeardOK
            /\ FreshOK /\ Gapless
            /\ \A c \in Channels : /\ UntimedOK(c) /\ PlacesOK(c) /\ RecordsOK(c)
                                   /\ NextOK(c) /\ ContentOK(c)
BY DEF IInv, ChannelOK

\* A channel keeps its time in all other steps.
LEMMA TimesKept ==
    ASSUME IInv, [Next]_vars, ~ SetClocks, NEW c \in Channels
    PROVE  chan'[c].time = chan[c].time
<1>1. CASE Resting \/ Flushing
  BY <1>1 DEF Resting, Flushing
<1>2. CASE DataFrame \/ DropBuffer
  BY <1>2 DEF DataFrame, DropBuffer, output
<1>3. CASE FillRecord
  <2>1. \/ UNCHANGED output
        \/ \E d \in Channels, n \in Nat, r \in Record : Filled(d, n, r)
    BY <1>3, InvParts, FillFacts
  <2> QED BY <2>1 DEF output, Filled
<1>4. CASE CloseChannel
  BY <1>4, InvParts, CloseFacts
<1> QED BY <1>1, <1>2, <1>3, <1>4, StepKinds

LEMMA ClockStep == IInv /\ [Next]_vars => OneClock'
<1> SUFFICES ASSUME IInv, [Next]_vars, NEW c \in Channels, NEW d \in Channels
             PROVE  chan'[c].time = chan'[d].time /\ Len(buffer'[c]) = Len(buffer'[d])
  BY DEF OneClock
<1>1. /\ chan[c].time = chan[d].time /\ Len(buffer[c]) = Len(buffer[d])
      /\ TypeOK /\ OneClock
  BY InvParts DEF OneClock
<1>2. chan'[c].time = chan'[d].time
  <2>1. CASE SetClocks
    <3>1. chan[c] \in Channel /\ chan[d] \in Channel
      BY <1>1 DEF TypeOK
    <3> QED BY <2>1, <3>1 DEF SetClocks, SetTime, Channel
  <2>2. CASE ~ SetClocks
    BY <1>1, <2>2, TimesKept
  <2> QED BY <2>1, <2>2
<1>3. Len(buffer'[c]) = Len(buffer'[d])
  <2>1. CASE UNCHANGED buffer
    BY <1>1, <2>1
  <2>2. CASE FlushAll
    BY <1>1, <2>2, FlushFacts
  <2>3. CASE DataFrame
    BY <1>1, <2>3, DataFacts
  <2>4. CASE Resting \/ Flushing \/ SetClocks
    BY <2>1, <2>2, <2>4 DEF Resting, Flushing, SetClocks
  <2>5. CASE DropBuffer \/ FillRecord \/ CloseChannel
    BY <2>1, <2>5 DEF DropBuffer, FillRecord, CloseChannel, reader
  <2> QED BY <2>3, <2>4, <2>5, StepKinds
<1> QED BY <1>2, <1>3

LEMMA PhaseStep == IInv /\ [Next]_vars => PhaseOK'
<1> SUFFICES ASSUME IInv, [Next]_vars PROVE PhaseOK'
  OBVIOUS
<1>1. TypeOK /\ OneClock /\ QueueOK /\ PhaseOK /\ \A c \in Channels : NextOK(c)
  BY InvParts
<1>2. CASE /\ status = "reading" /\ UNCHANGED closed
           /\ \/ status' \in {"reading", "aborted"}
              \/ status' = "flushing" /\ \A c \in Channels : buffer'[c] = << >>
  BY <1>1, <1>2 DEF PhaseOK
<1>3. CASE Timestamp
  BY <1>2, <1>3 DEF Timestamp, NextFrame
<1>4. CASE DataFrame
  BY <1>2, <1>4 DEF DataFrame, NextFrame
<1>5. CASE \E n \in 0 .. MaxLost : LostFrames(n)
  BY <1>2, <1>5 DEF LostFrames, NextFrame
<1>6. CASE \E gap \in 0 .. MaxGap : FrameNumber(gap)
  BY <1>2, <1>6 DEF FrameNumber, NextFrame
<1>7. CASE \E gap \in 0 .. MaxGap : OtherFrame(gap)
  BY <1>2, <1>7 DEF OtherFrame, NextFrame
<1>8. CASE EndFrame
  <2>1. \A c \in Channels : buffer'[c] = << >>
    BY <1>1, <1>8, FlushFacts DEF EndFrame
  <2> QED BY <1>2, <1>8, <2>1 DEF EndFrame
<1>9. CASE ReadError
  BY <1>2, <1>9 DEF ReadError
<1>10. CASE DropBuffer \/ FillRecord
  <2>1. /\ status \in {"reading", "flushing"} /\ status' \in {status, "aborted"}
        /\ UNCHANGED << buffer, closed >>
    BY <1>10 DEF DropBuffer, FillRecord
  <2> QED BY <1>1, <2>1 DEF PhaseOK
<1>11. CASE Return
  BY <1>1, <1>11, ChannelRange DEF Return, PhaseOK, reader
<1>12. CASE CloseChannel
  <2>1. /\ closed \in Channels /\ UNCHANGED reader /\ status = "closing"
        /\ \/ status' = "aborted" /\ closed' = closed
           \/ /\ closed' = closed + 1
              /\ status' = IF closed + 1 = NChannels THEN "finished" ELSE "closing"
    BY <1>1, <1>12, CloseFacts DEF CloseChannel
  <2> QED BY <1>1, <2>1, ChannelRange DEF PhaseOK, reader
<1>13. CASE UNCHANGED vars
  BY <1>1, <1>13 DEF vars, reader, PhaseOK
<1> QED
  BY <1>3, <1>4, <1>5, <1>6, <1>7, <1>8, <1>9, <1>10, <1>11, <1>12, <1>13 DEF Next

\* As long as the count is zero nothing comes into the program.
LEMMA NothingRead ==
    ASSUME IInv, [Next]_vars, number = 0, number' = 0
    PROVE  /\ queue' = << >> /\ heard' = << >>
           /\ \A c \in Channels : /\ buffer'[c] = << >> /\ file'[c] = << >>
                                  /\ chan'[c].record = None /\ chan'[c].offset = 0
<1>1. /\ queue = << >> /\ heard = << >>
      /\ \A c \in Channels : /\ buffer[c] = << >> /\ file[c] = << >>
                             /\ chan[c].record = None /\ chan[c].offset = 0
  BY InvParts DEF CountOK
<1>2. TypeOK /\ OneClock /\ PhaseOK
  BY InvParts
<1>3. CASE Resting
  BY <1>1, <1>3 DEF Resting
<1>4. CASE Flushing
  <2>1. queue' = << >> /\ \A c \in Channels : buffer'[c] = << >>
    BY <1>1, <1>2, <1>4, FlushFacts DEF Flushing
  <2> QED BY <1>1, <1>4, <2>1 DEF Flushing
<1>5. CASE SetClocks
  <2>1. \A c \in Channels : chan'[c].record = None /\ chan'[c].offset = 0
    BY <1>1, <1>2, <1>5 DEF SetClocks, SetTime, TypeOK, Channel
  <2> QED BY <1>1, <1>5, <2>1 DEF SetClocks
<1>6. CASE DataFrame
  BY <1>6 DEF DataFrame
<1>7. CASE DropBuffer \/ FillRecord
  BY <1>1, <1>7 DEF DropBuffer, FillRecord
<1>8. CASE CloseChannel
  <2>1. \A c \in Channels : file'[c] = << >>
    BY <1>1, <1>2, <1>8, CloseFacts DEF output
  <2>2. UNCHANGED << chan, reader, history >>
    BY <1>2, <1>8, CloseFacts
  <2> QED BY <1>1, <2>1, <2>2 DEF reader, history
<1> QED BY <1>3, <1>4, <1>5, <1>6, <1>7, <1>8, StepKinds

LEMMA CountStep == IInv /\ [Next]_vars => CountOK'
<1> SUFFICES ASSUME IInv, [Next]_vars PROVE CountOK'
  OBVIOUS
<1>1. /\ number \in Nat /\ tick \in Nat \ {0} /\ unknown \in BOOLEAN
      /\ number <= tick - 1 /\ (unknown <=> number < tick - 1)
  BY InvParts DEF TypeOK, CountOK
<1> DEFINE Counted == /\ number' \in Nat /\ number' >= number /\ number' <= tick' - 1
                      /\ (unknown' <=> number' < tick' - 1)
<1>2. ASSUME UNCHANGED << number, tick, unknown >> PROVE Counted
  <2>1. number' = number /\ tick' = tick /\ (unknown' <=> unknown)
    BY <1>2
  <2> QED BY <1>1, <2>1
<1>3. ASSUME Timestamp PROVE Counted
  BY <1>2, <1>3 DEF Timestamp, reader, history
<1>4. ASSUME DataFrame PROVE Counted
  <2>1. number' = number + 1 /\ tick' = tick + 1 /\ (unknown' <=> unknown)
    BY <1>4 DEF DataFrame
  <2> QED BY <1>1, <2>1
<1>5. ASSUME NEW n \in 0 .. MaxLost, LostFrames(n) PROVE Counted
  <2>1. number' = number + n /\ tick' = tick + n /\ (unknown' <=> unknown) /\ n \in Nat
    BY <1>5, BoundTypes DEF LostFrames, Gap
  <2> QED BY <1>1, <2>1
<1>6. ASSUME NEW gap \in 0 .. MaxGap, FrameNumber(gap) PROVE Counted
  <2>1. number' = tick + gap - 1 /\ tick' = tick + gap /\ gap \in Nat
    BY <1>6, BoundTypes DEF FrameNumber, Gap
  <2>2. ~ unknown'
    BY <1>6 DEF FrameNumber
  <2> QED BY <1>1, <2>1, <2>2
<1>7. ASSUME NEW gap \in 0 .. MaxGap, OtherFrame(gap) PROVE Counted
  <2>1. number' = number /\ tick' = tick + gap /\ gap \in Nat
    BY <1>7, BoundTypes DEF OtherFrame, Gap, reader
  <2>2. unknown' <=> unknown \/ gap > 0
    BY <1>7 DEF OtherFrame
  <2>3. CASE gap = 0
    BY <1>1, <2>1, <2>2, <2>3
  <2>4. CASE gap > 0
    BY <1>1, <2>1, <2>2, <2>4
  <2> QED BY <2>1, <2>3, <2>4
<1>8. ASSUME EndFrame PROVE Counted
  BY <1>2, <1>8 DEF EndFrame, card, history
<1>9. ASSUME ReadError PROVE Counted
  BY <1>2, <1>9 DEF ReadError, card, reader, history
<1>10. ASSUME DropBuffer PROVE Counted
  BY <1>2, <1>10 DEF DropBuffer, card, history
<1>11. ASSUME FillRecord PROVE Counted
  BY <1>2, <1>11 DEF FillRecord, card, history
<1>12. ASSUME Return PROVE Counted
  BY <1>2, <1>12 DEF Return, card, reader, history
<1>13. ASSUME CloseChannel PROVE Counted
  BY <1>2, <1>13 DEF CloseChannel, card, reader, history
<1>14. ASSUME UNCHANGED vars PROVE Counted
  BY <1>2, <1>14 DEF vars, card, reader, history
<1>15. Counted
  <2> HIDE DEF Counted
  <2> QED
    BY <1>3, <1>4, <1>5, <1>6, <1>7, <1>8, <1>9, <1>10, <1>11, <1>12, <1>13, <1>14
    DEF Next
<1>16. number' = 0 => number = 0
  BY <1>1, <1>15
<1> QED BY <1>15, <1>16, NothingRead DEF CountOK

LEMMA FreshStep == IInv /\ [Next]_vars => FreshOK'
<1> SUFFICES ASSUME IInv, [Next]_vars, NEW c \in Channels,
                    buffer'[c] # << >>, ~ unknown'
             PROVE  buffer'[c][Len(buffer'[c])] = tick' - 1
  BY DEF FreshOK
<1>1. /\ TypeOK /\ OneClock /\ number \in Nat /\ tick \in Nat \ {0}
      /\ number <= tick - 1 /\ (unknown <=> number < tick - 1)
      /\ buffer[c] # << >> /\ ~ unknown => buffer[c][Len(buffer[c])] = tick - 1
  BY InvParts DEF TypeOK, CountOK, FreshOK
<1>2. CASE UNCHANGED << buffer, tick >> /\ ~ unknown
  BY <1>1, <1>2
<1>3. ~ FlushAll
  BY <1>1, FlushFacts
<1>4. CASE Timestamp
  BY <1>2, <1>4 DEF Timestamp, reader, history
<1>5. CASE DataFrame
  <2>1. tick' = tick + 1
    BY <1>5 DEF DataFrame
  <2>2. buffer'[c] = More(c) /\ Len(More(c)) = Len(buffer[c]) + 1
        /\ More(c)[Len(buffer[c]) + 1] = tick
    BY <1>1, <1>5, DataFacts
  <2> QED BY <1>1, <2>1, <2>2
<1>6. CASE \E n \in 0 .. MaxLost : LostFrames(n)
  BY <1>3, <1>6 DEF LostFrames
<1>7. ASSUME NEW gap \in 0 .. MaxGap, FrameNumber(gap)
      PROVE  UNCHANGED << buffer, tick >> /\ ~ unknown
  <2>1. /\ number' = tick + gap - 1 /\ tick' = tick + gap /\ gap \in Nat
        /\ number = number' /\ UNCHANGED buffer
    BY <1>3, <1>7, BoundTypes DEF FrameNumber, Gap
  <2>2. gap = 0 /\ number = tick - 1
    BY <1>1, <2>1
  <2> QED BY <1>1, <2>1, <2>2
<1>8. ASSUME NEW gap \in 0 .. MaxGap, OtherFrame(gap)
      PROVE  UNCHANGED << buffer, tick >> /\ ~ unknown
  <2>1. /\ tick' = tick + gap /\ gap \in Nat /\ unknown' = (unknown \/ gap > 0)
        /\ UNCHANGED buffer
    BY <1>8, BoundTypes DEF OtherFrame, Gap, reader
  <2>2. ~ unknown /\ ~ (gap > 0)
    BY <2>1
  <2>3. gap = 0
    BY <2>1, <2>2
  <2> QED BY <1>1, <2>1, <2>2, <2>3
<1>9. CASE EndFrame
  BY <1>3, <1>9 DEF EndFrame
<1>10. CASE ReadError
  BY <1>2, <1>10 DEF ReadError, card, reader, history
<1>11. CASE DropBuffer
  BY <1>2, <1>11 DEF DropBuffer, card, history
<1>12. CASE FillRecord
  BY <1>2, <1>12 DEF FillRecord, card, history
<1>13. CASE Return
  BY <1>2, <1>13 DEF Return, card, reader, history
<1>14. CASE CloseChannel
  BY <1>2, <1>14 DEF CloseChannel, card, reader, history
<1>15. CASE UNCHANGED vars
  BY <1>2, <1>15 DEF vars, card, reader, history
<1> QED
  BY <1>2, <1>4, <1>5, <1>6, <1>7, <1>8, <1>9, <1>10, <1>11, <1>12, <1>13, <1>14, <1>15
  DEF Next

\* Each sample follows the one before it, or could not be known to be behind a gap.
Steady(b) == \A i \in 2 .. Len(b) : b[i] = b[i - 1] + 1 \/ b[i] \in hidden

LEMMA GaplessStep == IInv /\ [Next]_vars => Gapless'
<1> SUFFICES ASSUME IInv, [Next]_vars PROVE Gapless'
  OBVIOUS
<1>1. /\ TypeOK /\ OneClock /\ QueueOK /\ PhaseOK /\ FreshOK /\ queue \in Slices
      /\ \A c \in Channels : NextOK(c)
      /\ \A b \in Waiting : Steady(b)
      /\ \A c \in Channels : Steady(buffer[c])
  BY InvParts DEF Gapless, Steady, TypeOK, Slices
<1>2. SUFFICES /\ \A b \in Waiting' : Steady(b)'
               /\ \A c \in Channels : Steady(buffer[c])'
  BY DEF Gapless, Steady
<1>3. ASSUME UNCHANGED hidden, NEW b, Steady(b) PROVE Steady(b)'
  BY <1>3 DEF Steady
<1>4. Steady(<< >>)'
  <2>1. Len(<< >>) = 0
    BY EmptySeq
  <2> QED BY <2>1 DEF Steady
<1>5. CASE UNCHANGED << queue, buffer, hidden >>
  BY <1>1, <1>3, <1>5 DEF Waiting, Steady
<1>6. CASE Resting \/ SetClocks
  BY <1>5, <1>6 DEF Resting, SetClocks
<1>7. CASE CloseChannel
  BY <1>5, <1>7 DEF CloseChannel, reader, history
<1>8. CASE Flushing
  <2>1. /\ \A c \in Channels : buffer'[c] = << >>
        /\ \A i \in 1 .. Len(queue') : \E c \in Channels : queue'[i].samples = buffer[c]
        /\ UNCHANGED hidden
    BY <1>1, <1>8, FlushFacts DEF Flushing
  <2>2. \A b \in Waiting' : \E c \in Channels : b = buffer[c]
    BY <2>1 DEF Waiting
  <2> QED BY <1>1, <2>1, <2>2 DEF Steady
<1>9. CASE DataFrame
  <2>1. ASSUME NEW c \in Channels, NEW b, b = More(c) PROVE Steady(b)'
    <3> DEFINE n == Len(buffer[c])
    <3>1. /\ n \in Nat /\ Len(b) = n + 1 /\ b[n + 1] = tick /\ tick \in Nat
          /\ \A i \in 1 .. n : b[i] = buffer[c][i]
      <4>1. buffer[c] \in Seq(Nat) /\ tick \in Nat
        BY <1>1 DEF TypeOK
      <4> QED BY <1>1, <1>9, <2>1, <4>1, DataFacts, LenProperties
    <3>2. /\ \A i \in 2 .. n : buffer[c][i] = buffer[c][i - 1] + 1 \/ buffer[c][i] \in hidden
          /\ n # 0 /\ ~ unknown => buffer[c][n] = tick - 1
      BY <1>1, EmptySeq DEF Steady, FreshOK
    <3>3. hidden' = IF unknown THEN hidden \cup {tick} ELSE hidden
      BY <1>9 DEF DataFrame
    <3> HIDE DEF n
    <3>4. ASSUME NEW i \in 2 .. n + 1 PROVE b[i] = b[i - 1] + 1 \/ b[i] \in hidden'
      <4>1. CASE i \in 2 .. n
        <5>1. i \in 1 .. n /\ i - 1 \in 1 .. n
          BY <3>1, <4>1
        <5>2. b[i] = buffer[c][i] /\ b[i - 1] = buffer[c][i - 1]
          BY <3>1, <5>1
        <5>3. b[i] = b[i - 1] + 1 \/ b[i] \in hidden
          BY <3>2, <4>1, <5>2
        <5> QED BY <3>3, <5>3
      <4>2. CASE i = n + 1
        <5>1. n \in 1 .. n /\ n # 0 /\ i - 1 = n
          BY <3>1, <4>2
        <5>2. b[i] = tick /\ b[i - 1] = buffer[c][n]
          BY <3>1, <4>2, <5>1
        <5>3. CASE unknown
          BY <3>3, <5>2, <5>3
        <5>4. CASE ~ unknown
          <6>1. buffer[c][n] = tick - 1
            BY <3>2, <5>1, <5>4
          <6> QED BY <3>1, <5>2, <6>1
        <5> QED BY <5>3, <5>4
      <4> QED BY <3>1, <4>1, <4>2
    <3>5. \A i \in 2 .. Len(b) : b[i] = b[i - 1] + 1 \/ b[i] \in hidden'
      BY <3>1, <3>4
    <3> QED BY <3>5 DEF Steady
  <2>2. \/ /\ \A c \in Channels : buffer'[c] = More(c)
           /\ queue' = << >>
        \/ /\ \A c \in Channels : buffer'[c] = << >>
           /\ \A i \in 1 .. Len(queue') : \E c \in Channels : queue'[i].samples = More(c)
    BY <1>1, <1>9, DataFacts
  <2>3. CASE (\A c \in Channels : buffer'[c] = More(c)) /\ queue' = << >>
    <3>1. Waiting' = {}
      <4>1. Len(queue') = 0
        BY <2>3, ChannelZero, EmptySeq
      <4> QED BY <4>1 DEF Waiting
    <3>2. ASSUME NEW c \in Channels PROVE Steady(buffer[c])'
      <4>1. PICK b : b = More(c)
        OBVIOUS
      <4>2. Steady(b)' /\ buffer'[c] = b
        BY <2>1, <2>3, <4>1
      <4> QED BY <4>2 DEF Steady
    <3> QED BY <3>1, <3>2
  <2>4. CASE /\ \A c \in Channels : buffer'[c] = << >>
             /\ \A i \in 1 .. Len(queue') : \E c \in Channels : queue'[i].samples = More(c)
    <3>1. ASSUME NEW b \in Waiting' PROVE Steady(b)'
      <4>1. PICK c \in Channels : b = More(c)
        BY <2>4 DEF Waiting
      <4> QED BY <2>1, <4>1
    <3>2. \A c \in Channels : Steady(buffer[c])'
      BY <1>4, <2>4 DEF Steady
    <3> QED BY <3>1, <3>2
  <2> QED BY <2>2, <2>3, <2>4
<1>10. CASE DropBuffer
  <2>1. Waiting' \subseteq Waiting /\ UNCHANGED << buffer, hidden >>
    BY <1>1, <1>10, TailFacts DEF DropBuffer, history
  <2> QED BY <1>1, <2>1 DEF Steady
<1>11. CASE FillRecord
  <2>1. UNCHANGED << buffer, hidden >>
    BY <1>11 DEF FillRecord, history
  <2>2. \/ UNCHANGED queue
        \/ \E c \in Channels, n \in Nat, r \in Record : Filled(c, n, r)
    BY <1>1, <1>11, FillFacts
  <2>3. ASSUME NEW c \in Channels, NEW n \in Nat, NEW r \in Record, Filled(c, n, r)
        PROVE  \A b \in Waiting' : Steady(b)'
    <3>1. PICK s : s = Slice(c)
      OBVIOUS
    <3>2. PICK t : t = Slice(c)'
      OBVIOUS
    <3>3. /\ s \in Waiting /\ Waiting' \subseteq Waiting \cup {t}
          /\ n \in 1 .. Len(s) /\ t = SubSeq(s, n + 1, Len(s))
      BY <2>3, <3>1, <3>2 DEF Filled
    <3>4. s \in Seq(Nat)
      BY <1>1, <3>3, QueueElements DEF Waiting
    <3>5. Steady(t)'
      <4>1. /\ Len(s) \in Nat /\ \A i \in 1 .. Len(s) : s[i] \in Nat
        BY <3>4, LenProperties, ElementOfSeq
      <4>2. /\ n + 1 \in Int /\ Len(s) \in Int
            /\ \A i \in n + 1 .. Len(s) : s[i] \in Nat
        BY <4>1
      <4>3. /\ Len(t) = IF n + 1 <= Len(s) THEN Len(s) - (n + 1) + 1 ELSE 0
            /\ \A i \in 1 .. Len(s) - (n + 1) + 1 : t[i] = s[n + 1 + i - 1]
        BY <3>3, <4>2, SubSeqProperties
      <4>4. ASSUME NEW i \in 2 .. Len(t) PROVE t[i] = t[i - 1] + 1 \/ t[i] \in hidden
        <5>1. /\ n + i \in 2 .. Len(s) /\ n + i - 1 = n + (i - 1)
              /\ i \in 1 .. Len(s) - (n + 1) + 1 /\ i - 1 \in 1 .. Len(s) - (n + 1) + 1
              /\ n + 1 + i - 1 = n + i /\ n + 1 + (i - 1) - 1 = n + i - 1
          BY <4>1, <4>3
        <5>2. t[i] = s[n + i] /\ t[i - 1] = s[n + i - 1]
          BY <4>3, <5>1
        <5>3. PICK k \in 2 .. Len(s) : k = n + i
          BY <5>1
        <5>4. s[k] = s[k - 1] + 1 \/ s[k] \in hidden
          BY <1>1, <3>3 DEF Steady
        <5> QED BY <5>2, <5>3, <5>4
      <4> QED BY <2>1, <4>4 DEF Steady
    <3> QED BY <1>1, <1>3, <2>1, <3>3, <3>5
  <2>4. UNCHANGED queue => \A b \in Waiting' : Steady(b)'
    BY <1>1, <1>3, <2>1 DEF Waiting
  <2>5. \A c \in Channels : Steady(buffer[c])'
    BY <1>1, <2>1 DEF Steady
  <2> QED BY <2>2, <2>3, <2>4, <2>5
<1> QED BY <1>6, <1>7, <1>8, <1>9, <1>10, <1>11, StepKinds

\* The part of HeardOK that is about channel c.
ClockTrue(c) == chan[c].time # None =>
    /\ chan[c].time <= tick
    /\ tick = chan[c].time + Len(heard) + MissingIn(chan[c].time, tick)
    /\ \A k \in 1 .. Len(heard) :
           heard[k] = chan[c].time + k - 1 + MissingIn(chan[c].time, heard[k])

LEMMA HeardTypes ==
    TypeOK => /\ tick \in Nat /\ missing \subseteq Nat /\ Len(heard) \in Nat
              /\ \A k \in 1 .. Len(heard) : heard[k] \in Nat
              /\ \A c \in Channels : /\ chan[c] \in Channel /\ chan[c].offset \in Nat
                                     /\ chan[c].time # None => chan[c].time \in Nat
<1> SUFFICES ASSUME TypeOK
             PROVE  /\ tick \in Nat /\ missing \subseteq Nat /\ Len(heard) \in Nat
                    /\ \A k \in 1 .. Len(heard) : heard[k] \in Nat
                    /\ \A c \in Channels : /\ chan[c] \in Channel /\ chan[c].offset \in Nat
                                           /\ chan[c].time # None => chan[c].time \in Nat
  OBVIOUS
<1>1. tick \in Nat /\ missing \subseteq Nat /\ heard \in Seq(Nat)
  BY DEF TypeOK
<1>2. \A c \in Channels : chan[c] \in Channel
  BY DEF TypeOK
<1>3. \A c \in Channels : chan[c].offset \in Nat /\ (chan[c].time # None => chan[c].time \in Nat)
  BY <1>2 DEF Channel
<1> QED BY <1>1, <1>2, <1>3, LenProperties, ElementOfSeq

LEMMA ClockType ==
    ASSUME TypeOK, NEW c \in Channels
    PROVE  /\ chan[c] \in Channel /\ chan[c].offset \in Nat
           /\ chan[c].time # None => chan[c].time \in Nat
BY HeardTypes

\* Among finitely many ticks, the missing ones are finitely many.
LEMMA MissingCount ==
    ASSUME missing \subseteq Nat, NEW a \in Nat, NEW b \in Nat
    PROVE  /\ IsFiniteSet({g \in missing : a <= g /\ g < b})
           /\ MissingIn(a, b) \in Nat
<1> DEFINE M == {g \in missing : a <= g /\ g < b}
<1>1. IsFiniteSet(a .. b) /\ M \subseteq a .. b
  <2>1. \A g \in Nat : a <= g /\ g < b => g \in a .. b
    OBVIOUS
  <2>2. \A g \in M : g \in Nat /\ a <= g /\ g < b
    OBVIOUS
  <2>3. IsFiniteSet(a .. b)
    BY FS_Interval
  <2> HIDE DEF M
  <2> QED BY <2>1, <2>2, <2>3
<1> HIDE DEF M
<1>2. IsFiniteSet(M) /\ Cardinality(M) \in Nat
  BY <1>1, FS_Subset, FS_CardinalityType
<1> QED BY <1>2 DEF M, MissingIn

\* n samples more are missing: no count up to now changes, and a count up to
\* the next sample grows by n.
LEMMA MissingAcrossGap ==
    ASSUME tick \in Nat, missing \subseteq Nat, \A g \in missing : g < tick,
           NEW n \in Nat, Gap(n), NEW a \in Nat
    PROVE  /\ \A b \in Nat : b <= tick => MissingIn(a, b)' = MissingIn(a, b)
           /\ a <= tick => MissingIn(a, tick)' = MissingIn(a, tick) + n
<1>1. tick' = tick + n /\ missing' = missing \cup (tick .. tick + n - 1)
  BY DEF Gap
<1>2. ASSUME NEW b \in Nat, b <= tick PROVE MissingIn(a, b)' = MissingIn(a, b)
  <2>1. {g \in missing' : a <= g /\ g < b} = {g \in missing : a <= g /\ g < b}
    BY <1>1, <1>2
  <2> QED BY <2>1 DEF MissingIn
<1>3. ASSUME a <= tick PROVE MissingIn(a, tick)' = MissingIn(a, tick) + n
  <2> DEFINE M == {g \in missing : a <= g /\ g < tick}
             W == tick .. tick + n - 1
  <2>1. {g \in missing' : a <= g /\ g < tick'} = M \cup W
    <3>1. \A g \in missing : g \in Nat /\ g < tick /\ g < tick + n
      OBVIOUS
    <3>2. \A g \in W : a <= g /\ g < tick + n
      BY <1>3
    <3> HIDE DEF W
    <3>3. missing' = missing \cup W /\ tick' = tick + n
      BY <1>1 DEF W
    <3> QED BY <3>1, <3>2, <3>3
  <2>2. M \cap W = {}
    OBVIOUS
  <2>3. IsFiniteSet(M) /\ Cardinality(M) \in Nat
    BY MissingCount, FS_CardinalityType
  <2>4. IsFiniteSet(W) /\ Cardinality(W) = n
    <3>1. /\ IsFiniteSet(W)
          /\ Cardinality(W) = IF tick > tick + n - 1 THEN 0 ELSE tick + n - 1 - tick + 1
      BY FS_Interval
    <3> QED BY <3>1
  <2> HIDE DEF M, W
  <2>5. Cardinality(M \cup W) = Cardinality(M) + Cardinality(W) - Cardinality(M \cap W)
    BY <2>3, <2>4, FS_Union
  <2>6. Cardinality(M \cap W) = 0
    BY <2>2, FS_EmptySet
  <2>7. Cardinality(M \cup W) = Cardinality(M) + n
    BY <2>3, <2>4, <2>5, <2>6
  <2> QED BY <2>1, <2>7 DEF MissingIn, M
<1> QED BY <1>2, <1>3

\* n samples are missing; what was heard keeps its place.
LEMMA HeardAcrossGap ==
    ASSUME TypeOK, HeardOK, NEW n \in Nat, Gap(n), UNCHANGED << chan, heard >>
    PROVE  HeardOK'
<1>1. /\ tick' = tick + n /\ missing' = missing \cup (tick .. tick + n - 1)
      /\ tick \in Nat /\ missing \subseteq Nat
      /\ \A g \in missing : g < tick
      /\ \A k \in 1 .. Len(heard) : heard[k] < tick /\ heard[k] \in Nat
  BY HeardTypes DEF Gap, HeardOK
<1>2. \A g \in missing' : g < tick'
  BY <1>1
<1>3. \A k \in 1 .. Len(heard') : heard'[k] < tick'
  BY <1>1
<1>4. ASSUME NEW c \in Channels PROVE ClockTrue(c)'
  <2> SUFFICES ASSUME chan[c].time # None PROVE ClockTrue(c)'
    BY DEF ClockTrue
  <2>1. PICK t \in Nat : t = chan[c].time
    BY ClockType
  <2>2. /\ t <= tick
        /\ tick = t + Len(heard) + MissingIn(t, tick)
        /\ \A k \in 1 .. Len(heard) : heard[k] = t + k - 1 + MissingIn(t, heard[k])
    BY <2>1 DEF HeardOK
  <2>3. Len(heard) \in Nat /\ MissingIn(t, tick) \in Nat
    BY <1>1, HeardTypes, MissingCount
  <2>4. MissingIn(t, tick)' = MissingIn(t, tick) + n
    BY <1>1, <2>2, MissingAcrossGap
  <2>5. t <= tick' /\ tick' = t + Len(heard) + MissingIn(t, tick)'
    BY <1>1, <2>2, <2>3, <2>4
  <2>6. ASSUME NEW k \in 1 .. Len(heard)
        PROVE  heard'[k] = t + k - 1 + MissingIn(t, heard[k])'
    <3>1. PICK x \in Nat : x = heard[k] /\ x <= tick
      BY <1>1
    <3>2. MissingIn(t, x)' = MissingIn(t, x)
      BY <1>1, <3>1, MissingAcrossGap
    <3>3. MissingIn(t, heard[k])' = MissingIn(t, x)'
      BY <3>1 DEF MissingIn
    <3> QED BY <2>2, <3>1, <3>2, <3>3
  <2>7. chan'[c].time = t /\ heard' = heard
    BY <2>1
  <2> QED BY <2>5, <2>6, <2>7 DEF ClockTrue, MissingIn
<1> QED BY <1>2, <1>3, <1>4 DEF HeardOK, ClockTrue

\* A sample is read.
LEMMA HeardAcrossData ==
    ASSUME TypeOK, OneClock, HeardOK, DataFrame
    PROVE  HeardOK'
<1>1. /\ tick' = tick + 1 /\ UNCHANGED << missing, chan >>
      /\ heard' = IF chan[0].time # None THEN Append(heard, tick) ELSE heard
      /\ tick \in Nat /\ heard \in Seq(Nat) /\ Len(heard) \in Nat
      /\ missing \subseteq Nat
      /\ \A g \in missing : g < tick
      /\ \A k \in 1 .. Len(heard) : heard[k] < tick /\ heard[k] \in Nat
  BY HeardTypes DEF DataFrame, output, HeardOK, TypeOK
<1>2. /\ \A k \in 1 .. Len(heard') : heard'[k] < tick'
      /\ \A k \in 1 .. Len(heard) : heard'[k] = heard[k]
      /\ chan[0].time # None => Len(heard') = Len(heard) + 1 /\ heard'[Len(heard) + 1] = tick
  <2>1. CASE chan[0].time # None
    <3>1. /\ Len(heard') = Len(heard) + 1
          /\ \A k \in 1 .. Len(heard) : heard'[k] = heard[k]
          /\ heard'[Len(heard) + 1] = tick
      BY <1>1, <2>1, AppendProperties
    <3> QED BY <1>1, <2>1, <3>1
  <2>2. CASE chan[0].time = None
    BY <1>1, <2>2
  <2> QED BY <2>1, <2>2
<1>3. ASSUME NEW c \in Channels PROVE ClockTrue(c)'
  <2> SUFFICES ASSUME chan[c].time # None PROVE ClockTrue(c)'
    BY <1>1 DEF ClockTrue
  <2>1. PICK t \in Nat : t = chan[c].time
    BY ClockType
  <2>2. /\ t <= tick
        /\ tick = t + Len(heard) + MissingIn(t, tick)
        /\ \A k \in 1 .. Len(heard) : heard[k] = t + k - 1 + MissingIn(t, heard[k])
    BY <2>1 DEF HeardOK
  <2>3. Len(heard') = Len(heard) + 1 /\ heard'[Len(heard) + 1] = tick
    BY <1>2, ChannelZero DEF OneClock
  <2>4. MissingIn(t, tick') = MissingIn(t, tick) /\ MissingIn(t, tick) \in Nat
    <3>1. \A g \in missing : g < tick /\ g < tick'
      BY <1>1
    <3>2. {g \in missing : t <= g /\ g < tick'} = {g \in missing : t <= g /\ g < tick}
      BY <3>1
    <3> QED BY <1>1, <3>2, MissingCount DEF MissingIn
  <2>5. tick' = t + Len(heard') + MissingIn(t, tick')
    BY <1>1, <2>2, <2>3, <2>4
  <2>6. ASSUME NEW k \in 1 .. Len(heard')
        PROVE  heard'[k] = t + k - 1 + MissingIn(t, heard'[k])
    <3>1. CASE k \in 1 .. Len(heard)
      BY <1>2, <2>2, <3>1
    <3>2. CASE k = Len(heard) + 1
      <4>1. t + k - 1 + MissingIn(t, tick) = tick
        BY <1>1, <2>2, <2>4, <3>2
      <4> QED BY <2>3, <3>2, <4>1
    <3> QED BY <1>1, <2>3, <3>1, <3>2
  <2>7. chan'[c].time = t /\ missing' = missing
    BY <1>1, <2>1
  <2>8. t <= tick'
    BY <1>1, <2>2
  <2> QED BY <2>5, <2>6, <2>7, <2>8 DEF ClockTrue, MissingIn
<1>4. \A g \in missing' : g < tick'
  BY <1>1
<1> QED BY <1>2, <1>3, <1>4 DEF HeardOK, ClockTrue

LEMMA HeardStep == IInv /\ [Next]_vars => HeardOK'
<1> SUFFICES ASSUME IInv, [Next]_vars PROVE HeardOK'
  OBVIOUS
<1>1. TypeOK /\ OneClock /\ HeardOK
  BY InvParts
<1>2. ASSUME UNCHANGED << tick, missing, heard >>, ~ SetClocks PROVE HeardOK'
  <2>1. \A c \in Channels : chan'[c].time = chan[c].time
    BY <1>2, TimesKept
  <2> QED BY <1>1, <1>2, <2>1 DEF HeardOK, MissingIn
<1>3. CASE Timestamp
  <2>1. UNCHANGED << tick, missing, heard >>
    BY <1>3 DEF Timestamp, history
  <2>2. CASE SetClocks
    <3>1. /\ tick \in Nat /\ heard = << >> /\ \A g \in missing : g < tick
          /\ missing \subseteq Nat
      BY <2>2, InvParts, HeardTypes DEF SetClocks, CountOK, HeardOK
    <3>2. Len(heard) = 0
      BY <3>1, EmptySeq
    <3>3. \A c \in Channels : chan'[c].time = tick
      <4>1. \A c \in Channels : chan[c] \in Channel
        BY <1>1, ClockType
      <4> QED BY <2>2, <4>1 DEF SetClocks, SetTime, Channel
    <3>4. MissingIn(tick, tick) = 0
      <4>1. \A g \in missing : ~ (tick <= g /\ g < tick)
        BY <3>1
      <4> QED BY <4>1, FS_EmptySet DEF MissingIn
    <3>5. MissingIn(tick, tick)' = 0
      BY <2>1, <3>4 DEF MissingIn
    <3>6. /\ \A g \in missing' : g < tick'
          /\ heard' = << >> /\ Len(heard') = 0 /\ tick' = tick
          /\ \A k \in 1 .. Len(heard') : FALSE
      BY <2>1, <3>1, <3>2
    <3>7. ASSUME NEW c \in Channels PROVE ClockTrue(c)'
      <4>1. chan'[c].time = tick /\ tick <= tick /\ tick = tick + 0 + 0
        BY <3>1, <3>3
      <4>2. MissingIn(chan[c].time, tick)' = 0
        BY <3>5, <3>6, <4>1 DEF MissingIn
      <4> QED BY <3>1, <3>6, <4>1, <4>2 DEF ClockTrue
    <3> QED BY <3>6, <3>7 DEF HeardOK, ClockTrue
  <2> QED BY <1>2, <2>1, <2>2
<1>4. CASE DataFrame
  BY <1>1, <1>4, HeardAcrossData
<1>5. CASE \E n \in 0 .. MaxLost : LostFrames(n)
  BY <1>1, <1>5, BoundTypes, HeardAcrossGap DEF LostFrames, output
<1>6. CASE \E gap \in 0 .. MaxGap : FrameNumber(gap)
  BY <1>1, <1>6, BoundTypes, HeardAcrossGap DEF FrameNumber, output
<1>7. CASE \E gap \in 0 .. MaxGap : OtherFrame(gap)
  BY <1>1, <1>7, BoundTypes, HeardAcrossGap DEF OtherFrame, output
<1>8. ASSUME UNCHANGED << tick, missing, heard, chan >> PROVE HeardOK'
  BY <1>1, <1>8 DEF HeardOK, MissingIn
<1>9. CASE EndFrame
  BY <1>8, <1>9 DEF EndFrame, card, history, output
<1>10. CASE ReadError
  BY <1>8, <1>10 DEF ReadError, card, history, output
<1>11. CASE DropBuffer
  BY <1>8, <1>11 DEF DropBuffer, card, history, output
<1>12. CASE FillRecord
  <2>1. UNCHANGED << tick, missing, heard >>
    BY <1>12 DEF FillRecord, card, history
  <2>2. queue # << >>
    BY <1>12 DEF FillRecord
  <2>3. ~ SetClocks
    BY <2>2, InvParts DEF SetClocks, CountOK
  <2> QED BY <1>2, <2>1, <2>3
<1>13. CASE Return
  BY <1>8, <1>13 DEF Return, card, history, output
<1>14. CASE CloseChannel
  <2>1. UNCHANGED chan
    BY <1>14, InvParts, CloseFacts
  <2> QED BY <1>8, <1>14, <2>1 DEF CloseChannel, card, history
<1>15. CASE UNCHANGED vars
  BY <1>8, <1>15 DEF vars, card, history, output
<1> QED
  BY <1>3, <1>4, <1>5, <1>6, <1>7, <1>9, <1>10, <1>11, <1>12, <1>13, <1>14, <1>15
  DEF Next

-----------------------------------------------------------------------------
(***************************************************************************)
(* A channel, its file and what is on the way to it                        *)
(***************************************************************************)

\* The channel and its file stay as they are.
LEMMA SameRecords ==
    ASSUME NEW c \in Channels, ChannelOK(c), UNCHANGED << heard, closed >>,
           chan'[c] = chan[c], file'[c] = file[c]
    PROVE  UntimedOK(c)' /\ RecordsOK(c)' /\ NextOK(c)' /\ ContentOK(c)'
<1>1. UntimedOK(c)'
  BY DEF ChannelOK, UntimedOK
<1>2. RecordsOK(c)'
  BY DEF ChannelOK, RecordsOK, Written, Open, Placed
<1>3. NextOK(c)'
  BY DEF ChannelOK, NextOK, EndsBefore
<1>4. ContentOK(c)'
  BY DEF ChannelOK, ContentOK
<1> QED BY <1>1, <1>2, <1>3, <1>4

LEMMA RestingChannel ==
    ASSUME NEW c \in Channels, ChannelOK(c), Resting
    PROVE  ChannelOK(c)'
<1>1. UntimedOK(c)' /\ RecordsOK(c)' /\ NextOK(c)' /\ ContentOK(c)'
  BY SameRecords DEF Resting
<1>2. PlacesOK(c)'
  BY DEF Resting, ChannelOK, PlacesOK, Slice
<1> QED BY <1>1, <1>2 DEF ChannelOK

LEMMA FlushingChannel ==
    ASSUME NEW c \in Channels, ChannelOK(c), TypeOK, OneClock, Flushing
    PROVE  ChannelOK(c)'
<1>1. UntimedOK(c)' /\ RecordsOK(c)' /\ NextOK(c)' /\ ContentOK(c)'
  BY SameRecords DEF Flushing
<1>2. PlacesOK(c)'
  <2> SUFFICES ASSUME chan[c].time # None PROVE PlacesOK(c)'
    BY DEF PlacesOK, Flushing
  <2>1. /\ Slice(c) = << >> /\ Slice(c)' = buffer[c] /\ buffer'[c] = << >>
        /\ UNCHANGED << chan, heard >>
    BY FlushFacts, NothingWaits DEF Flushing
  <2>2. /\ chan[c].offset + Len(Slice(c)) + Len(buffer[c]) = Len(heard)
        /\ \A j \in 1 .. Len(buffer[c]) :
               buffer[c][j] = heard[chan[c].offset + Len(Slice(c)) + j]
    BY DEF ChannelOK, PlacesOK
  <2>3. /\ Len(<< >>) = 0 /\ chan[c].offset \in Nat /\ Len(buffer[c]) \in Nat
    <3>1. buffer[c] \in Seq(Nat)
      BY DEF TypeOK
    <3> QED BY <3>1, ClockType, EmptySeq, LenProperties
  <2>4. chan[c].offset + Len(Slice(c))' + Len(buffer'[c]) = Len(heard)
    BY <2>1, <2>2, <2>3
  <2>5. \A j \in 1 .. Len(Slice(c))' : Slice(c)'[j] = heard[chan[c].offset + j]
    BY <2>1, <2>2, <2>3
  <2>6. \A j \in 1 .. Len(buffer'[c]) :
            buffer'[c][j] = heard[chan[c].offset + Len(Slice(c))' + j]
    BY <2>1, <2>3
  <2> QED BY <2>1, <2>4, <2>5, <2>6 DEF PlacesOK
<1> QED BY <1>1, <1>2 DEF ChannelOK

\* The clocks are set before anything was read.
LEMMA SetClocksChannel ==
    ASSUME NEW c \in Channels, ChannelOK(c), TypeOK, PhaseOK, CountOK, SetClocks
    PROVE  ChannelOK(c)'
<1>1. /\ queue' = << >> /\ heard' = << >> /\ buffer'[c] = << >> /\ file'[c] = << >>
      /\ file[c] = << >> /\ chan[c].record = None /\ closed' = closed /\ tick \in Nat
  BY DEF CountOK, SetClocks, TypeOK
<1>2. /\ chan'[c].time = tick /\ chan'[c].offset = 0 /\ chan'[c].record = None
      /\ chan'[c].next = chan[c].next
  <2>1. chan[c] \in Channel
    BY ClockType
  <2> QED BY <1>1, <2>1 DEF SetClocks, SetTime, Channel
<1>3. /\ Slice(c)' = << >> /\ Len(<< >>) = 0
      /\ (\A x : x \notin Written(c)') /\ (\A x : x \notin Open(c)')
  <2>1. Len(<< >>) = 0
    BY EmptySeq
  <2>2. Slice(c)' = << >>
    BY <1>1, <2>1, ChannelRange DEF Slice
  <2> QED BY <1>1, <1>2, <2>1, <2>2 DEF Written, Open
<1>4. UntimedOK(c)'
  BY <1>1, <1>2 DEF UntimedOK
<1>5. PlacesOK(c)'
  BY <1>1, <1>2, <1>3 DEF PlacesOK
<1>6. RecordsOK(c)'
  BY <1>3 DEF RecordsOK
<1>7. NextOK(c)'
  BY <1>1, <1>2 DEF ChannelOK, NextOK, EndsBefore
<1>8. ContentOK(c)'
  <2>1. Content(file'[c]) = << >> /\ Started(chan'[c]) = << >>
    BY <1>1, <1>2, ContentEmpty DEF Started
  <2>2. << >> \o << >> = << >> /\ SubSeq(<< >>, 1, 0) = << >>
    BY ConcatEmptySeq, EmptySeq, SubSeqEmpty
  <2> QED BY <1>1, <1>2, <2>1, <2>2 DEF ContentOK
<1> QED BY <1>4, <1>5, <1>6, <1>7, <1>8 DEF ChannelOK

\* Without a clock a channel drops its slice.
LEMMA DropChannel ==
    ASSUME NEW c \in Channels, ChannelOK(c), TypeOK, OneClock, QueueOK, DropBuffer
    PROVE  ChannelOK(c)'
<1>1. UNCHANGED << chan, file, heard, closed >>
  BY DEF DropBuffer, output, history
<1>2. UntimedOK(c)' /\ RecordsOK(c)' /\ NextOK(c)' /\ ContentOK(c)'
  BY <1>1, SameRecords
<1>3. chan[c].time = None
  <2>1. queue \in Slices /\ queue # << >>
    BY DEF DropBuffer, TypeOK, Slices
  <2>2. Head(queue).channel \in Channels /\ chan[Head(queue).channel].time = None
    BY <2>1, HeadFacts DEF DropBuffer
  <2> QED BY <2>2 DEF OneClock
<1>4. PlacesOK(c)'
  BY <1>1, <1>3 DEF PlacesOK
<1> QED BY <1>2, <1>4 DEF ChannelOK

LEMMA RecordTypes ==
    ASSUME TypeOK, NEW c \in Channels
    PROVE  /\ file[c] \in Seq(Record) /\ Len(file[c]) \in Nat
           /\ \A r \in Written(c) \cup Open(c) :
                  r \in Record /\ r.start \in Nat /\ r.samples \in Seq(Nat)
                  /\ Len(r.samples) \in Nat
           /\ Started(chan[c]) \in Seq(Nat) /\ Len(Started(chan[c])) \in Nat
           /\ buffer[c] \in Seq(Nat) /\ Len(buffer[c]) \in Nat
           /\ heard \in Seq(Nat) /\ Len(heard) \in Nat
           /\ Content(file[c]) \in Seq(Nat)
<1>1. file[c] \in Seq(Record) /\ buffer[c] \in Seq(Nat) /\ heard \in Seq(Nat)
  BY DEF TypeOK
<1>2. Len(file[c]) \in Nat /\ Len(buffer[c]) \in Nat /\ Len(heard) \in Nat
  BY <1>1, LenProperties
<1>3. Started(chan[c]) \in Seq(Nat) /\ (chan[c].record # None => chan[c].record \in Record)
  BY ClockType, StartedType
<1>4. ASSUME NEW r \in Written(c) \cup Open(c)
      PROVE  r \in Record /\ r.start \in Nat /\ r.samples \in Seq(Nat)
  <2>1. r \in Record
    BY <1>1, <1>3, ElementOfSeq DEF Written, Open
  <2> QED BY <2>1 DEF Record
<1> QED BY <1>1, <1>2, <1>3, <1>4, LenProperties, BlocksType

LEMMA SliceType ==
    ASSUME queue \in Slices, QueueOK, NEW c \in Channels
    PROVE  Slice(c) \in Seq(Nat) /\ Len(Slice(c)) \in Nat /\ Len(Slice(c)) <= BufferLen
<1>1. CASE c < NChannels - Len(queue)
  BY <1>1, EmptySeq, FastAssumption DEF Slice
<1>2. CASE ~ (c < NChannels - Len(queue))
  <2>1. PICK i \in 1 .. Len(queue) : i = c - NChannels + Len(queue) + 1
    BY <1>2, QueueElements, ChannelRange
  <2>2. Slice(c) = queue[i].samples
    BY <1>2, <2>1 DEF Slice
  <2>3. queue[i].samples \in Seq(Nat) /\ Len(queue[i].samples) <= BufferLen
    BY QueueElements DEF QueueOK
  <2> QED BY <2>2, <2>3, LenProperties
<1> QED BY <1>1, <1>2

\* A sample is read: it comes after all that the channel has.
LEMMA DataChannel ==
    ASSUME NEW c \in Channels, IInv, DataFrame
    PROVE  ChannelOK(c)'
<1>1. /\ TypeOK /\ OneClock /\ PhaseOK /\ ChannelOK(c)
  BY DEF IInv
<1>2. /\ queue = << >> /\ UNCHANGED << chan, file, closed >> /\ closed = 0
      /\ heard' = IF chan[c].time # None THEN Append(heard, tick) ELSE heard
      /\ tick \in Nat
  <2>1. chan[0].time = chan[c].time
    BY <1>1, ChannelZero DEF OneClock
  <2> QED BY <1>1, <2>1 DEF DataFrame, NextFrame, output, PhaseOK, TypeOK
<1>3. CASE chan[c].time = None
  <2>1. UntimedOK(c)' /\ RecordsOK(c)' /\ NextOK(c)' /\ ContentOK(c)'
    BY <1>1, <1>2, <1>3, SameRecords
  <2>2. PlacesOK(c)'
    BY <1>2, <1>3 DEF PlacesOK
  <2> QED BY <2>1, <2>2 DEF ChannelOK
<1>4. CASE chan[c].time # None
  <2>1. /\ heard \in Seq(Nat) /\ Len(heard) \in Nat
        /\ Len(heard') = Len(heard) + 1
        /\ \A k \in 1 .. Len(heard) : heard'[k] = heard[k]
        /\ heard'[Len(heard) + 1] = tick /\ heard' \in Seq(Nat)
    BY <1>1, <1>2, <1>4, RecordTypes, AppendProperties
  <2> DEFINE o == chan[c].offset
             n == Len(buffer[c])
  <2>2. /\ o \in Nat /\ chan[c].time \in Nat /\ n \in Nat
    BY <1>1, <1>4, ClockType, RecordTypes
  <2>3. /\ Slice(c) = << >> /\ Len(<< >>) = 0
        /\ o + n = Len(heard)
        /\ \A j \in 1 .. n : buffer[c][j] = heard[o + j]
    <3>1. Slice(c) = << >> /\ Len(<< >>) = 0
      BY <1>2, NothingWaits, EmptySeq
    <3>2. /\ o + Len(Slice(c)) + n = Len(heard)
          /\ \A j \in 1 .. n : buffer[c][j] = heard[o + Len(Slice(c)) + j]
      BY <1>1, <1>4 DEF ChannelOK, PlacesOK
    <3>3. o + Len(Slice(c)) = o
      BY <2>2, <3>1
    <3> QED BY <3>1, <3>2, <3>3
  <2>4. UntimedOK(c)'
    BY <1>2, <1>4 DEF UntimedOK
  <2>5. RecordsOK(c)'
    <3> SUFFICES ASSUME NEW r \in Written(c) \cup Open(c) PROVE Placed(r, c)'
      BY <1>2 DEF RecordsOK, Written, Open
    <3>1. Placed(r, c) /\ r.start \in Nat /\ Len(r.samples) \in Nat
      BY <1>1, RecordTypes DEF ChannelOK, RecordsOK
    <3>2. ASSUME NEW i \in 1 .. Len(r.samples)
          PROVE  r.samples[i] = heard'[r.start - chan[c].time + i]
      <4>1. r.start - chan[c].time + i \in 1 .. Len(heard)
        <5> DEFINE t == chan[c].time
                   m == Len(r.samples)
        <5>1. t <= r.start /\ r.start + m <= t + o
          BY <3>1 DEF Placed
        <5>2. /\ t \in Nat /\ m \in Nat /\ r.start \in Nat /\ o \in Nat /\ n \in Nat
              /\ i \in 1 .. m
          BY <2>2, <3>1
        <5>3. o + n = Len(heard) /\ Len(heard) \in Nat
          BY <2>1, <2>3
        <5> HIDE DEF o, n, t, m
        <5>4. r.start - t + i \in 1 .. Len(heard)
          BY <5>1, <5>2, <5>3
        <5> QED BY <5>4 DEF t
      <4> QED BY <2>1, <3>1, <4>1 DEF Placed
    <3> QED BY <1>2, <3>1, <3>2 DEF Placed
  <2>6. NextOK(c)'
    BY <1>1, <1>2 DEF ChannelOK, NextOK, EndsBefore
  <2>7. ContentOK(c)'
    <3>1. SubSeq(heard', 1, o) = SubSeq(heard, 1, o)
      <4>1. \A i \in 1 .. o : heard[i] \in Nat /\ heard'[i] = heard[i]
        BY <2>1, <2>2, <2>3, ElementOfSeq
      <4>2. o \in Int /\ 1 \in Int /\ \A i \in 1 .. o : heard'[i] \in Nat
        BY <2>2, <4>1
      <4>3. /\ SubSeq(heard, 1, o) \in Seq(Nat)
            /\ Len(SubSeq(heard, 1, o)) = IF 1 <= o THEN o - 1 + 1 ELSE 0
            /\ \A i \in 1 .. o - 1 + 1 : SubSeq(heard, 1, o)[i] = heard[1 + i - 1]
        BY <4>1, <4>2, SubSeqProperties
      <4>4. /\ SubSeq(heard', 1, o) \in Seq(Nat)
            /\ Len(SubSeq(heard', 1, o)) = IF 1 <= o THEN o - 1 + 1 ELSE 0
            /\ \A i \in 1 .. o - 1 + 1 : SubSeq(heard', 1, o)[i] = heard'[1 + i - 1]
        BY <4>2, SubSeqProperties
      <4>5. \A i \in 1 .. Len(SubSeq(heard, 1, o)) :
                SubSeq(heard, 1, o)[i] = SubSeq(heard', 1, o)[i]
        BY <2>2, <4>1, <4>3, <4>4
      <4> QED BY <4>3, <4>4, <4>5, SeqEqual
    <3>2. ~ (c < closed)
      BY <1>2, ChannelRange
    <3> QED BY <1>1, <1>2, <1>4, <3>1, <3>2 DEF ChannelOK, ContentOK
  <2>8. PlacesOK(c)'
    <3> DEFINE b == More(c)
    <3>1. /\ Len(b) = n + 1 /\ b[n + 1] = tick
          /\ \A i \in 1 .. n : b[i] = buffer[c][i]
          /\ \/ Slice(c)' = << >> /\ buffer'[c] = b
             \/ Slice(c)' = b /\ buffer'[c] = << >>
      BY <1>1, DataFacts
    <3> HIDE DEF b, n, o
    <3>2. ASSUME NEW j \in 1 .. Len(b) PROVE b[j] = heard'[o + j]
      <4>1. CASE j \in 1 .. n
        <5>1. b[j] = heard[o + j] /\ o + j \in 1 .. Len(heard)
          BY <2>2, <2>3, <3>1, <4>1
        <5> QED BY <2>1, <5>1
      <4>2. CASE j = n + 1
        BY <2>1, <2>2, <2>3, <3>1, <4>2
      <4> QED BY <2>2, <3>1, <4>1, <4>2
    <3>3. chan'[c].offset = o
      BY <1>2 DEF o
    <3>4. o + Len(b) = Len(heard')
      BY <2>1, <2>2, <2>3, <3>1
    <3>5. CASE Slice(c)' = << >> /\ buffer'[c] = b
      <4>1. Len(Slice(c)') = 0 /\ o + 0 = o /\ o + 0 + Len(b) = o + Len(b)
        BY <2>2, <2>3, <3>5
      <4> QED BY <3>2, <3>3, <3>4, <3>5, <4>1 DEF PlacesOK
    <3>6. CASE Slice(c)' = b /\ buffer'[c] = << >>
      <4>1. Len(buffer'[c]) = 0 /\ o + Len(b) + 0 = o + Len(b)
        BY <2>2, <2>3, <3>1, <3>6
      <4> QED BY <3>2, <3>3, <3>4, <3>6, <4>1 DEF PlacesOK
    <3> QED BY <3>1, <3>5, <3>6
  <2> QED BY <2>4, <2>5, <2>6, <2>7, <2>8 DEF ChannelOK
<1> QED BY <1>3, <1>4

\* The record that channel c fills: it goes on where the clock of the channel is.
LEMMA FilledRecord ==
    ASSUME NEW c \in Channels, IInv, closed = 0, NEW n \in Nat, NEW r \in Record,
           Filled(c, n, r), chan[c].time # None, UNCHANGED heard
    PROVE  /\ Placed(r, c)'
           /\ r.start + Len(r.samples) = Clock(chan'[c])
           /\ r.seq = Len(file[c]) + 1
           /\ chan'[c].next = Len(file[c]) + 2
           /\ EndsBefore(c, r.start)
<1>1. /\ TypeOK /\ QueueOK /\ PlacesOK(c) /\ RecordsOK(c) /\ NextOK(c) /\ closed <= c
  BY InvParts, ChannelRange
<1>2. PICK t \in Nat, o \in Nat, m \in Nat :
          t = chan[c].time /\ o = chan[c].offset /\ m = Len(Started(chan[c]))
  BY <1>1, ClockType, RecordTypes
<1>3. PICK S \in Seq(Nat) : S = Slice(c) /\ Len(S) \in Nat
  BY <1>1, SliceType DEF TypeOK, Slices
<1>4. /\ n \in 1 .. Len(S) /\ r.samples = Started(chan[c]) \o SubSeq(S, 1, n)
      /\ Len(r.samples) = m + n /\ m + n <= Capacity /\ r.start \in Nat
      /\ chan'[c].time = t /\ chan'[c].offset = o + n
  BY <1>2, <1>3 DEF Filled, Record
<1>5. /\ o + Len(S) <= Len(heard) /\ Len(heard) \in Nat
      /\ \A j \in 1 .. Len(S) : S[j] = heard[o + j]
  <2>1. /\ o + Len(S) + Len(buffer[c]) = Len(heard)
        /\ \A j \in 1 .. Len(S) : S[j] = heard[o + j]
    BY <1>1, <1>2, <1>3 DEF PlacesOK
  <2>2. Len(heard) \in Nat /\ Len(buffer[c]) \in Nat
    BY <1>1, RecordTypes
  <2>3. o + Len(S) <= Len(heard)
    BY <1>2, <1>3, <2>1, <2>2
  <2> QED BY <2>1, <2>2, <2>3
<1>6. /\ r.start + m = t + o /\ t <= r.start
      /\ \A i \in 1 .. m : Started(chan[c])[i] = heard[r.start - t + i]
      /\ r.seq = Len(file[c]) + 1 /\ chan'[c].next = Len(file[c]) + 2
      /\ EndsBefore(c, r.start)
  <2>1. CASE chan[c].record = None
    <3>1. r.start = t + o /\ m = 0
      BY <1>2, <2>1, EmptySeq DEF Filled, Clock, Started
    <3>2. chan[c].next = Len(file[c]) + 1 /\ EndsBefore(c, r.start)
      BY <1>1, <2>1 DEF NextOK, Filled
    <3>3. /\ r.seq = chan[c].next /\ chan'[c].next = chan[c].next + 1
      BY <2>1 DEF Filled
    <3>4. Len(file[c]) \in Nat
      BY <1>1, RecordTypes
    <3>5. chan'[c].next = Len(file[c]) + 2
      BY <3>2, <3>3, <3>4
    <3> QED BY <1>2, <3>1, <3>2, <3>3, <3>5
  <2>2. CASE chan[c].record # None
    <3>1. Started(chan[c]) = chan[c].record.samples /\ r.start = chan[c].record.start
      BY <2>2 DEF Started, Filled
    <3>2. /\ chan[c].next = Len(file[c]) + 2 /\ chan[c].record.seq = Len(file[c]) + 1
          /\ r.start + m = t + o
          /\ EndsBefore(c, r.start)
      BY <1>1, <1>2, <2>2, <3>1 DEF NextOK, Clock
    <3>3. Placed(chan[c].record, c)
      BY <1>1, <2>2 DEF RecordsOK, Open
    <3>4. t <= r.start /\ \A i \in 1 .. m : Started(chan[c])[i] = heard[r.start - t + i]
      BY <1>2, <3>1, <3>3 DEF Placed
    <3>5. r.seq = chan[c].record.seq /\ chan'[c].next = chan[c].next
      BY <2>2 DEF Filled
    <3> QED BY <3>2, <3>4, <3>5
  <2> QED BY <2>1, <2>2
<1>7. PICK s \in Nat : s = r.start
  BY <1>4
<1>8. /\ n \in 1 .. Len(S) /\ Len(S) \in Nat /\ o \in Nat /\ m \in Nat /\ t \in Nat
      /\ s \in Nat /\ s + m = t + o /\ m + n <= Capacity
  BY <1>2, <1>3, <1>4, <1>6, <1>7
<1>9. ASSUME NEW i \in 1 .. m + n PROVE r.samples[i] = heard[r.start - t + i]
  <2>1. /\ Started(chan[c]) \in Seq(Nat) /\ SubSeq(S, 1, n) \in Seq(Nat)
        /\ Len(SubSeq(S, 1, n)) = n
        /\ \A j \in 1 .. n : SubSeq(S, 1, n)[j] = S[j]
    <3>1. n \in Int /\ 1 \in Int /\ \A j \in 1 .. n : S[j] \in Nat
      BY <1>3, <1>4, ElementOfSeq
    <3>2. /\ SubSeq(S, 1, n) \in Seq(Nat)
          /\ Len(SubSeq(S, 1, n)) = IF 1 <= n THEN n - 1 + 1 ELSE 0
          /\ \A j \in 1 .. n - 1 + 1 : SubSeq(S, 1, n)[j] = S[1 + j - 1]
      BY <3>1, SubSeqProperties
    <3>3. Len(SubSeq(S, 1, n)) = n
      BY <1>4, <3>2
    <3>4. \A j \in 1 .. n : SubSeq(S, 1, n)[j] = S[j]
      BY <3>2
    <3>5. Started(chan[c]) \in Seq(Nat)
      BY <1>1, RecordTypes
    <3> QED BY <3>2, <3>3, <3>4, <3>5
  <2>2. r.samples[i] = IF i <= m THEN Started(chan[c])[i] ELSE SubSeq(S, 1, n)[i - m]
    BY <1>2, <1>4, <2>1, ConcatProperties
  <2>3. CASE i <= m
    BY <1>2, <1>6, <2>2, <2>3
  <2>4. CASE ~ (i <= m)
    <3>1. PICK j \in 1 .. n : j = i - m
      BY <1>9, <1>8, <2>4
    <3>2. r.samples[i] = S[j] /\ S[j] = heard[o + j]
      <4>1. j \in 1 .. Len(S)
        BY <1>3, <1>4, <3>1
      <4> QED BY <1>5, <2>1, <2>2, <2>4, <3>1, <4>1
    <3>3. o + j = s - t + i
      BY <1>9, <1>8, <3>1
    <3> QED BY <1>7, <3>2, <3>3
  <2> QED BY <2>3, <2>4
<1>10. r.start + Len(r.samples) = t + (o + n) /\ Len(r.samples) \in 1 .. Capacity
  <2>1. s + (m + n) = t + (o + n) /\ m + n \in 1 .. Capacity
    BY <1>8, CapacityAssumption
  <2> QED BY <1>4, <1>7, <2>1
<1>11. Placed(r, c)'
  <2>1. t # None
    BY <1>2
  <2>2. r.start + Len(r.samples) <= t + (o + n)
    BY <1>2, <1>3, <1>4, <1>10
  <2> QED BY <1>4, <1>6, <1>9, <1>10, <2>1, <2>2 DEF Placed
<1> QED BY <1>4, <1>6, <1>10, <1>11 DEF Clock

\* The samples in the file and in the open record after that.
LEMMA FilledContent ==
    ASSUME NEW c \in Channels, IInv, closed = 0, NEW n \in Nat, NEW r \in Record,
           Filled(c, n, r), chan[c].time # None, UNCHANGED heard
    PROVE  Content(file'[c]) \o Started(chan'[c]) = SubSeq(heard, 1, chan'[c].offset)
<1>1. TypeOK /\ QueueOK /\ PlacesOK(c) /\ ContentOK(c) /\ ~ (c < closed)
  BY InvParts, ChannelRange
<1>2. PICK o \in Nat, S \in Seq(Nat), T \in Seq(Nat), F \in Seq(Nat) :
          /\ o = chan[c].offset /\ S = Slice(c) /\ Len(S) \in Nat
          /\ T = Started(chan[c]) /\ F = Content(file[c])
  BY <1>1, ClockType, RecordTypes, SliceType DEF TypeOK, Slices
<1>3. /\ n \in 1 .. Len(S) /\ r.samples = T \o SubSeq(S, 1, n)
      /\ chan'[c].offset = o + n
  BY <1>2 DEF Filled
<1>4. /\ heard \in Seq(Nat) /\ Len(heard) \in Nat /\ o + Len(S) <= Len(heard)
      /\ \A j \in 1 .. Len(S) : S[j] = heard[o + j]
  <2>1. /\ o + Len(S) + Len(buffer[c]) = Len(heard)
        /\ \A j \in 1 .. Len(S) : S[j] = heard[o + j]
    BY <1>1, <1>2 DEF PlacesOK
  <2>2. heard \in Seq(Nat) /\ Len(heard) \in Nat /\ Len(buffer[c]) \in Nat
    BY <1>1, RecordTypes
  <2>3. o + Len(S) <= Len(heard)
    BY <1>2, <2>1, <2>2
  <2> QED BY <2>1, <2>2, <2>3
<1>5. /\ n \in 1 .. Len(S) /\ Len(S) \in Nat /\ o \in Nat
      /\ Len(heard) \in Nat /\ o + Len(S) <= Len(heard)
  BY <1>2, <1>3, <1>4
<1>6. F \o T = SubSeq(heard, 1, o)
  BY <1>1, <1>2 DEF ContentOK
<1> DEFINE X == SubSeq(S, 1, n)
<1>7. X \in Seq(Nat) /\ X = SubSeq(heard, o + 1, o + n)
  <2>1. /\ n \in Int /\ 1 \in Int /\ o + 1 \in Int /\ o + n \in Int
        /\ \A j \in 1 .. n : S[j] \in Nat
    BY <1>2, <1>3, ElementOfSeq
  <2>2. \A j \in o + 1 .. o + n : heard[j] \in Nat
    <3>1. \A j \in o + 1 .. o + n : j \in 1 .. Len(heard)
      BY <1>5
    <3> QED BY <1>4, <3>1, ElementOfSeq
  <2>3. /\ X \in Seq(Nat) /\ Len(X) = IF 1 <= n THEN n - 1 + 1 ELSE 0
        /\ \A j \in 1 .. n - 1 + 1 : X[j] = S[1 + j - 1]
    BY <2>1, SubSeqProperties
  <2> DEFINE Y == SubSeq(heard, o + 1, o + n)
  <2>4. /\ Y \in Seq(Nat)
        /\ Len(Y) = IF o + 1 <= o + n THEN o + n - (o + 1) + 1 ELSE 0
        /\ \A j \in 1 .. o + n - (o + 1) + 1 : Y[j] = heard[o + 1 + j - 1]
    BY <2>1, <2>2, SubSeqProperties
  <2> HIDE DEF X, Y
  <2>5. Len(X) = n /\ Len(Y) = n
    BY <1>5, <2>3, <2>4
  <2>6. ASSUME NEW j \in 1 .. Len(X) PROVE X[j] = Y[j]
    <3>1. X[j] = S[j]
      BY <1>5, <2>3, <2>5, <2>6
    <3>2. Y[j] = heard[o + j]
      BY <1>5, <2>4, <2>5, <2>6
    <3>3. j \in 1 .. Len(S)
      BY <1>5, <2>5, <2>6
    <3> QED BY <1>4, <3>1, <3>2, <3>3
  <2> QED BY <2>3, <2>4, <2>5, <2>6, SeqEqual DEF Y
<1> HIDE DEF X
<1>8. SubSeq(heard, 1, o) \o X = SubSeq(heard, 1, o + n)
  <2>1. 1 \in 1 .. Len(heard) + 1 /\ o \in 1 - 1 .. Len(heard) /\ o + n \in o .. Len(heard)
    BY <1>5
  <2> QED BY <1>4, <1>7, <2>1, ConcatAdjacentSubSeq
<1>9. F \o r.samples = SubSeq(heard, 1, o + n)
  <2>1. F \o (T \o X) = (F \o T) \o X
    <3>1. F \in Seq(Nat) /\ T \in Seq(Nat) /\ X \in Seq(Nat)
      BY <1>7
    <3> QED BY <3>1, ConcatAssociative
  <2> QED BY <1>3, <1>6, <1>8, <2>1 DEF X
<1>10. CASE Len(r.samples) = Capacity
  <2>1. chan'[c].record = None /\ file'[c] = Append(file[c], r)
    BY <1>10 DEF Filled
  <2>2. Content(file'[c]) = F \o r.samples
    BY <1>1, <1>2, <2>1, RecordTypes, ContentAppend
  <2>3. Started(chan'[c]) = << >> /\ F \o r.samples \in Seq(Nat)
    BY <1>2, <2>1, ConcatProperties DEF Started, Record
  <2> QED BY <1>3, <1>9, <2>2, <2>3, ConcatEmptySeq
<1>11. CASE Len(r.samples) # Capacity
  <2>1. chan'[c].record = r /\ file'[c] = file[c] /\ r # None
    BY <1>11, NoneAssumption DEF Filled
  <2>2. Started(chan'[c]) = r.samples
    BY <2>1 DEF Started
  <2> QED BY <1>2, <1>3, <1>9, <2>1, <2>2
<1> QED BY <1>10, <1>11

\* The samples that remain in the slice are those that come next.
LEMMA FilledPlaces ==
    ASSUME NEW c \in Channels, IInv, NEW n \in Nat, NEW r \in Record,
           Filled(c, n, r), chan[c].time # None, UNCHANGED << heard, buffer >>
    PROVE  PlacesOK(c)'
<1>1. TypeOK /\ QueueOK /\ PlacesOK(c)
  BY InvParts
<1>2. PICK o \in Nat, S \in Seq(Nat), b \in Seq(Nat) :
          o = chan[c].offset /\ S = Slice(c) /\ Len(S) \in Nat /\ b = buffer[c]
  BY <1>1, ClockType, RecordTypes, SliceType DEF TypeOK, Slices
<1>3. /\ n \in 1 .. Len(S) /\ chan'[c].offset = o + n /\ chan'[c].time = chan[c].time
      /\ Slice(c)' = SubSeq(S, n + 1, Len(S))
  BY <1>2 DEF Filled
<1>4. /\ o + Len(S) + Len(b) = Len(heard) /\ Len(b) \in Nat
      /\ \A j \in 1 .. Len(S) : S[j] = heard[o + j]
      /\ \A j \in 1 .. Len(b) : b[j] = heard[o + Len(S) + j]
  BY <1>1, <1>2, LenProperties DEF PlacesOK
<1> DEFINE R == SubSeq(S, n + 1, Len(S))
<1>5. Len(R) = Len(S) - n /\ \A j \in 1 .. Len(R) : R[j] = S[n + j]
  <2>1. n + 1 \in Int /\ Len(S) \in Int /\ \A j \in n + 1 .. Len(S) : S[j] \in Nat
    BY <1>2, <1>3, ElementOfSeq
  <2>2. /\ Len(R) = IF n + 1 <= Len(S) THEN Len(S) - (n + 1) + 1 ELSE 0
        /\ \A j \in 1 .. Len(S) - (n + 1) + 1 : R[j] = S[n + 1 + j - 1]
    BY <2>1, SubSeqProperties
  <2> HIDE DEF R
  <2>3. Len(R) = Len(S) - n
    BY <1>2, <1>3, <2>2
  <2>4. ASSUME NEW j \in 1 .. Len(R) PROVE R[j] = S[n + j]
    <3>1. R[j] = S[n + 1 + j - 1] /\ n + 1 + j - 1 = n + j
      BY <1>2, <1>3, <2>2, <2>3
    <3> QED BY <3>1
  <2> QED BY <2>3, <2>4
<1> HIDE DEF R
<1>6. o + n + Len(R) + Len(b) = Len(heard) /\ o + n + Len(R) = o + Len(S)
  BY <1>2, <1>3, <1>4, <1>5
<1>7. ASSUME NEW j \in 1 .. Len(R) PROVE R[j] = heard[o + n + j]
  <2>1. PICK i \in 1 .. Len(S) : i = n + j /\ R[j] = S[i]
    BY <1>2, <1>3, <1>5
  <2>2. o + i = o + n + j
    BY <1>2, <1>3, <1>5, <2>1
  <2> QED BY <1>4, <2>1, <2>2
<1>8. ASSUME NEW j \in 1 .. Len(b) PROVE b[j] = heard[o + n + Len(R) + j]
  BY <1>4, <1>6
<1> QED BY <1>2, <1>3, <1>6, <1>7, <1>8 DEF PlacesOK, R

\* The records and what the next one will be.
LEMMA FilledRecords ==
    ASSUME NEW c \in Channels, IInv, closed = 0, NEW n \in Nat, NEW r \in Record,
           Filled(c, n, r), chan[c].time # None, UNCHANGED << heard, closed >>
    PROVE  RecordsOK(c)' /\ NextOK(c)'
<1>1. /\ TypeOK /\ RecordsOK(c) /\ closed' = 0 /\ Len(file[c]) \in Nat
      /\ file[c] \in Seq(Record)
  BY InvParts, RecordTypes
<1>2. /\ Placed(r, c)'
      /\ r.start + Len(r.samples) = Clock(chan'[c])
      /\ r.seq = Len(file[c]) + 1
      /\ chan'[c].next = Len(file[c]) + 2
      /\ EndsBefore(c, r.start)
  BY FilledRecord
<1>3. ASSUME NEW q \in Written(c) PROVE Placed(q, c)'
  <2>1. Placed(q, c) /\ q.start \in Nat /\ Len(q.samples) \in Nat
    BY <1>1, RecordTypes DEF RecordsOK
  <2>2. PICK t \in Nat, o \in Nat : t = chan[c].time /\ o = chan[c].offset
    BY <1>1, ClockType
  <2>3. /\ chan'[c].time = t /\ chan'[c].offset = o + n
        /\ q.start + Len(q.samples) <= t + o
    BY <2>1, <2>2 DEF Filled, Placed
  <2>4. q.start + Len(q.samples) <= t + (o + n)
    BY <2>1, <2>2, <2>3
  <2> QED BY <2>1, <2>2, <2>3, <2>4 DEF Placed
<1>4. CASE Len(r.samples) = Capacity
  <2>1. chan'[c].record = None /\ file'[c] = Append(file[c], r)
    BY <1>4 DEF Filled
  <2>2. /\ Len(file'[c]) = Len(file[c]) + 1
        /\ \A k \in 1 .. Len(file[c]) : file'[c][k] = file[c][k]
        /\ file'[c][Len(file[c]) + 1] = r
    BY <1>1, <2>1, AppendProperties
  <2>3. ASSUME NEW q \in (Written(c) \cup Open(c))' PROVE Placed(q, c)'
    <3>1. PICK k \in 1 .. Len(file'[c]) : q = file'[c][k]
      BY <2>1 DEF Written, Open
    <3>2. CASE k \in 1 .. Len(file[c])
      BY <1>3, <2>2, <3>1, <3>2 DEF Written
    <3>3. CASE k = Len(file[c]) + 1
      BY <1>2, <2>2, <3>1, <3>3
    <3> QED BY <1>1, <2>2, <3>2, <3>3
  <2>4. chan'[c].next = Len(file'[c]) + 1
    BY <1>1, <1>2, <2>2
  <2>5. file'[c][Len(file'[c])].start + Len(file'[c][Len(file'[c])].samples)
            <= Clock(chan'[c])
    <3>1. /\ r.start \in Nat /\ Len(r.samples) \in Nat
      BY LenProperties DEF Record
    <3> QED BY <1>2, <2>2, <3>1
  <2> QED BY <2>1, <2>3, <2>4, <2>5 DEF RecordsOK, NextOK, EndsBefore
<1>5. CASE Len(r.samples) # Capacity
  <2>1. chan'[c].record = r /\ file'[c] = file[c] /\ r # None
    BY <1>5, NoneAssumption DEF Filled
  <2>2. ASSUME NEW q \in (Written(c) \cup Open(c))' PROVE Placed(q, c)'
    BY <1>2, <1>3, <2>1, <2>2 DEF Written, Open
  <2>3. Len(r.samples) < Capacity
    <3>1. Len(r.samples) \in Nat /\ Len(r.samples) <= Capacity
      BY LenProperties DEF Record, Filled
    <3> QED BY <1>5, <3>1, CapacityAssumption
  <2> QED BY <1>2, <2>1, <2>2, <2>3 DEF RecordsOK, NextOK, EndsBefore
<1> QED BY <1>4, <1>5

LEMMA FillChannel ==
    ASSUME NEW c \in Channels, IInv, FillRecord
    PROVE  ChannelOK(c)'
<1>1. /\ TypeOK /\ QueueOK /\ PhaseOK /\ ChannelOK(c) /\ \A d \in Channels : NextOK(d)
  BY InvParts DEF IInv
<1>2. UNCHANGED << heard, buffer, closed >> /\ closed = 0
  BY <1>1 DEF FillRecord, history, PhaseOK
<1>3. CASE UNCHANGED << queue, output >>
  <2>1. UNCHANGED << chan, file >>
    BY <1>3 DEF output
  <2>2. UntimedOK(c)' /\ RecordsOK(c)' /\ NextOK(c)' /\ ContentOK(c)'
    BY <1>1, <1>2, <2>1, SameRecords
  <2>3. PlacesOK(c)'
    BY <1>1, <1>2, <1>3, <2>1 DEF ChannelOK, PlacesOK, Slice
  <2> QED BY <2>2, <2>3 DEF ChannelOK
<1>4. ASSUME NEW d \in Channels, NEW n \in Nat, NEW r \in Record,
             Filled(d, n, r), chan[d].time # None
      PROVE  ChannelOK(c)'
  <2>1. CASE c # d
    <3>1. chan'[c] = chan[c] /\ file'[c] = file[c] /\ Slice(c)' = Slice(c)
      BY <1>4, <2>1 DEF Filled
    <3>2. UntimedOK(c)' /\ RecordsOK(c)' /\ NextOK(c)' /\ ContentOK(c)'
      BY <1>1, <1>2, <3>1, SameRecords
    <3>3. PlacesOK(c)'
      BY <1>1, <1>2, <3>1 DEF ChannelOK, PlacesOK
    <3> QED BY <3>2, <3>3 DEF ChannelOK
  <2>2. CASE c = d
    <3>1. UntimedOK(c)'
      BY <1>4, <2>2 DEF UntimedOK, Filled
    <3>2. PlacesOK(c)'
      BY <1>2, <1>4, <2>2, FilledPlaces
    <3>3. RecordsOK(c)' /\ NextOK(c)'
      BY <1>2, <1>4, <2>2, FilledRecords
    <3>4. Content(file'[c]) \o Started(chan'[c]) = SubSeq(heard, 1, chan'[c].offset)
      BY <1>2, <1>4, <2>2, FilledContent
    <3>5. ~ (c < closed')
      BY <1>2, ChannelRange
    <3>6. ContentOK(c)'
      BY <1>2, <3>4, <3>5 DEF ContentOK
    <3> QED BY <3>1, <3>2, <3>3, <3>6 DEF ChannelOK
  <2> QED BY <2>1, <2>2
<1> QED BY <1>1, <1>3, <1>4, FillFacts

\* A channel is closed: all that was heard is in its file then.
LEMMA CloseChannelOK ==
    ASSUME NEW c \in Channels, IInv, CloseChannel
    PROVE  ChannelOK(c)'
<1>1. /\ TypeOK /\ QueueOK /\ PhaseOK /\ UntimedOK(c) /\ PlacesOK(c) /\ RecordsOK(c)
      /\ NextOK(c) /\ ContentOK(c)
  BY InvParts
<1>2. /\ closed \in Channels /\ UNCHANGED << chan, queue, buffer, heard >>
      /\ queue = << >> /\ buffer[c] = << >>
  <2>1. status = "closing"
    BY DEF CloseChannel
  <2>2. closed \in Channels /\ UNCHANGED << chan, reader, history >>
    BY <1>1, CloseFacts
  <2> QED BY <1>1, <2>1, <2>2 DEF PhaseOK, reader, history
<1>3. PlacesOK(c)'
  BY <1>1, <1>2 DEF PlacesOK, Slice
<1>4. CASE UNCHANGED << output, closed >>
  <2>1. file' = file
    BY <1>4 DEF output
  <2> QED BY <1>1, <1>2, <1>3, <1>4, <2>1, SameRecords DEF ChannelOK
<1>5. CASE closed' = closed + 1 /\ c # closed /\ file'[c] = file[c]
  <2>1. UntimedOK(c)' /\ RecordsOK(c)'
    BY <1>1, <1>2, <1>5 DEF UntimedOK, RecordsOK, Written, Open, Placed
  <2>2. (closed' <= c => closed <= c) /\ (c < closed' <=> c < closed)
    BY <1>2, <1>5, ChannelRange
  <2>3. NextOK(c)'
    BY <1>1, <1>2, <1>5, <2>2 DEF NextOK, EndsBefore
  <2>4. ContentOK(c)'
    BY <1>1, <1>2, <1>5, <2>2 DEF ContentOK
  <2> QED BY <1>3, <2>1, <2>3, <2>4 DEF ChannelOK
<1>6. CASE /\ closed' = closed + 1 /\ c = closed
           /\ file'[c] = IF chan[c].record = None THEN file[c]
                         ELSE Append(file[c], chan[c].record)
  <2>1. UntimedOK(c)'
    BY <1>1, <1>2, <1>6 DEF UntimedOK
  <2>2. ~ (closed' <= c) /\ c < closed' /\ ~ (c < closed)
    BY <1>2, <1>6, ChannelRange
  <2>3. RecordsOK(c)'
    <3>1. Written(c)' \subseteq Written(c) \cup Open(c)
      <4>1. CASE chan[c].record = None
        BY <1>6, <4>1 DEF Written
      <4>2. CASE chan[c].record # None
        <5>1. /\ file[c] \in Seq(Record) /\ Len(file[c]) \in Nat
              /\ chan[c].record \in Record
          BY <1>1, <4>2, ClockType, RecordTypes, StartedType
        <5>2. /\ Len(file'[c]) = Len(file[c]) + 1
              /\ \A k \in 1 .. Len(file[c]) : file'[c][k] = file[c][k]
              /\ file'[c][Len(file[c]) + 1] = chan[c].record
          BY <1>6, <4>2, <5>1, AppendProperties
        <5>3. ASSUME NEW k \in 1 .. Len(file'[c])
              PROVE  file'[c][k] \in Written(c) \cup Open(c)
          <6>1. CASE k \in 1 .. Len(file[c])
            BY <5>2, <6>1 DEF Written
          <6>2. CASE k = Len(file[c]) + 1
            BY <4>2, <5>2, <6>2 DEF Open
          <6> QED BY <5>1, <5>2, <5>3, <6>1, <6>2
        <5> QED BY <5>3 DEF Written
      <4> QED BY <4>1, <4>2
    <3>2. Open(c)' = Open(c)
      BY <1>2 DEF Open
    <3>3. \A r : Placed(r, c)' <=> Placed(r, c)
      BY <1>2 DEF Placed
    <3> QED BY <1>1, <3>1, <3>2, <3>3 DEF RecordsOK
  <2>4. NextOK(c)'
    BY <2>2 DEF NextOK
  <2>5. ContentOK(c)'
    <3> SUFFICES ASSUME chan[c].time # None PROVE Content(file'[c]) = heard
      BY <1>2, <2>2 DEF ContentOK
    <3>1. Content(file[c]) \o Started(chan[c]) = heard
      <4>1. chan[c].offset = Len(heard)
        <5>1. /\ Slice(c) = << >> /\ Len(<< >>) = 0 /\ chan[c].offset \in Nat
          BY <1>1, <1>2, NothingWaits, EmptySeq, ClockType
        <5>2. chan[c].offset + Len(Slice(c)) + Len(buffer[c]) = Len(heard)
          BY <1>1 DEF PlacesOK
        <5> QED BY <1>2, <5>1, <5>2
      <4>2. Content(file[c]) \o Started(chan[c]) = SubSeq(heard, 1, Len(heard))
        BY <1>1, <2>2, <4>1 DEF ContentOK
      <4> QED BY <1>1, <4>2, RecordTypes, SubSeqFull
    <3>2. CASE chan[c].record = None
      <4>1. Started(chan[c]) = << >>
        BY <3>2 DEF Started
      <4> QED BY <1>1, <1>6, <3>1, <3>2, <4>1, RecordTypes, ConcatEmptySeq
    <3>3. CASE chan[c].record # None
      <4>1. Started(chan[c]) = chan[c].record.samples /\ chan[c].record \in Record
        BY <1>1, <3>3, ClockType, StartedType DEF Started
      <4> QED BY <1>1, <1>6, <3>1, <3>3, <4>1, RecordTypes, ContentAppend
    <3> QED BY <3>2, <3>3
  <2> QED BY <1>3, <2>1, <2>3, <2>4, <2>5 DEF ChannelOK
<1> QED BY <1>1, <1>4, <1>5, <1>6, CloseFacts

-----------------------------------------------------------------------------
(***************************************************************************)
(* The invariant always holds                                              *)
(***************************************************************************)

LEMMA InvInit == Init => IInv
<1> SUFFICES ASSUME Init PROVE IInv
  OBVIOUS
<1>1. /\ Len(<< >>) = 0 /\ << >> \in Seq(Nat) /\ << >> \in Seq(Record)
      /\ << >> \in Seq([channel : Channels, samples : Seq(Nat)])
  BY EmptySeq
<1>2. /\ left = MaxFrames /\ tick = 1 /\ refused \in RefusalCases /\ room \in Rooms
      /\ status = "reading" /\ number = 0 /\ queue = << >> /\ closed = 0
      /\ missing = {} /\ unknown = FALSE /\ hidden = {} /\ heard = << >>
      /\ buffer = [c \in Channels |-> << >>] /\ chan = [c \in Channels |-> NewChannel]
      /\ file = [c \in Channels |-> << >>]
  BY DEF Init
<1>3. /\ NewChannel \in Channel /\ NewChannel.time = None /\ NewChannel.offset = 0
      /\ NewChannel.record = None /\ NewChannel.next = 1
  BY DEF NewChannel, Channel
<1>4. TypeOK
  <2>1. room \in Nat /\ MaxFrames \in Nat /\ closed \in 0 .. NChannels
    BY <1>2, FastAssumption
  <2>2. << >> \notin Waiting
    BY <1>1, <1>2 DEF Waiting
  <2>3. /\ buffer \in [Channels -> Seq(Nat)]
        /\ \A c \in Channels : Len(buffer[c]) < BufferLen
    BY <1>1, <1>2, FastAssumption
  <2>4. chan \in [Channels -> Channel] /\ file \in [Channels -> Seq(Record)]
    BY <1>1, <1>2, <1>3
  <2>5. queue \in Seq([channel : Channels, samples : Seq(Nat)]) /\ heard \in Seq(Nat)
    BY <1>1, <1>2
  <2>6. /\ left \in Nat /\ tick \in Nat \ {0} /\ refused \in RefusalCases
        /\ status \in {"reading", "flushing", "closing", "finished", "aborted"}
        /\ number \in Nat /\ missing \subseteq Nat /\ hidden \subseteq Nat
    BY <1>2, <2>1
  <2>7. unknown \in BOOLEAN
    BY <1>2
  <2> QED BY <2>1, <2>2, <2>3, <2>4, <2>5, <2>6, <2>7 DEF TypeOK
<1>5. OneClock
  BY <1>2 DEF OneClock
<1>6. QueueOK
  BY <1>1, <1>2, FastAssumption DEF QueueOK
<1>7. PhaseOK
  BY <1>2, FastAssumption DEF PhaseOK
<1>8. CountOK
  <2>1. ~ unknown /\ number = 0 /\ tick = 1
    BY <1>2
  <2>2. number <= tick - 1 /\ ~ (number < tick - 1)
    BY <2>1
  <2>3. /\ queue = << >> /\ heard = << >>
        /\ \A c \in Channels : /\ buffer[c] = << >> /\ file[c] = << >>
                               /\ chan[c].record = None /\ chan[c].offset = 0
    BY <1>2, <1>3
  <2> QED BY <2>1, <2>2, <2>3 DEF CountOK
<1>9. HeardOK
  BY <1>1, <1>2, <1>3 DEF HeardOK
<1>10. FreshOK
  BY <1>2 DEF FreshOK
<1>11. Gapless
  <2>1. \A b \in Waiting \cup {buffer[c] : c \in Channels} : b = << >>
    BY <1>1, <1>2 DEF Waiting
  <2>2. \A b : b = << >> => \A i : i \notin 2 .. Len(b)
    BY <1>1
  <2> QED BY <2>1, <2>2 DEF Gapless
<1>12. ASSUME NEW c \in Channels PROVE ChannelOK(c)
  <2>1. /\ chan[c].time = None /\ chan[c].record = None /\ chan[c].next = 1
        /\ file[c] = << >> /\ heard = << >>
    BY <1>2, <1>3
  <2>2. UntimedOK(c) /\ PlacesOK(c) /\ ContentOK(c)
    BY <2>1 DEF UntimedOK, PlacesOK, ContentOK
  <2>3. RecordsOK(c)
    <3>1. \A r : r \notin Written(c) \cup Open(c)
      BY <1>1, <2>1 DEF Written, Open
    <3> QED BY <3>1 DEF RecordsOK
  <2>4. NextOK(c)
    BY <1>1, <2>1 DEF NextOK
  <2> QED BY <2>2, <2>3, <2>4 DEF ChannelOK
<1> QED
  BY <1>4, <1>5, <1>6, <1>7, <1>8, <1>9, <1>10, <1>11, <1>12 DEF IInv

LEMMA ChannelStep ==
    ASSUME NEW c \in Channels, IInv, [Next]_vars
    PROVE  ChannelOK(c)'
<1>1. /\ TypeOK /\ OneClock /\ QueueOK /\ PhaseOK /\ CountOK /\ ChannelOK(c)
  BY DEF IInv
<1>2. CASE Resting
  BY <1>1, <1>2, RestingChannel
<1>3. CASE Flushing
  BY <1>1, <1>3, FlushingChannel
<1>4. CASE SetClocks
  BY <1>1, <1>4, SetClocksChannel
<1>5. CASE DataFrame
  BY <1>5, DataChannel
<1>6. CASE DropBuffer
  BY <1>1, <1>6, DropChannel
<1>7. CASE FillRecord
  BY <1>7, FillChannel
<1>8. CASE CloseChannel
  BY <1>8, CloseChannelOK
<1> QED BY <1>2, <1>3, <1>4, <1>5, <1>6, <1>7, <1>8, StepKinds

LEMMA InvStep == IInv /\ [Next]_vars => IInv'
<1> SUFFICES ASSUME IInv, [Next]_vars PROVE IInv'
  OBVIOUS
<1>1. /\ TypeOK' /\ QueueOK' /\ OneClock' /\ PhaseOK' /\ CountOK' /\ HeardOK'
      /\ FreshOK' /\ Gapless'
  BY TypeStep, ClockStep, PhaseStep, CountStep, HeardStep, FreshStep, GaplessStep
<1>2. (\A c \in Channels : ChannelOK(c))'
  BY ChannelStep
<1> QED BY <1>1, <1>2 DEF IInv

\* The invariant holds in every state of every run.
LEMMA InvAlways == Spec => []IInv
BY InvInit, InvStep, PTL DEF Spec

-----------------------------------------------------------------------------
(***************************************************************************)
(* Types and times                                                         *)
(***************************************************************************)

\* Every variable has its type: a buffer always has room for the next sample,
\* and no empty buffer is yielded (mruby_kumsd.c 372-391).
THEOREM TypeCorrect == Spec => []TypeOK
<1>1. IInv => TypeOK
  BY DEF IInv
<1> QED BY <1>1, InvAlways, PTL

\* The samples that are yielded together were taken one after the other, unless
\* the reader could not know of the gap (mruby_kumsd.c 473-522).
THEOREM YieldedGapless == Spec => []Gapless
<1>1. IInv => Gapless
  BY DEF IInv
<1> QED BY <1>1, InvAlways, PTL

\* The time a record gives each of its samples is too early by exactly the
\* samples that are missing since the clock was set, and true when none is
\* (makeseed.rb 6-90, 246-283).
THEOREM TrueTimes == Spec => []TimesTrue
<1>1. ASSUME IInv, NEW c \in Channels, NEW r \in Written(c) \cup Open(c),
             NEW i \in 1 .. Len(r.samples)
      PROVE  r.start + i - 1 + MissingIn(chan[c].time, r.samples[i]) = r.samples[i]
  <2>1. /\ TypeOK /\ HeardOK /\ PlacesOK(c) /\ Placed(r, c)
    BY <1>1, InvParts DEF RecordsOK
  <2>2. PICK t \in Nat, o \in Nat, s \in Nat, m \in Nat :
            /\ t = chan[c].time /\ o = chan[c].offset
            /\ s = r.start /\ m = Len(r.samples)
    BY <1>1, <2>1, ClockType, RecordTypes DEF Placed
  <2>3. /\ t <= s /\ s + m <= t + o
        /\ \A j \in 1 .. m : r.samples[j] = heard[s - t + j]
    BY <2>1, <2>2 DEF Placed
  <2>4. o <= Len(heard) /\ Len(heard) \in Nat
    <3>1. /\ o + Len(Slice(c)) + Len(buffer[c]) = Len(heard)
      BY <2>1, <2>2 DEF PlacesOK, Placed
    <3>2. Len(Slice(c)) \in Nat /\ Len(buffer[c]) \in Nat /\ Len(heard) \in Nat
      BY <1>1, <2>1, InvParts, SliceType, RecordTypes DEF TypeOK, Slices
    <3> QED BY <2>2, <3>1, <3>2
  <2>5. i \in 1 .. m
    BY <1>1, <2>2
  <2>6. /\ t \in Nat /\ o \in Nat /\ s \in Nat /\ m \in Nat /\ i \in 1 .. m
        /\ t <= s /\ s + m <= t + o /\ o <= Len(heard) /\ Len(heard) \in Nat
    BY <2>2, <2>3, <2>4, <2>5
  <2>7. PICK k \in 1 .. Len(heard) : k = s - t + i
    BY <2>6
  <2>8. r.samples[i] = heard[k]
    BY <2>3, <2>5, <2>7
  <2>9. heard[k] = t + k - 1 + MissingIn(t, heard[k])
    BY <1>1, <2>1, <2>2 DEF HeardOK, Placed
  <2>10. t + k - 1 = s + i - 1
    BY <2>6, <2>7
  <2> QED BY <2>2, <2>8, <2>9, <2>10
<1>2. IInv => TimesTrue
  BY <1>1 DEF TimesTrue
<1> QED BY <1>2, InvAlways, PTL

-----------------------------------------------------------------------------
(***************************************************************************)
(* The way of the samples                                                  *)
(***************************************************************************)

\* What is yielded for a channel and not yet taken is its slice.
LEMMA YieldedIsSlice ==
    ASSUME queue \in Slices, QueueOK, NEW c \in Channels
    PROVE  Yielded(c) = Slice(c)
<1> DEFINE n == Len(queue)
           list == [i \in 1 .. Len(queue) |->
                       IF queue[i].channel = c THEN queue[i].samples ELSE << >>]
<1>1. n \in Nat /\ n <= NChannels
  BY QueueElements DEF QueueOK
<1>2. list \in Seq(Seq(Nat)) /\ Len(list) = n
  <2>1. list \in [1 .. n -> Seq(Nat)]
    BY QueueElements, EmptySeq
  <2> HIDE DEF list, n
  <2> QED BY <1>1, <2>1, FunctionIsSeq
<1>3. \A i \in 1 .. n :
          list[i] = IF queue[i].channel = c THEN queue[i].samples ELSE << >>
  OBVIOUS
<1>4. Yielded(c) = FlattenSeq(list)
  BY DEF Yielded
<1>5. \A i \in 1 .. n : queue[i].channel = NChannels - n + i - 1
  BY DEF QueueOK
<1>6. PICK k \in Int : k = c - NChannels + n + 1
  BY <1>1, ChannelRange
<1> HIDE DEF list
<1>7. Slice(c) = IF c < NChannels - n THEN << >> ELSE queue[k].samples
  BY <1>6 DEF Slice
<1> HIDE DEF n
<1>8. k <= n
  BY <1>1, <1>6, ChannelRange
<1>9. ASSUME NEW i \in 1 .. n, i # k PROVE list[i] = << >>
  <2>1. queue[i].channel # c
    <3>1. NChannels - n + i - 1 # c
      BY <1>1, <1>6, <1>9, ChannelRange
    <3> QED BY <1>5, <1>9, <3>1
  <2> QED BY <1>3, <1>9, <2>1
<1>10. FlattenSeq(list) = IF k < 1 THEN << >> ELSE list[k]
  BY <1>2, <1>6, <1>8, <1>9, FlattenOne
<1>11. CASE k < 1
  <2>1. c < NChannels - n
    BY <1>1, <1>6, <1>11, ChannelRange
  <2> QED BY <1>4, <1>7, <1>10, <1>11, <2>1
<1>12. CASE ~ (k < 1)
  <2>1. ~ (c < NChannels - n) /\ k \in 1 .. n /\ NChannels - n + k - 1 = c
    BY <1>1, <1>6, <1>8, <1>12, ChannelRange
  <2>2. list[k] = queue[k].samples
    BY <1>3, <1>5, <2>1
  <2> QED BY <1>4, <1>7, <1>10, <1>12, <2>1, <2>2
<1> QED BY <1>11, <1>12

\* The file with the open record, as it would be written.
LEMMA PendingContent ==
    ASSUME TypeOK, NEW c \in Channels
    PROVE  Content(file[c] \o Pending(chan[c])) = Content(file[c]) \o Started(chan[c])
<1>1. file[c] \in Seq(Record) /\ Content(file[c]) \in Seq(Nat)
  BY RecordTypes
<1>2. CASE chan[c].record = None
  <2>1. Pending(chan[c]) = << >> /\ Started(chan[c]) = << >>
    BY <1>2 DEF Pending, Started
  <2>2. file[c] \o << >> = file[c] /\ Content(file[c]) \o << >> = Content(file[c])
    BY <1>1, ConcatEmptySeq
  <2> QED BY <2>1, <2>2
<1>3. CASE chan[c].record # None
  <2>1. PICK r \in Record : r = chan[c].record
    BY <1>3, ClockType, StartedType
  <2>2. Pending(chan[c]) = << r >> /\ Started(chan[c]) = r.samples
    BY <1>3, <2>1 DEF Pending, Started
  <2>3. file[c] \o << r >> = Append(file[c], r)
    BY <1>1, AppendIsConcat
  <2>4. Content(Append(file[c], r)) = Content(file[c]) \o r.samples
    BY <1>1, ContentAppend
  <2> QED BY <2>2, <2>3, <2>4
<1> QED BY <1>2, <1>3

\* A sequence is put together from its parts.
LEMMA InThreeParts ==
    ASSUME NEW s \in Seq(Nat), NEW o \in Nat, NEW x \in Seq(Nat), NEW y \in Seq(Nat),
           o + Len(x) + Len(y) = Len(s),
           \A j \in 1 .. Len(x) : x[j] = s[o + j],
           \A j \in 1 .. Len(y) : y[j] = s[o + Len(x) + j]
    PROVE  s = SubSeq(s, 1, o) \o x \o y
<1>1. Len(x) \in Nat /\ Len(y) \in Nat /\ Len(s) \in Nat
  BY LenProperties
<1>2. o <= Len(s)
  BY <1>1
<1> DEFINE a == SubSeq(s, 1, o)
<1>3. a \in Seq(Nat) /\ Len(a) = o /\ \A j \in 1 .. o : a[j] = s[j]
  <2>1. o \in Int /\ 1 \in Int /\ \A j \in 1 .. o : s[j] \in Nat
    <3>1. \A j \in 1 .. o : j \in 1 .. Len(s)
      BY <1>1, <1>2
    <3> QED BY <3>1, ElementOfSeq
  <2>2. /\ a \in Seq(Nat) /\ Len(a) = IF 1 <= o THEN o - 1 + 1 ELSE 0
        /\ \A j \in 1 .. o - 1 + 1 : a[j] = s[1 + j - 1]
    BY <2>1, SubSeqProperties
  <2> HIDE DEF a
  <2>3. Len(a) = o
    BY <2>2
  <2>4. \A j \in 1 .. o : a[j] = s[j]
    BY <2>2
  <2> QED BY <2>2, <2>3, <2>4
<1> HIDE DEF a
<1>4. /\ a \o x \in Seq(Nat) /\ Len(a \o x) = o + Len(x)
      /\ \A j \in 1 .. o + Len(x) : (a \o x)[j] = IF j <= o THEN a[j] ELSE x[j - o]
  <2>1. /\ a \o x \in Seq(Nat) /\ Len(a \o x) = Len(a) + Len(x)
        /\ \A j \in 1 .. Len(a) + Len(x) :
               (a \o x)[j] = IF j <= Len(a) THEN a[j] ELSE x[j - Len(a)]
    <3>1. a \in Seq(Nat) /\ x \in Seq(Nat)
      BY <1>3
    <3> QED BY <3>1, ConcatProperties
  <2>2. Len(a) = o
    BY <1>3
  <2> QED BY <2>1, <2>2
<1> DEFINE ax == a \o x
<1> HIDE DEF ax
<1>5. /\ ax \o y \in Seq(Nat) /\ Len(ax \o y) = o + Len(x) + Len(y)
      /\ \A j \in 1 .. o + Len(x) + Len(y) :
             (ax \o y)[j] = IF j <= o + Len(x) THEN ax[j] ELSE y[j - (o + Len(x))]
  <2>1. ax \in Seq(Nat) /\ Len(ax) = o + Len(x) /\ y \in Seq(Nat)
    BY <1>4 DEF ax
  <2>2. /\ ax \o y \in Seq(Nat) /\ Len(ax \o y) = Len(ax) + Len(y)
        /\ \A j \in 1 .. Len(ax) + Len(y) :
               (ax \o y)[j] = IF j <= Len(ax) THEN ax[j] ELSE y[j - Len(ax)]
    <3>1. ax \in Seq(Nat) /\ y \in Seq(Nat)
      BY <2>1
    <3> QED BY <3>1, ConcatProperties
  <2> QED BY <2>1, <2>2
<1>6. ASSUME NEW j \in 1 .. Len(s) PROVE s[j] = (ax \o y)[j]
  <2>1. CASE j <= o
    <3>1. j \in 1 .. o /\ j \in 1 .. o + Len(x) /\ j <= o + Len(x)
      BY <1>1, <1>6, <2>1
    <3>2. (ax \o y)[j] = ax[j] /\ ax[j] = a[j]
      BY <1>4, <1>5, <1>6, <3>1, <2>1 DEF ax
    <3> QED BY <1>3, <3>1, <3>2
  <2>2. CASE ~ (j <= o) /\ j <= o + Len(x)
    <3>1. PICK i \in 1 .. Len(x) : i = j - o
      BY <1>1, <1>6, <2>2
    <3>2. (ax \o y)[j] = ax[j]
      BY <1>5, <1>6, <2>2
    <3>3. j \in 1 .. o + Len(x)
      BY <1>1, <1>6, <2>2
    <3>4. ax[j] = x[i]
      BY <1>4, <2>2, <3>1, <3>3 DEF ax
    <3>5. o + i = j
      BY <1>1, <1>6, <3>1
    <3> QED BY <3>1, <3>2, <3>4, <3>5
  <2>3. CASE ~ (j <= o + Len(x))
    <3>1. PICK i \in 1 .. Len(y) : i = j - (o + Len(x))
      <4>1. PICK p \in Nat, q \in Nat : p = Len(x) /\ q = Len(y)
        BY <1>1
      <4>2. j \in 1 .. o + p + q /\ ~ (j <= o + p)
        BY <1>6, <2>3, <4>1
      <4>3. j - (o + p) \in 1 .. q
        BY <4>2
      <4> QED BY <4>1, <4>3
    <3>2. (ax \o y)[j] = y[i]
      BY <1>5, <1>6, <2>3, <3>1
    <3>3. o + Len(x) + i = j
      BY <1>1, <1>6, <3>1
    <3> QED BY <3>1, <3>2, <3>3
  <2> QED BY <1>1, <1>6, <2>1, <2>2, <2>3
<1>7. s = ax \o y
  BY <1>5, <1>6, SeqEqual
<1> QED BY <1>7 DEF a, ax

\* No sample is lost, doubled or overtaken on its way from the card to the file
\* (mruby_kumsd.c 372-391, makeseed.rb 47-90).
THEOREM NothingLost == Spec => []Pipeline
<1>1. ASSUME IInv, NEW c \in Channels
      PROVE  /\ chan[c].time = None => heard = << >> /\ file[c] = << >>
             /\ chan[c].time # None =>
                   heard = IF c < closed THEN Content(file[c])
                           ELSE Content(file[c] \o Pending(chan[c]))
                                    \o Yielded(c) \o buffer[c]
  <2>1. /\ TypeOK /\ QueueOK /\ queue \in Slices
        /\ UntimedOK(c) /\ PlacesOK(c) /\ ContentOK(c)
    BY <1>1, InvParts DEF TypeOK, Slices
  <2>2. CASE chan[c].time = None
    BY <2>1, <2>2 DEF UntimedOK
  <2>3. CASE chan[c].time # None /\ c < closed
    BY <2>1, <2>3 DEF ContentOK
  <2>4. CASE chan[c].time # None /\ ~ (c < closed)
    <3>1. PICK o \in Nat, x \in Seq(Nat), y \in Seq(Nat) :
              o = chan[c].offset /\ x = Slice(c) /\ y = buffer[c]
      BY <2>1, ClockType, SliceType, RecordTypes
    <3>2. /\ o + Len(x) + Len(y) = Len(heard)
          /\ \A j \in 1 .. Len(x) : x[j] = heard[o + j]
          /\ \A j \in 1 .. Len(y) : y[j] = heard[o + Len(x) + j]
      BY <2>1, <2>4, <3>1 DEF PlacesOK
    <3>3. heard = SubSeq(heard, 1, o) \o x \o y
      <4>1. heard \in Seq(Nat)
        BY <2>1, RecordTypes
      <4> QED BY <3>1, <3>2, <4>1, InThreeParts
    <3>4. Content(file[c] \o Pending(chan[c])) = SubSeq(heard, 1, o)
      BY <2>1, <2>4, <3>1, PendingContent DEF ContentOK
    <3>5. Yielded(c) = x
      BY <2>1, <3>1, YieldedIsSlice
    <3> QED BY <2>4, <3>1, <3>3, <3>4, <3>5
  <2> QED BY <2>2, <2>3, <2>4
<1>2. IInv => Pipeline
  BY <1>1 DEF Pipeline
<1> QED BY <1>2, InvAlways, PTL

\* However the run ends, a file lacks at most a buffer and the open record
\* (makeseed.rb 261-288; the rescue drops both).
THEOREM LittleIsLost == Spec => []AbortLoss
<1>1. ASSUME IInv, NEW c \in Channels
      PROVE  Len(heard) - Len(Content(file[c])) <= BufferLen + Capacity - 1
  <2>1. /\ TypeOK /\ QueueOK /\ queue \in Slices /\ NextOK(c)
        /\ UntimedOK(c) /\ PlacesOK(c) /\ ContentOK(c) /\ closed \in Nat
    BY <1>1, InvParts DEF TypeOK, Slices
  <2>2. /\ heard \in Seq(Nat) /\ Content(file[c]) \in Seq(Nat) /\ Started(chan[c]) \in Seq(Nat)
        /\ BufferLen \in Nat \ {0} /\ Capacity \in Nat \ {0}
    BY <2>1, RecordTypes, FastAssumption, CapacityAssumption
  <2>3. PICK h \in Nat, f \in Nat, m \in Nat :
            /\ h = Len(heard) /\ f = Len(Content(file[c])) /\ m = Len(Started(chan[c]))
    BY <2>2, LenProperties
  <2>4. CASE chan[c].time = None
    <3>1. h = 0
      BY <2>1, <2>3, <2>4, EmptySeq DEF UntimedOK
    <3> QED BY <2>2, <2>3, <3>1
  <2>5. CASE chan[c].time # None /\ c < closed
    <3>1. h = f
      BY <2>1, <2>3, <2>5 DEF ContentOK
    <3> QED BY <2>2, <2>3, <3>1
  <2>6. CASE chan[c].time # None /\ ~ (c < closed)
    <3>1. PICK o \in Nat, x \in Nat, y \in Nat :
              o = chan[c].offset /\ x = Len(Slice(c)) /\ y = Len(buffer[c])
      BY <2>1, ClockType, SliceType, RecordTypes
    <3>2. o + x + y = h
      BY <2>1, <2>3, <2>6, <3>1 DEF PlacesOK
    <3>3. f + m = o
      <4>1. Content(file[c]) \o Started(chan[c]) = SubSeq(heard, 1, o)
        BY <2>1, <2>6, <3>1 DEF ContentOK
      <4>2. Len(Content(file[c]) \o Started(chan[c])) = f + m
        BY <2>2, <2>3, ConcatProperties
      <4>3. Len(SubSeq(heard, 1, o)) = o
        <5>1. \A j \in 1 .. o : j \in 1 .. h
          BY <3>1, <3>2
        <5>2. o \in Int /\ 1 \in Int /\ \A j \in 1 .. o : heard[j] \in Nat
          BY <2>2, <2>3, <5>1, ElementOfSeq
        <5>3. Len(SubSeq(heard, 1, o)) = IF 1 <= o THEN o - 1 + 1 ELSE 0
          BY <5>2, SubSeqProperties
        <5> QED BY <5>3
      <4> QED BY <4>1, <4>2, <4>3
    <3>4. x + y <= BufferLen
      <4>1. CASE queue = << >>
        <5>1. x = 0
          BY <3>1, <4>1, NothingWaits, EmptySeq
        <5>2. y < BufferLen
          BY <2>1, <3>1 DEF TypeOK
        <5> QED BY <2>2, <5>1, <5>2
      <4>2. CASE queue # << >>
        <5>1. y = 0
          BY <2>1, <3>1, <4>2, EmptySeq DEF QueueOK
        <5>2. x <= BufferLen
          BY <2>1, <3>1, SliceType
        <5> QED BY <2>2, <5>1, <5>2
      <4> QED BY <4>1, <4>2
    <3>5. m <= Capacity - 1
      <4>1. closed <= c
        BY <2>1, <2>6, ChannelRange
      <4>2. CASE chan[c].record = None
        BY <2>2, <2>3, <4>2, EmptySeq DEF Started
      <4>3. CASE chan[c].record # None
        <5>1. m < Capacity
          BY <2>1, <2>3, <4>1, <4>3 DEF NextOK, Started
        <5> QED BY <2>2, <2>3, <5>1
      <4> QED BY <4>2, <4>3
    <3>6. h - f <= BufferLen + Capacity - 1
      <4>1. /\ o + x + y = h /\ f + m = o /\ x + y <= BufferLen /\ m <= Capacity - 1
            /\ BufferLen \in Nat /\ Capacity \in Nat
        BY <2>2, <3>2, <3>3, <3>4, <3>5
      <4>2. h - f = x + y + m
        BY <4>1
      <4> QED BY <4>1, <4>2
    <3> QED BY <2>3, <3>6
  <2> QED BY <2>4, <2>5, <2>6
<1>2. IInv => AbortLoss
  BY <1>1 DEF AbortLoss
<1> QED BY <1>2, InvAlways, PTL

-----------------------------------------------------------------------------
(***************************************************************************)
(* The files as an archive                                                 *)
(***************************************************************************)

\* r may come next in the file of channel c.
Continues(c, r) ==
    /\ r.seq = Len(file[c]) + 1
    /\ Len(r.samples) \in 1 .. Capacity
    /\ EndsBefore(c, r.start)

\* A step leaves a file as it is or puts one record at its end.
LEMMA FileStep ==
    ASSUME NEW c \in Channels, IInv, [Next]_vars, file'[c] # file[c]
    PROVE  \E r \in Record : file'[c] = Append(file[c], r) /\ Continues(c, r)
<1>1. /\ TypeOK /\ QueueOK /\ PhaseOK /\ \A d \in Channels : NextOK(d)
      /\ RecordsOK(c)
  BY InvParts
<1>2. FillRecord \/ CloseChannel
  <2>1. Resting \/ Flushing \/ SetClocks \/ DataFrame \/ DropBuffer => file' = file
    BY DEF Resting, Flushing, SetClocks, DataFrame, DropBuffer, output
  <2> QED BY <2>1, StepKinds
<1>3. CASE FillRecord
  <2>1. UNCHANGED heard /\ closed = 0
    BY <1>1, <1>3 DEF FillRecord, history, PhaseOK
  <2>2. ~ UNCHANGED output
    BY DEF output
  <2>3. PICK d \in Channels, n \in Nat, r \in Record :
            Filled(d, n, r) /\ chan[d].time # None
    BY <1>1, <1>3, <2>2, FillFacts
  <2>4. d = c /\ file'[c] = Append(file[c], r)
    BY <2>3 DEF Filled
  <2>5. Placed(r, c)' /\ r.seq = Len(file[c]) + 1 /\ EndsBefore(c, r.start)
    BY <2>1, <2>3, <2>4, FilledRecord
  <2>6. Len(r.samples) \in 1 .. Capacity
    BY <2>5 DEF Placed
  <2> QED BY <2>4, <2>5, <2>6 DEF Continues
<1>4. CASE CloseChannel
  <2>1. closed = c /\ chan[c].record # None /\ file'[c] = Append(file[c], chan[c].record)
    BY <1>1, <1>4, CloseFacts DEF output
  <2>2. /\ chan[c].record \in Record /\ chan[c].record.seq = Len(file[c]) + 1
        /\ EndsBefore(c, chan[c].record.start)
    BY <1>1, <2>1, ClockType, StartedType, ChannelRange DEF NextOK
  <2>3. Len(chan[c].record.samples) \in 1 .. Capacity
    BY <1>1, <2>1 DEF RecordsOK, Open, Placed
  <2> QED BY <2>1, <2>2, <2>3 DEF Continues
<1> QED BY <1>2, <1>3, <1>4

\* The archive of a list of records, and of one record more.
LEMMA ArchiveFacts ==
    ASSUME NEW list \in Seq(Record)
    PROVE  /\ Len(ArchiveOf(list)) = Len(list)
           /\ \A k \in 1 .. Len(list) : ArchiveOf(list)[k] = EntryOf(list[k])
           /\ \A k \in 1 .. Len(list) : list[k] \in Record
           /\ ArchiveOf(list) = << >> <=> list = << >>
<1>1. Len(list) \in Nat /\ \A k \in 1 .. Len(list) : list[k] \in Record
  BY LenProperties, ElementOfSeq
<1> DEFINE E == {EntryOf(list[k]) : k \in 1 .. Len(list)}
<1>2. ArchiveOf(list) \in [1 .. Len(list) -> E]
  BY DEF ArchiveOf
<1> HIDE DEF E
<1>3. ArchiveOf(list) \in Seq(E) /\ Len(ArchiveOf(list)) = Len(list)
  BY <1>1, <1>2, FunctionIsSeq
<1>4. Len(ArchiveOf(list)) = Len(list)
  BY <1>3
<1>5. \A k \in 1 .. Len(list) : ArchiveOf(list)[k] = EntryOf(list[k])
  BY DEF ArchiveOf
<1>6. ArchiveOf(list) = << >> <=> list = << >>
  BY <1>3, <1>4, EmptySeq
<1> QED BY <1>1, <1>4, <1>5, <1>6

LEMMA ArchiveAppend ==
    ASSUME NEW list \in Seq(Record), NEW r \in Record
    PROVE  ArchiveOf(Append(list, r)) = Append(ArchiveOf(list), EntryOf(r))
<1> DEFINE more == Append(list, r)
<1>1. /\ more \in Seq(Record) /\ Len(list) \in Nat
      /\ Len(more) = Len(list) + 1
      /\ \A k \in 1 .. Len(list) : more[k] = list[k]
      /\ more[Len(list) + 1] = r
  BY AppendProperties, LenProperties
<1> HIDE DEF more
<1> DEFINE before == ArchiveOf(list)
           after  == ArchiveOf(more)
           E      == {EntryOf(x) : x \in Record}
<1>2. /\ Len(before) = Len(list) /\ Len(after) = Len(list) + 1
      /\ \A k \in 1 .. Len(list) : before[k] = EntryOf(list[k])
      /\ \A k \in 1 .. Len(list) + 1 : after[k] = EntryOf(more[k])
      /\ \A k \in 1 .. Len(list) : list[k] \in Record
      /\ \A k \in 1 .. Len(list) + 1 : more[k] \in Record
  BY <1>1, ArchiveFacts
<1>3. before \in Seq(E) /\ after \in Seq(E) /\ EntryOf(r) \in E
  <2>1. before \in [1 .. Len(list) -> E] /\ after \in [1 .. Len(more) -> E]
    BY <1>1, <1>2 DEF ArchiveOf
  <2>2. EntryOf(r) \in E /\ Len(more) \in Nat
    BY <1>1
  <2> HIDE DEF before, after, E
  <2> QED BY <1>1, <2>1, <2>2, FunctionIsSeq
<1> HIDE DEF before, after, E
<1>4. /\ Append(before, EntryOf(r)) \in Seq(E)
      /\ Len(Append(before, EntryOf(r))) = Len(list) + 1
      /\ \A k \in 1 .. Len(list) : Append(before, EntryOf(r))[k] = before[k]
      /\ Append(before, EntryOf(r))[Len(list) + 1] = EntryOf(r)
  BY <1>2, <1>3, AppendProperties
<1>5. \A k \in 1 .. Len(list) + 1 : after[k] = Append(before, EntryOf(r))[k]
  BY <1>1, <1>2, <1>4
<1>6. after = Append(before, EntryOf(r))
  BY <1>2, <1>3, <1>4, <1>5, SeqEqual
<1> QED BY <1>6 DEF before, after, more

\* The archive only holds entries of the right type.
LEMMA ArchiveType ==
    IInv => \A c \in Channels : ArchiveOf(file[c]) \in Seq(Archive!Entry)
<1> SUFFICES ASSUME IInv, NEW c \in Channels
             PROVE  ArchiveOf(file[c]) \in Seq(Archive!Entry)
  OBVIOUS
<1>1. file[c] \in Seq(Record) /\ RecordsOK(c) /\ Len(file[c]) \in Nat
  BY InvParts, RecordTypes
<1>2. ASSUME NEW k \in 1 .. Len(file[c])
      PROVE  EntryOf(file[c][k]) \in Archive!Entry
  <2> DEFINE r == file[c][k]
  <2>1. r \in Record
    BY <1>1, <1>2, ElementOfSeq
  <2>2. Placed(r, c)
    BY <1>1, <1>2 DEF RecordsOK, Written
  <2>3. r.seq \in Nat /\ r.start \in Nat /\ Len(r.samples) \in 1 .. Capacity
    BY <2>1, <2>2 DEF Record, Placed
  <2> QED BY <2>3 DEF EntryOf, Archive!Entry
<1>3. ArchiveOf(file[c]) \in [1 .. Len(file[c]) -> Archive!Entry]
  BY <1>2 DEF ArchiveOf
<1> QED BY <1>1, <1>3, FunctionIsSeq

LEMMA ArchiveInit == Init => Archive!Init
<1> SUFFICES ASSUME Init PROVE Archive!Init
  OBVIOUS
<1>1. ASSUME NEW c \in Channels PROVE ArchiveOf(file[c]) = << >>
  <2>1. file[c] = << >>
    BY DEF Init
  <2>2. file[c] \in Seq(Record)
    BY <2>1
  <2> QED BY <2>1, <2>2, ArchiveFacts
<1> QED BY <1>1 DEF Archive!Init

LEMMA ArchiveStep ==
    IInv /\ IInv' /\ [Next]_vars => [Archive!Extend]_[c \in Channels |-> ArchiveOf(file[c])]
<1> SUFFICES ASSUME IInv, IInv', [Next]_vars PROVE Archive!Extend
  OBVIOUS
<1> DEFINE before == [c \in Channels |-> ArchiveOf(file[c])]
           after  == [c \in Channels |-> ArchiveOf(file'[c])]
<1>1. after \in [Channels -> Seq(Archive!Entry)]
  <2>1. (\A c \in Channels : ArchiveOf(file[c]) \in Seq(Archive!Entry))'
    BY ArchiveType, PTL
  <2> QED BY <2>1
<1>2. ASSUME NEW c \in Channels
      PROVE  after[c] = before[c] \/ Archive!OneMore(before[c], after[c])
  <2>1. CASE file'[c] = file[c]
    BY <2>1
  <2>2. CASE file'[c] # file[c]
    <3>1. PICK r \in Record : file'[c] = Append(file[c], r) /\ Continues(c, r)
      BY <2>2, FileStep
    <3>2. file[c] \in Seq(Record) /\ Len(file[c]) \in Nat
      BY RecordTypes DEF IInv
    <3>3. after[c] = Append(before[c], EntryOf(r))
      BY <3>1, <3>2, ArchiveAppend
    <3>4. after[c] \in Seq(Archive!Entry) /\ before[c] \in Seq(Archive!Entry)
      BY <1>1, ArchiveType
    <3>5. /\ after[c] # << >>
          /\ Len(after[c]) = Len(file[c]) + 1
          /\ after[c][Len(after[c])] = EntryOf(r)
          /\ EntryOf(r) \in Archive!Entry
      <4> DEFINE E == {EntryOf(x) : x \in Record} \cup Archive!Entry
      <4>1. before[c] \in Seq(E) /\ EntryOf(r) \in E /\ Len(before[c]) = Len(file[c])
        <5>1. Archive!Entry \subseteq E /\ EntryOf(r) \in E
          OBVIOUS
        <5> HIDE DEF E
        <5>2. before[c] \in Seq(E)
          BY <3>4, <5>1, SeqMonotonic
        <5>3. Len(before[c]) = Len(file[c])
          BY <3>2, ArchiveFacts
        <5> QED BY <5>1, <5>2, <5>3
      <4> HIDE DEF E, before, after
      <4>2. /\ Len(after[c]) = Len(file[c]) + 1
            /\ after[c][Len(file[c]) + 1] = EntryOf(r)
        BY <3>3, <4>1, AppendProperties
      <4>3. after[c][Len(file[c]) + 1] \in Archive!Entry
        BY <3>2, <3>4, <4>2, ElementOfSeq
      <4> QED BY <3>2, <4>2, <4>3, EmptySeq
    <3>6. Archive!Follows(EntryOf(r), before[c])
      <4>1. /\ EntryOf(r).seq = r.seq /\ EntryOf(r).start = r.start
            /\ r.seq = Len(file[c]) + 1
        BY <3>1 DEF EntryOf, Continues
      <4>2. /\ Len(before[c]) = Len(file[c])
            /\ before[c] = << >> <=> file[c] = << >>
        BY <3>2, ArchiveFacts
      <4>3. ASSUME before[c] # << >>
            PROVE  Archive!EndOf(before[c][Len(before[c])]) <= r.start
        <5> DEFINE last == file[c][Len(file[c])]
        <5>1. last.start + Len(last.samples) <= r.start
          BY <3>1, <4>2, <4>3 DEF Continues, EndsBefore
        <5>2. Len(file[c]) \in 1 .. Len(file[c])
          BY <3>2, <4>2, <4>3, EmptySeq
        <5>3. before[c][Len(before[c])] = EntryOf(last)
          BY <3>2, <4>2, <5>2, ArchiveFacts
        <5>4. Archive!EndOf(EntryOf(last)) = last.start + Len(last.samples)
          BY DEF Archive!EndOf, EntryOf
        <5> HIDE DEF last, before
        <5> QED BY <5>1, <5>3, <5>4
      <4> QED BY <3>5, <4>1, <4>2, <4>3 DEF Archive!Follows
    <3> QED BY <3>3, <3>5, <3>6 DEF Archive!OneMore
  <2> QED BY <2>1, <2>2
<1> QED BY <1>1, <1>2 DEF Archive!Extend

\* The fast mode leaves the same archive as the one frame by frame: records are
\* only appended, numbered without a gap, and never claim a moment twice.
THEOREM ArchiveKept == Spec => KeepsArchive
BY ArchiveInit, ArchiveStep, InvAlways, PTL DEF Spec, KeepsArchive, Archive!Spec
=============================================================================
