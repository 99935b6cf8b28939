--------------------------- MODULE Makeseed_proofs ---------------------------
(***************************************************************************)
(* Theorems about Makeseed, for every number of channels, record capacity, *)
(* disk and card.                                                          *)
(***************************************************************************)
EXTENDS Makeseed, FiniteSetTheorems, SequenceTheorems, TLAPS

-----------------------------------------------------------------------------
(***************************************************************************)
(* One pass over the channels                                              *)
(***************************************************************************)

LEMMA ChannelsFinite == IsFiniteSet(Channels)
BY NChannelsAssumption, FS_Interval DEF Channels

Before(S, c) == {d \in S : d < c}

\* A set of channels has at most n elements if each of them has fewer than n
\* elements before it: counting those is an injection into 0 .. n-1.
LEMMA FewChannels ==
    ASSUME NEW S \in SUBSET Channels, NEW n \in Nat,
           \A c \in S : Cardinality(Before(S, c)) < n
    PROVE  Cardinality(S) <= n
<1> DEFINE rank == [c \in S |-> Cardinality(Before(S, c))]
<1>1. \A c \in S : IsFiniteSet(Before(S, c)) /\ Cardinality(Before(S, c)) \in Nat
  <2> TAKE c \in S
  <2>1. Before(S, c) \in SUBSET Channels
    BY DEF Before
  <2> QED BY <2>1, ChannelsFinite, FS_Subset, FS_CardinalityType
<1>2. ASSUME NEW c \in S, NEW d \in S, c < d
      PROVE  Cardinality(Before(S, c)) < Cardinality(Before(S, d))
  <2>1. S \subseteq Nat
    BY NChannelsAssumption DEF Channels
  <2>2. Before(S, c) \in SUBSET Before(S, d) /\ c \in Before(S, d) /\ c \notin Before(S, c)
    <3>1. \A x \in S : x < c => x < d
      BY <1>2, <2>1
    <3>2. ~ (c < c)
      BY <2>1
    <3> QED BY <1>2, <3>1, <3>2 DEF Before
  <2>3. Cardinality(Before(S, c)) <= Cardinality(Before(S, d))
    BY <1>1, <2>2, FS_Subset
  <2>4. Cardinality(Before(S, c)) # Cardinality(Before(S, d))
    BY <1>1, <2>2, FS_Subset
  <2> QED BY <1>1, <2>3, <2>4
<1>3. rank \in [S -> 0 .. n - 1]
  BY <1>1
<1>4. \A c, d \in S : rank[c] = rank[d] => c = d
  BY <1>1, <1>2, NChannelsAssumption DEF Channels
<1>5. rank \in Injection(S, 0 .. n - 1)
  BY <1>3, <1>4 DEF Injection, IsInjective
<1>6. IsFiniteSet(0 .. n - 1) /\ Cardinality(0 .. n - 1) = n
  BY FS_Interval
<1> QED BY <1>5, <1>6, FS_Injection

\* What a pass does to each channel: the channel is handled, or it is left
\* alone and the run is over.  The disk is never overfull.
LEMMA EachChannelStep ==
    ASSUME NEW result, NEW raises, NEW ending, TypeOK,
           EachChannel(result, raises, ending)
    PROVE  /\ chan' = [c \in Channels |-> chan'[c]]
           /\ file' = [c \in Channels |-> file'[c]]
           /\ \A c \in Channels :
                 \/ chan'[c] = result[c].chan /\ file'[c] = file[c] \o result[c].out
                 \/ chan'[c] = chan[c] /\ file'[c] = file[c] /\ status' = "aborted"
           /\ room' \in Nat
           /\ status' \in {ending, "aborted"}
<1> DEFINE writes == {c \in Channels : result[c].out # << >>}
           full   == {c \in writes : Cardinality({d \in writes : d < c}) >= room}
           passed == {c \in Channels : \A d \in Channels :
                                        d <= c => d \notin raises \cup full}
           done   == writes \cap passed
<1>1. /\ chan' = [c \in Channels |->
                     IF c \in passed THEN result[c].chan ELSE chan[c]]
      /\ file' = [c \in Channels |->
                     IF c \in passed THEN file[c] \o result[c].out ELSE file[c]]
      /\ room' = room - Cardinality(done)
      /\ status' = IF passed = Channels THEN ending ELSE "aborted"
  BY DEF EachChannel
<1>2. room \in Nat
  BY DEF TypeOK
<1>3. Cardinality(done) <= room
  <2>1. ASSUME NEW c \in done
        PROVE  Cardinality(Before(done, c)) < room
    <3>1. Before(done, c) \in SUBSET {d \in writes : d < c}
      BY DEF Before
    <3>2. IsFiniteSet({d \in writes : d < c})
      <4>1. {d \in writes : d < c} \in SUBSET Channels
        OBVIOUS
      <4> QED BY <4>1, ChannelsFinite, FS_Subset
    <3>3. Cardinality({d \in writes : d < c}) \in Nat
      BY <3>2, FS_CardinalityType
    <3>4. c \in writes /\ c \notin full
      BY <2>1, NChannelsAssumption DEF Channels
    <3>5. Cardinality({d \in writes : d < c}) < room
      BY <1>2, <3>3, <3>4
    <3>6. Cardinality(Before(done, c)) <= Cardinality({d \in writes : d < c})
      BY <3>1, <3>2, FS_Subset
    <3>7. Cardinality(Before(done, c)) \in Nat
      BY <3>1, <3>2, FS_Subset, FS_CardinalityType
    <3> HIDE DEF done, writes
    <3> QED BY <1>2, <3>3, <3>5, <3>6, <3>7
  <2>2. done \in SUBSET Channels
    OBVIOUS
  <2> HIDE DEF done
  <2> QED BY <1>2, <2>1, <2>2, FewChannels
<1>4. Cardinality(done) \in Nat
  <2>1. done \in SUBSET Channels
    OBVIOUS
  <2> HIDE DEF done
  <2> QED BY <2>1, ChannelsFinite, FS_Subset, FS_CardinalityType
<1>5. passed \subseteq Channels
  OBVIOUS
<1> HIDE DEF passed, done
<1>6. room' \in Nat /\ status' \in {ending, "aborted"}
  BY <1>1, <1>2, <1>3, <1>4
<1>7. ASSUME NEW c \in Channels
      PROVE  \/ chan'[c] = result[c].chan /\ file'[c] = file[c] \o result[c].out
             \/ chan'[c] = chan[c] /\ file'[c] = file[c] /\ status' = "aborted"
  <2>1. CASE c \in passed
    BY <1>1, <2>1
  <2>2. CASE c \notin passed
    BY <1>1, <2>2
  <2> QED BY <2>1, <2>2
<1>8. /\ chan' = [c \in Channels |-> chan'[c]]
      /\ file' = [c \in Channels |-> file'[c]]
  BY <1>1, Zenon
<1> QED BY <1>6, <1>7, <1>8

-----------------------------------------------------------------------------
(***************************************************************************)
(* The methods of a channel                                                *)
(***************************************************************************)

\* The record that receives the sample x, after the push.
Filled(ch, x) == Push(WithRecord(ch).record, x)

LEMMA PushFacts ==
    ASSUME NEW r \in Record, NEW x \in Nat
    PROVE  /\ Push(r, x) \in Record
           /\ Push(r, x).seq = r.seq
           /\ Push(r, x).start = r.start
           /\ Push(r, x).samples = Append(r.samples, x)
<1> DEFINE more == Append(r.samples, x)
<1>1. more \in Seq(Nat) /\ Push(r, x) = [r EXCEPT !.samples = more]
  BY DEF Record, Push
<1> HIDE DEF more
<1>2. [r EXCEPT !.samples = more] \in Record
  BY <1>1 DEF Record
<1>3. /\ [r EXCEPT !.samples = more].seq = r.seq
      /\ [r EXCEPT !.samples = more].start = r.start
      /\ [r EXCEPT !.samples = more].samples = more
  BY <1>1 DEF Record
<1> QED BY <1>1, <1>2, <1>3 DEF more

LEMMA WithRecordFacts ==
    ASSUME NEW ch \in Channel, ch.time # None
    PROVE  LET open == WithRecord(ch)
           IN  /\ open \in Channel
               /\ open.time = ch.time
               /\ open.offset = ch.offset
               /\ ch.record = None =>
                     /\ open.record = NewRecord(ch)
                     /\ open.next = ch.next + 1
               /\ ch.record # None => open = ch
               /\ open.record \in Record
<1>1. CASE ch.record = None
  <2>1. NewRecord(ch) \in Record
    BY DEF NewRecord, Clock, Channel, Record
  <2>2. WithRecord(ch) = [ch EXCEPT !.record = NewRecord(ch), !.next = @ + 1]
    BY <1>1 DEF WithRecord
  <2>3. ch.next + 1 \in Nat
    BY DEF Channel
  <2> DEFINE e == [ch EXCEPT !.record = NewRecord(ch), !.next = @ + 1]
  <2>4. e \in Channel
    BY <2>1, <2>3 DEF Channel
  <2>5. /\ e.record = NewRecord(ch) /\ e.next = ch.next + 1
        /\ e.time = ch.time /\ e.offset = ch.offset
    BY DEF Channel
  <2>6. WithRecord(ch) = e
    BY <2>2
  <2> HIDE DEF e
  <2> QED BY <1>1, <2>1, <2>4, <2>5, <2>6
<1>2. CASE ch.record # None
  BY <1>2 DEF WithRecord, Channel
<1> QED BY <1>1, <1>2

\* A new record starts at the channel's clock and holds x; an open one keeps
\* its header and its samples, and x comes after them.
LEMMA FilledFacts ==
    ASSUME NEW ch \in Channel, ch.time # None, NEW x \in Nat
    PROVE  /\ Filled(ch, x) \in Record
           /\ ch.record = None =>
                 /\ Filled(ch, x).seq = ch.next
                 /\ Filled(ch, x).start = Clock(ch)
                 /\ Len(Filled(ch, x).samples) = 1
                 /\ Filled(ch, x).samples[1] = x
           /\ ch.record # None =>
                 /\ Filled(ch, x).seq = ch.record.seq
                 /\ Filled(ch, x).start = ch.record.start
                 /\ Len(Filled(ch, x).samples) = Len(ch.record.samples) + 1
                 /\ \A i \in 1 .. Len(ch.record.samples) :
                       Filled(ch, x).samples[i] = ch.record.samples[i]
                 /\ Filled(ch, x).samples[Len(ch.record.samples) + 1] = x
<1> DEFINE r == WithRecord(ch).record
<1>1. /\ r \in Record
      /\ ch.record = None => r = NewRecord(ch)
      /\ ch.record # None => r = ch.record
  BY WithRecordFacts
<1> HIDE DEF r
<1>2. /\ Filled(ch, x) \in Record
      /\ Filled(ch, x).seq = r.seq
      /\ Filled(ch, x).start = r.start
      /\ Filled(ch, x).samples = Append(r.samples, x)
  BY <1>1, PushFacts DEF Filled, r
<1>3. CASE ch.record = None
  BY <1>1, <1>2, <1>3 DEF NewRecord
<1>4. CASE ch.record # None
  BY <1>1, <1>2, <1>4, AppendProperties DEF Record
<1> QED BY <1>2, <1>3, <1>4

LEMMA SampleFacts ==
    ASSUME NEW ch \in Channel, ch.time # None, NEW x \in Nat
    PROVE  LET s == Sample(ch, x)
           IN  /\ s.chan \in Channel
               /\ s.chan.time = ch.time
               /\ s.chan.offset = ch.offset + 1
               /\ s.chan.next = IF ch.record = None THEN ch.next + 1 ELSE ch.next
               /\ \/ /\ IsFull(Filled(ch, x))
                     /\ s.chan.record = None
                     /\ s.out = << Filled(ch, x) >>
                  \/ /\ ~ IsFull(Filled(ch, x))
                     /\ s.chan.record = Filled(ch, x)
                     /\ s.out = << >>
<1> DEFINE open == WithRecord(ch)
           after == [open EXCEPT !.offset = @ + 1]
           r == Filled(ch, x)
<1>1. /\ open \in Channel
      /\ open.time = ch.time /\ open.offset = ch.offset
      /\ open.next = IF ch.record = None THEN ch.next + 1 ELSE ch.next
  BY WithRecordFacts DEF Channel
<1>2. r \in Record /\ r = Push(open.record, x)
  BY FilledFacts DEF Filled
<1>3. /\ IsFull(r) => Sample(ch, x) = [chan |-> [after EXCEPT !.record = None],
                                      out |-> << r >>]
      /\ ~ IsFull(r) => Sample(ch, x) = [chan |-> [after EXCEPT !.record = r],
                                        out |-> << >>]
  BY DEF Sample, Filled
<1> HIDE DEF open, r
<1>4. /\ after \in Channel
      /\ after.time = ch.time /\ after.offset = ch.offset + 1
      /\ after.next = open.next
  BY <1>1 DEF Channel
<1> HIDE DEF after
<1>5. ASSUME NEW v \in Record \cup {None}
      PROVE  LET a == [after EXCEPT !.record = v]
             IN  /\ a \in Channel /\ a.record = v /\ a.time = ch.time
                 /\ a.offset = ch.offset + 1 /\ a.next = open.next
  BY <1>4 DEF Channel
<1>6. CASE IsFull(r)
  <2>1. /\ Sample(ch, x).chan = [after EXCEPT !.record = None]
        /\ Sample(ch, x).out = << r >>
    BY <1>3, <1>6
  <2>2. [after EXCEPT !.record = None].record = None
    BY <1>5
  <2> QED BY <1>1, <1>5, <1>6, <2>1, <2>2 DEF r
<1>7. CASE ~ IsFull(r)
  <2>1. /\ Sample(ch, x).chan = [after EXCEPT !.record = r]
        /\ Sample(ch, x).out = << >>
    BY <1>3, <1>7
  <2>2. [after EXCEPT !.record = r].record = r
    BY <1>2, <1>5
  <2> QED BY <1>1, <1>2, <1>5, <1>7, <2>1, <2>2 DEF r
<1> QED BY <1>6, <1>7

\* Before the first Timestamp a sample changes nothing.
LEMMA SampleUntimed ==
    ASSUME NEW ch \in Channel, ch.time = None, NEW x
    PROVE  Sample(ch, x).chan = ch /\ Sample(ch, x).out = << >>
BY DEF Sample

LEMMA SetTimeFacts ==
    ASSUME NEW ch \in Channel, NEW t \in Nat
    PROVE  LET s == SetTime(ch, t)
           IN  /\ s \in Channel
               /\ s.time = t
               /\ s.offset = 0
               /\ s.next = ch.next
               /\ s.record = ch.record
<1> DEFINE s == [ch EXCEPT !.time = t, !.offset = 0]
<1>1. s \in Channel
  BY DEF Channel
<1>2. s.time = t /\ s.offset = 0 /\ s.next = ch.next /\ s.record = ch.record
  BY DEF Channel
<1>3. SetTime(ch, t) = s
  BY DEF SetTime
<1> HIDE DEF s
<1> QED BY <1>1, <1>2, <1>3

LEMMA LostFacts ==
    ASSUME NEW ch \in Channel, NEW n \in Nat
    PROVE  LET s == Lost(ch, n)
           IN  /\ s.chan \in Channel
               /\ s.chan.time = ch.time
               /\ s.chan.offset = ch.offset + n
               /\ s.chan.next = ch.next
               /\ s.chan.record = None
               /\ s.out = Pending(ch)
<1>1. ch.offset + n \in Nat
  BY DEF Channel
<1>2. /\ Lost(ch, n).chan = [ch EXCEPT !.record = None, !.offset = @ + n]
      /\ Lost(ch, n).out = Pending(ch)
  BY DEF Lost
<1> DEFINE e == [ch EXCEPT !.record = None, !.offset = @ + n]
<1>3. e \in Channel
  BY <1>1 DEF Channel
<1>4. /\ e.record = None /\ e.offset = ch.offset + n
      /\ e.time = ch.time /\ e.next = ch.next
  BY DEF Channel
<1>5. Lost(ch, n).chan = e
  BY <1>2
<1> HIDE DEF e
<1> QED BY <1>2, <1>3, <1>4, <1>5

LEMMA PendingFacts ==
    ASSUME NEW ch \in Channel
    PROVE  /\ ch.record = None => Pending(ch) = << >>
           /\ ch.record # None => ch.record \in Record /\ Pending(ch) = << ch.record >>
           /\ Pending(ch) \in Seq(Record)
BY DEF Pending, Channel

\* A file after a write of no record, or of one.
LEMMA Writing ==
    ASSUME NEW list \in Seq(Record), NEW r \in Record
    PROVE  /\ list \o << >> = list
           /\ list \o << r >> = Append(list, r)
BY AppendIsConcat

LEMMA WritingNothing ==
    ASSUME NEW list \in Seq(Record)
    PROVE  list \o << >> = list
BY ConcatEmptySeq

-----------------------------------------------------------------------------
(***************************************************************************)
(* The inductive invariant                                                 *)
(***************************************************************************)

\* What was read lies in the past.
Past ==
    /\ \A s \in stamps : s <= tick
    /\ \A g \in silent : g <= tick
    /\ \A x \in heard : x < tick

\* A record that was ever begun: not empty, and its times are true.
RecordOK(r) ==
    /\ Len(r.samples) \in 1 .. Capacity
    /\ \A i \in 1 .. Len(r.samples) :
          /\ r.samples[i] < tick
          /\ Timed(r.samples[1], r.samples[i]) => r.start + i - 1 = r.samples[i]

RecordsOK(c) == \A r \in Written(c) \cup Open(c) : RecordOK(r)

\* The clock of a channel starts from the latest Timestamp.  It is behind the
\* recorder only if samples went missing silently since then.
ClockOK(c) ==
    /\ chan[c].time = None =>
          stamps = {} /\ chan[c].record = None /\ file[c] = << >>
    /\ chan[c].time # None =>
          /\ \A s \in stamps : s <= chan[c].time
          /\ Clock(chan[c]) <= tick
          /\ (\A g \in silent : g <= chan[c].time) => Clock(chan[c]) = tick

\* The open record ends at the clock or before it, and exactly at the next
\* sample when its times are true.
OpenOK(c) ==
    chan[c].record # None =>
        LET r == chan[c].record
            end == r.start + Len(r.samples)
        IN  /\ end <= Clock(chan[c])
            /\ Timed(r.samples[1], tick) => end = tick

\* Records are numbered in the order of the file.
NumberOK(c) ==
    /\ chan[c].record = None => chan[c].next = Len(file[c]) + 1
    /\ chan[c].record # None => /\ chan[c].next = Len(file[c]) + 2
                                /\ chan[c].record.seq = Len(file[c]) + 1

\* The next record to be written does not begin before the last one ends.
EndOK(c) ==
    file[c] # << >> =>
        LET last == file[c][Len(file[c])]
        IN  last.start + Len(last.samples) <=
                IF chan[c].record = None THEN Clock(chan[c]) ELSE chan[c].record.start

IInv ==
    /\ TypeOK
    /\ Past
    /\ \A c \in Channels : RecordsOK(c)
    /\ status = "reading" =>
          \A c \in Channels : ClockOK(c) /\ OpenOK(c) /\ NumberOK(c) /\ EndOK(c)

-----------------------------------------------------------------------------
(***************************************************************************)
(* Type correctness                                                        *)
(***************************************************************************)

\* A pass whose results have the right types keeps the types of the output.
LEMMA PassType ==
    ASSUME NEW result, NEW raises, NEW ending, TypeOK,
           EachChannel(result, raises, ending),
           ending \in {"reading", "finished"},
           \A c \in Channels :
              /\ result[c].chan \in Channel
              /\ result[c].chan.record # None => ~ IsFull(result[c].chan.record)
              /\ result[c].out \in Seq(Record)
    PROVE  /\ room' \in Nat
           /\ status' \in {"reading", "finished", "aborted"}
           /\ chan' \in [Channels -> Channel]
           /\ \A c \in Channels :
                 chan'[c].record # None => ~ IsFull(chan'[c].record)
           /\ file' \in [Channels -> Seq(Record)]
<1>1. ASSUME NEW c \in Channels
      PROVE  /\ chan'[c] \in Channel
             /\ chan'[c].record # None => ~ IsFull(chan'[c].record)
             /\ file'[c] \in Seq(Record)
  <2>1. chan[c] \in Channel /\ file[c] \in Seq(Record)
    BY DEF TypeOK
  <2>2. file[c] \o result[c].out \in Seq(Record)
    BY <2>1, ConcatProperties
  <2> QED BY <2>1, <2>2, EachChannelStep DEF TypeOK
<1> QED BY <1>1, EachChannelStep

LEMMA TypeInit == Init => TypeOK
<1> SUFFICES ASSUME Init PROVE TypeOK
  OBVIOUS
<1>1. NewChannel \in Channel /\ NewChannel.record = None
  BY DEF NewChannel, Channel
<1>2. \A c \in Channels : chan[c] = NewChannel /\ file[c] = << >>
  BY DEF Init
<1> QED BY <1>1, <1>2, BoundsAssumption, RoomsAssumption DEF Init, TypeOK

LEMMA TypeStep == TypeOK /\ [Next]_vars => TypeOK'
<1> SUFFICES ASSUME TypeOK, [Next]_vars PROVE TypeOK'
  OBVIOUS
<1> USE DEF TypeOK
<1>1. CASE Timestamp
  <2>1. \A c \in Channels : /\ chan'[c] = SetTime(chan[c], tick)
                            /\ chan'[c] \in Channel
                            /\ chan'[c].record = chan[c].record
    BY <1>1, SetTimeFacts DEF Timestamp
  <2>2. chan' \in [Channels -> Channel]
    BY <1>1, <2>1 DEF Timestamp
  <2>3. /\ left' = left - 1 /\ left > 0
        /\ UNCHANGED << tick, refused, room, status, file, edata, rows, silent, heard >>
        /\ stamps' \subseteq Nat
    BY <1>1 DEF Timestamp, NextFrame, csv
  <2>4. \A c \in Channels : chan'[c].record # None => ~ IsFull(chan'[c].record)
    BY <2>1
  <2> QED BY <2>2, <2>3, <2>4
<1>2. CASE DataFrame
  <2> DEFINE result == [c \in Channels |-> Sample(chan[c], tick)]
  <2>1. ASSUME NEW c \in Channels
        PROVE  /\ result[c].chan \in Channel
               /\ result[c].chan.record # None => ~ IsFull(result[c].chan.record)
               /\ result[c].out \in Seq(Record)
    <3>1. /\ chan[c] \in Channel /\ tick \in Nat
          /\ result[c] = Sample(chan[c], tick)
          /\ chan[c].record # None => ~ IsFull(chan[c].record)
      OBVIOUS
    <3> HIDE DEF result, TypeOK
    <3>2. CASE chan[c].time = None
      <4>1. result[c].chan = chan[c] /\ result[c].out = << >>
        BY <3>1, <3>2, SampleUntimed
      <4> QED BY <3>1, <4>1
    <3>3. CASE chan[c].time # None
      <4>1. Filled(chan[c], tick) \in Record
        BY <3>1, <3>3, FilledFacts
      <4>2. /\ result[c].chan \in Channel
            /\ \/ /\ result[c].chan.record = None
                  /\ result[c].out = << Filled(chan[c], tick) >>
               \/ /\ ~ IsFull(Filled(chan[c], tick))
                  /\ result[c].chan.record = Filled(chan[c], tick)
                  /\ result[c].out = << >>
        BY <3>1, <3>3, SampleFacts
      <4>3. << Filled(chan[c], tick) >> \in Seq(Record) /\ << >> \in Seq(Record)
        BY <4>1
      <4>4. result[c].chan.record # None => ~ IsFull(result[c].chan.record)
        BY <4>2
      <4>5. result[c].out \in Seq(Record)
        BY <4>2, <4>3, Zenon
      <4> QED BY <4>2, <4>4, <4>5
    <3> QED BY <3>2, <3>3
  <2>2. EachChannel(result, {c \in Channels : RecordRaises(c)}, "reading")
    BY <1>2 DEF DataFrame
  <2> HIDE DEF result
  <2>3. /\ room' \in Nat
        /\ status' \in {"reading", "finished", "aborted"}
        /\ chan' \in [Channels -> Channel]
        /\ \A c \in Channels :
              chan'[c].record # None => ~ IsFull(chan'[c].record)
        /\ file' \in [Channels -> Seq(Record)]
    BY <2>1, <2>2, PassType
  <2> QED BY <1>2, <2>3 DEF DataFrame, NextFrame, csv
<1>3. CASE \E n \in 0 .. MaxLost : LostFrames(n)
  <2> PICK n \in 0 .. MaxLost : LostFrames(n)
    BY <1>3
  <2> DEFINE result == [c \in Channels |-> Lost(chan[c], n)]
  <2>1. ASSUME NEW c \in Channels
        PROVE  /\ result[c].chan \in Channel
               /\ result[c].chan.record # None => ~ IsFull(result[c].chan.record)
               /\ result[c].out \in Seq(Record)
    <3>1. /\ chan[c] \in Channel /\ n \in Nat
          /\ result[c] = Lost(chan[c], n)
      BY BoundsAssumption
    <3>2. /\ result[c].chan \in Channel
          /\ result[c].chan.record = None
          /\ result[c].out = Pending(chan[c])
      BY <3>1, LostFacts
    <3>3. Pending(chan[c]) \in Seq(Record)
      BY <3>1, PendingFacts
    <3> QED BY <3>2, <3>3
  <2>2. /\ room' \in Nat
        /\ status' \in {"reading", "finished", "aborted"}
        /\ chan' \in [Channels -> Channel]
        /\ \A c \in Channels :
              chan'[c].record # None => ~ IsFull(chan'[c].record)
        /\ file' \in [Channels -> Seq(Record)]
    <3>1. CASE chan[0].time = None
      BY <3>1 DEF LostFrames, output
    <3>2. CASE chan[0].time # None
      <4>1. EachChannel(result, {}, "reading")
        BY <3>2 DEF LostFrames
      <4> HIDE DEF result
      <4> QED BY <2>1, <4>1, PassType
    <3> QED BY <3>1, <3>2
  <2> QED BY <2>2, BoundsAssumption DEF LostFrames, NextFrame, csv, history
<1>4. CASE \E gap \in 0 .. MaxGap : OtherFrame(gap)
  <2> PICK gap \in 0 .. MaxGap : OtherFrame(gap)
    BY <1>4
  <2> QED BY BoundsAssumption DEF OtherFrame, NextFrame, output, csv
<1>5. CASE VoltageHumidity
  BY <1>5 DEF VoltageHumidity, NextFrame, output, history
<1>6. CASE Temperature
  <2>1. rows' \in Seq([time : Nat, voltage : Nat, measured : Nat])
    <3> DEFINE row == [time |-> IF chan[0].time = None THEN 0 ELSE chan[0].time,
                       voltage |-> edata, measured |-> tick]
    <3>1. row \in [time : Nat, voltage : Nat, measured : Nat]
      BY NChannelsAssumption DEF Channels, Channel
    <3>2. rows' = Append(rows, row)
      BY <1>6 DEF Temperature
    <3> HIDE DEF row
    <3> QED BY <3>1, <3>2
  <2> QED BY <1>6, <2>1 DEF Temperature, NextFrame, output, history
<1>7. CASE EndFrame
  <2> DEFINE result == [c \in Channels |-> Done(chan[c])]
  <2>1. ASSUME NEW c \in Channels
        PROVE  /\ result[c].chan \in Channel
               /\ result[c].chan.record # None => ~ IsFull(result[c].chan.record)
               /\ result[c].out \in Seq(Record)
    <3>1. /\ chan[c] \in Channel
          /\ result[c].chan = chan[c] /\ result[c].out = Pending(chan[c])
      BY DEF Done
    <3>2. Pending(chan[c]) \in Seq(Record)
      BY <3>1, PendingFacts
    <3> QED BY <3>1, <3>2
  <2>2. EachChannel(result, {}, "finished")
    BY <1>7 DEF EndFrame
  <2> HIDE DEF result
  <2>3. /\ room' \in Nat
        /\ status' \in {"reading", "finished", "aborted"}
        /\ chan' \in [Channels -> Channel]
        /\ \A c \in Channels :
              chan'[c].record # None => ~ IsFull(chan'[c].record)
        /\ file' \in [Channels -> Seq(Record)]
    BY <2>1, <2>2, PassType
  <2> QED BY <1>7, <2>3 DEF EndFrame, card, csv, history
<1>8. CASE ReadError
  BY <1>8 DEF ReadError, card, output, csv, history
<1>9. CASE UNCHANGED vars
  BY <1>9 DEF vars, card, output, csv, history
<1> QED BY <1>1, <1>2, <1>3, <1>4, <1>5, <1>6, <1>7, <1>8, <1>9 DEF Next

\* Every variable has its type, and no sample meets a full record.
THEOREM TypeCorrect == Spec => []TypeOK
BY TypeInit, TypeStep, PTL DEF Spec

-----------------------------------------------------------------------------
(***************************************************************************)
(* Records and their times                                                 *)
(***************************************************************************)

\* What a write adds to the records of a file.
LEMMA WrittenAfter ==
    ASSUME NEW c \in Channels, file[c] \in Seq(Record), NEW out \in Seq(Record),
           file'[c] = file[c] \o out
    PROVE  /\ out = << >> => file'[c] = file[c] /\ Written(c)' = Written(c)
           /\ \A r \in Record : out = << r >> =>
                 /\ Len(file'[c]) = Len(file[c]) + 1
                 /\ file'[c][Len(file'[c])] = r
                 /\ Written(c)' = Written(c) \cup {r}
<1>1. CASE out = << >>
  <2>1. file'[c] = file[c]
    BY <1>1, Writing
  <2> QED BY <1>1, <2>1 DEF Written
<1>2. ASSUME NEW r \in Record, out = << r >>
      PROVE  /\ Len(file'[c]) = Len(file[c]) + 1
             /\ file'[c][Len(file'[c])] = r
             /\ Written(c)' = Written(c) \cup {r}
  <2>1. file'[c] = Append(file[c], r)
    BY <1>2, Writing
  <2>2. /\ Len(file'[c]) = Len(file[c]) + 1
        /\ \A k \in 1 .. Len(file[c]) : file'[c][k] = file[c][k]
        /\ file'[c][Len(file[c]) + 1] = r
    BY <2>1, AppendProperties
  <2>3. Len(file[c]) \in Nat
    BY LenProperties
  <2>4. Written(c)' = Written(c) \cup {r}
    <3>1. 1 .. Len(file[c]) + 1 = (1 .. Len(file[c])) \cup {Len(file[c]) + 1}
      BY <2>3
    <3> QED BY <2>2, <3>1 DEF Written
  <2> QED BY <2>2, <2>4
<1> QED BY <1>1, <1>2

LEMMA RecordTypes ==
    ASSUME TypeOK, NEW c \in Channels
    PROVE  Written(c) \subseteq Record /\ Open(c) \subseteq Record
<1>1. /\ file[c] \in Seq(Record)
      /\ chan[c] \in Channel
  BY DEF TypeOK
<1>2. Written(c) \subseteq Record
  BY <1>1, ElementOfSeq DEF Written
<1>3. Open(c) \subseteq Record
  BY <1>1 DEF Open, Channel
<1> QED BY <1>2, <1>3

\* What was read before stays, and what is new is no earlier than the next
\* sample.
HistoryGrows ==
    /\ tick' \in Nat /\ tick <= tick'
    /\ silent \subseteq silent'
    /\ \A s \in stamps' : s \in stamps \/ s >= tick

\* The times of a record's samples do not depend on what is read later.
LEMMA RecordKept ==
    ASSUME TypeOK, HistoryGrows, stamps' \subseteq Nat, NEW r \in Record, RecordOK(r)
    PROVE  RecordOK(r)'
<1> USE DEF TypeOK, HistoryGrows
<1>1. Len(r.samples) \in 1 .. Capacity
  BY DEF RecordOK
<1>2. ASSUME NEW i \in 1 .. Len(r.samples)
      PROVE  /\ r.samples[i] < tick'
             /\ Timed(r.samples[1], r.samples[i])' => r.start + i - 1 = r.samples[i]
  <2>1. r.samples[1] \in Nat /\ r.samples[i] \in Nat
    BY <1>1 DEF Record
  <2>2. r.samples[1] < tick /\ r.samples[i] < tick
    <3>1. 1 \in 1 .. Len(r.samples)
      BY <1>1
    <3> QED BY <3>1 DEF RecordOK
  <2>3. Timed(r.samples[1], r.samples[i])' => Timed(r.samples[1], r.samples[i])
    <3> SUFFICES ASSUME Timed(r.samples[1], r.samples[i])'
                 PROVE  Timed(r.samples[1], r.samples[i])
      OBVIOUS
    <3>1. PICK s \in stamps' : /\ s <= r.samples[1]
                              /\ ~ \E g \in silent' : s < g /\ g <= r.samples[i]
      BY DEF Timed
    <3>2. s \in stamps
      BY <2>1, <2>2, <3>1
    <3> QED BY <3>1, <3>2 DEF Timed
  <2> QED BY <2>1, <2>2, <2>3 DEF RecordOK
<1> QED BY <1>1, <1>2 DEF RecordOK

\* A channel that begins no record keeps true times.
LEMMA RecordsKept ==
    ASSUME TypeOK, HistoryGrows, stamps' \subseteq Nat, NEW c \in Channels, RecordsOK(c),
           Written(c)' \cup Open(c)' \subseteq Written(c) \cup Open(c)
    PROVE  RecordsOK(c)'
<1>1. \A r \in Written(c) \cup Open(c) : RecordOK(r)'
  BY RecordKept, RecordTypes DEF RecordsOK
<1> QED BY <1>1 DEF RecordsOK

\* The record that takes the sample of a data frame has true times.
LEMMA FilledOK ==
    ASSUME IInv, status = "reading", NEW c \in Channels, chan[c].time # None,
           tick' = tick + 1, UNCHANGED << stamps, silent >>,
           NEW r \in Record, r = Filled(chan[c], tick)
    PROVE  /\ RecordOK(r)'
           /\ r.start + Len(r.samples) <= Clock(chan[c]) + 1
           /\ Timed(r.samples[1], tick)' => r.start + Len(r.samples) = tick'
<1> DEFINE ch == chan[c]
           n == Len(r.samples)
<1>1. /\ TypeOK /\ Past /\ RecordsOK(c) /\ ClockOK(c) /\ OpenOK(c)
      /\ ch \in Channel /\ tick \in Nat /\ Capacity \in Nat \ {0}
      /\ stamps \subseteq Nat /\ silent \subseteq Nat
      /\ ch.record # None => ~ IsFull(ch.record)
  BY CapacityAssumption DEF IInv, TypeOK
<1>2. /\ Clock(ch) \in Nat /\ ch.time \in Nat
  BY <1>1 DEF Clock, Channel
<1>3. /\ \A s \in stamps : s <= ch.time
      /\ Clock(ch) <= tick
      /\ (\A g \in silent : g <= ch.time) => Clock(ch) = tick
  BY <1>1 DEF ClockOK
<1>4. \A a, b \in Nat : Timed(a, b + 1) => Timed(a, b)
  BY <1>1 DEF Timed
<1>5. /\ \A a, b \in Nat : Timed(a, b)' <=> Timed(a, b)
      /\ Timed(r.samples[1], tick)' <=> Timed(r.samples[1], tick + 1)
  BY DEF Timed
<1>6. CASE ch.record = None
  <2>1. /\ r.start = Clock(ch) /\ n = 1 /\ r.samples[1] = tick
    BY <1>1, <1>6, FilledFacts
  <2>2. Timed(tick, tick) => Clock(ch) = tick
    <3> SUFFICES ASSUME Timed(tick, tick) PROVE Clock(ch) = tick
      OBVIOUS
    <3>1. PICK s \in stamps : ~ \E g \in silent : s < g /\ g <= tick
      BY DEF Timed
    <3>2. \A g \in silent : g <= ch.time
      BY <1>1, <1>2, <1>3, <3>1 DEF Past
    <3> QED BY <1>3, <3>2
  <2>3. RecordOK(r)'
    <3>1. \A i \in 1 .. n : i = 1
      BY <2>1
    <3>2. r.samples[1] < tick'
      BY <1>1, <2>1
    <3>3. Timed(r.samples[1], r.samples[1])' => r.start + 1 - 1 = r.samples[1]
      BY <1>1, <1>2, <1>5, <2>1, <2>2
    <3> QED BY <1>1, <2>1, <3>1, <3>2, <3>3 DEF RecordOK
  <2>4. Timed(r.samples[1], tick)' => r.start + n = tick'
    BY <1>1, <1>2, <1>4, <1>5, <2>1, <2>2
  <2> QED BY <1>2, <2>1, <2>3, <2>4
<1>7. CASE ch.record # None
  <2> DEFINE o == ch.record
             m == Len(o.samples)
  <2>1. /\ o \in Record /\ m \in Nat /\ o \in Open(c)
    BY <1>1, <1>7 DEF Channel, Record, Open
  <2>2. /\ r.start = o.start /\ n = m + 1
        /\ \A i \in 1 .. m : r.samples[i] = o.samples[i]
        /\ r.samples[m + 1] = tick
    BY <1>1, <1>7, FilledFacts
  <2>3. RecordOK(o) /\ m < Capacity
    BY <1>1, <1>7, <2>1 DEF RecordsOK, IsFull
  <2>4. m >= 1 /\ r.samples[1] = o.samples[1]
    BY <2>1, <2>2, <2>3 DEF RecordOK
  <2>5. /\ o.start + m <= Clock(ch)
        /\ Timed(r.samples[1], tick) => o.start + m = tick
    BY <1>1, <1>7, <2>4 DEF OpenOK
  <2>6. o.start \in Nat /\ \A i \in 1 .. m : o.samples[i] \in Nat
    <3>1. o.start \in Nat /\ o.samples \in Seq(Nat)
      BY <2>1 DEF Record
    <3> QED BY <3>1, ElementOfSeq
  <2>7. r.samples[1] \in Nat
    BY <2>4, <2>6, <2>1
  <2>8. ASSUME NEW i \in 1 .. n
        PROVE  /\ r.samples[i] < tick'
               /\ Timed(r.samples[1], r.samples[i])' => r.start + i - 1 = r.samples[i]
    <3>1. CASE i = m + 1
      BY <1>1, <1>5, <2>1, <2>2, <2>5, <2>6, <2>7, <3>1
    <3>2. CASE i # m + 1
      <4>1. i \in 1 .. m /\ r.samples[i] = o.samples[i] /\ r.samples[i] \in Nat
        <5>1. i \in 1 .. m
          BY <2>1, <2>2, <3>2
        <5>2. r.samples[i] = o.samples[i]
          BY <2>2, <5>1
        <5>3. o.samples[i] \in Nat
          BY <2>6, <5>1
        <5> QED BY <5>1, <5>2, <5>3
      <4>2. /\ o.samples[i] < tick
            /\ Timed(o.samples[1], o.samples[i]) => o.start + i - 1 = o.samples[i]
        BY <2>3, <4>1 DEF RecordOK
      <4> QED BY <1>1, <1>5, <2>2, <2>4, <2>7, <4>1, <4>2
    <3> QED BY <3>1, <3>2
  <2>9. RecordOK(r)'
    BY <1>1, <2>1, <2>2, <2>3, <2>4, <2>8 DEF RecordOK
  <2>10. Timed(r.samples[1], tick)' => r.start + n = tick'
    <3>1. Timed(r.samples[1], tick)' => Timed(r.samples[1], tick)
      BY <1>1, <1>4, <1>5, <2>7
    <3>2. /\ r.start = o.start /\ n = m + 1
          /\ o.start \in Nat /\ m \in Nat /\ tick \in Nat
      BY <1>1, <2>1, <2>2, <2>6
    <3>3. Timed(r.samples[1], tick) => o.start + m = tick
      BY <2>5
    <3> HIDE DEF o, m, n
    <3> QED BY <3>1, <3>2, <3>3
  <2>11. r.start + n <= Clock(ch) + 1
    BY <1>2, <2>1, <2>2, <2>5, <2>6
  <2> QED BY <2>9, <2>10, <2>11
<1> QED BY <1>6, <1>7

-----------------------------------------------------------------------------
(***************************************************************************)
(* The invariant is inductive                                              *)
(***************************************************************************)

\* All that IInv says of one channel while the card is being read.
ChannelOK(c) == ClockOK(c) /\ OpenOK(c) /\ NumberOK(c) /\ EndOK(c)

LEMMA ChannelTypes ==
    ASSUME TypeOK, NEW c \in Channels
    PROVE  /\ chan[c] \in Channel /\ file[c] \in Seq(Record)
           /\ chan[c].offset \in Nat /\ chan[c].next \in Nat
           /\ chan[c].time # None => chan[c].time \in Nat /\ Clock(chan[c]) \in Nat
           /\ chan[c].record # None => /\ chan[c].record \in Record
                                       /\ chan[c].record.start \in Nat
                                       /\ Len(chan[c].record.samples) \in Nat
           /\ Len(file[c]) \in Nat
           /\ file[c] # << >> =>
                 /\ file[c][Len(file[c])] \in Record
                 /\ file[c][Len(file[c])].start \in Nat
                 /\ Len(file[c][Len(file[c])].samples) \in Nat
<1>1. chan[c] \in Channel /\ file[c] \in Seq(Record)
  BY DEF TypeOK
<1>2. /\ chan[c].offset \in Nat /\ chan[c].next \in Nat
      /\ chan[c].time # None => chan[c].time \in Nat /\ Clock(chan[c]) \in Nat
      /\ chan[c].record # None => chan[c].record \in Record
  BY <1>1 DEF Channel, Clock
<1>3. \A r \in Record : r.start \in Nat /\ Len(r.samples) \in Nat
  BY DEF Record
<1>4. Len(file[c]) \in Nat /\ (file[c] # << >> => Len(file[c]) >= 1)
  BY <1>1, EmptySeq, LenProperties
<1>5. file[c] # << >> => file[c][Len(file[c])] \in Record
  BY <1>1, <1>4, ElementOfSeq
<1> QED BY <1>1, <1>2, <1>3, <1>4, <1>5

\* The open record has samples, all of them read before.
LEMMA OpenSamples ==
    ASSUME TypeOK, NEW c \in Channels, RecordsOK(c), chan[c].record # None
    PROVE  LET r == chan[c].record
           IN  /\ Len(r.samples) >= 1
               /\ \A i \in 1 .. Len(r.samples) :
                     r.samples[i] \in Nat /\ r.samples[i] < tick
               /\ r.samples[1] \in Nat /\ r.samples[1] < tick
<1> DEFINE r == chan[c].record
<1>1. r \in Record /\ r \in Open(c)
  BY ChannelTypes DEF Open
<1>2. RecordOK(r)
  BY <1>1 DEF RecordsOK
<1>3. r.samples \in Seq(Nat)
  BY <1>1 DEF Record
<1>4. \A i \in 1 .. Len(r.samples) : r.samples[i] \in Nat
  BY <1>3, ElementOfSeq
<1>5. 1 \in 1 .. Len(r.samples) /\ Len(r.samples) >= 1
  BY <1>2, CapacityAssumption DEF RecordOK
<1> QED BY <1>2, <1>4, <1>5 DEF RecordOK

\* A Timestamp frame.
LEMMA TimestampStep ==
    ASSUME IInv, TypeOK', Timestamp, NEW c \in Channels
    PROVE  RecordsOK(c)' /\ ChannelOK(c)'
<1>1. /\ TypeOK /\ Past /\ RecordsOK(c) /\ status = "reading"
      /\ ClockOK(c) /\ OpenOK(c) /\ NumberOK(c) /\ EndOK(c)
  BY DEF IInv, Timestamp, NextFrame
<1>2. /\ chan[c] \in Channel /\ tick \in Nat
      /\ stamps \subseteq Nat /\ silent \subseteq Nat
  BY <1>1 DEF TypeOK
<1>3. /\ chan'[c].time = tick /\ chan'[c].offset = 0
      /\ chan'[c].next = chan[c].next /\ chan'[c].record = chan[c].record
  <2>1. chan'[c] = SetTime(chan[c], tick)
    BY DEF Timestamp
  <2> QED BY <1>2, <2>1, SetTimeFacts
<1>4. /\ stamps' = stamps \cup {tick} /\ silent' = silent
      /\ tick' = tick /\ file' = file
  BY DEF Timestamp
<1>5. Clock(chan[c])' = tick
  BY <1>2, <1>3 DEF Clock
<1>6. tick # None
  BY <1>2, NoneAssumption
<1>7. RecordsOK(c)'
  <2>1. HistoryGrows /\ stamps' \subseteq Nat
    BY <1>2, <1>4 DEF HistoryGrows
  <2>2. Written(c)' \cup Open(c)' \subseteq Written(c) \cup Open(c)
    BY <1>3, <1>4 DEF Written, Open
  <2> QED BY <1>1, <2>1, <2>2, RecordsKept
<1>8. ClockOK(c)'
  BY <1>1, <1>2, <1>3, <1>4, <1>5, <1>6 DEF ClockOK, Past
<1>9. OpenOK(c)'
  <2> SUFFICES ASSUME NEW r \in Record, r = chan[c].record
               PROVE  /\ r.start + Len(r.samples) <= tick
                      /\ Timed(r.samples[1], tick)' => r.start + Len(r.samples) = tick
    BY <1>1, <1>2, <1>3, <1>4, <1>5, ChannelTypes DEF OpenOK
  <2>1. chan[c].record # None
    BY NoneAssumption
  <2>2. /\ r.start + Len(r.samples) <= Clock(chan[c])
        /\ Timed(r.samples[1], tick) => r.start + Len(r.samples) = tick
    BY <1>1, <2>1 DEF OpenOK
  <2>3. Clock(chan[c]) <= tick /\ chan[c].time # None
    BY <1>1, <2>1 DEF ClockOK
  <2>4. r.samples[1] < tick /\ r.samples[1] \in Nat
    BY <1>1, <2>1, OpenSamples
  <2>5. Timed(r.samples[1], tick)' => Timed(r.samples[1], tick)
    <3> SUFFICES ASSUME Timed(r.samples[1], tick)' PROVE Timed(r.samples[1], tick)
      OBVIOUS
    <3>1. PICK s \in stamps' : /\ s <= r.samples[1]
                              /\ ~ \E g \in silent' : s < g /\ g <= tick'
      BY DEF Timed
    <3>2. s \in stamps
      BY <1>2, <1>4, <2>4, <3>1
    <3> QED BY <1>4, <3>1, <3>2 DEF Timed
  <2>6. r.start + Len(r.samples) \in Nat
    BY DEF Record
  <2> QED BY <1>1, <1>2, <2>2, <2>3, <2>5, <2>6, ChannelTypes
<1>10. NumberOK(c)'
  BY <1>1, <1>3, <1>4 DEF NumberOK
<1>11. EndOK(c)'
  <2>1. chan[c].time = None => file[c] = << >>
    BY <1>1 DEF ClockOK
  <2>2. chan[c].time # None => Clock(chan[c]) <= tick
    BY <1>1 DEF ClockOK
  <2> QED BY <1>1, <1>2, <1>3, <1>4, <1>5, <2>1, <2>2, ChannelTypes DEF EndOK
<1> QED BY <1>7, <1>8, <1>9, <1>10, <1>11 DEF ChannelOK

\* A data frame, for a channel that was handled after the first Timestamp.
LEMMA SampleStep ==
    ASSUME IInv, TypeOK', DataFrame, NEW c \in Channels, chan[c].time # None,
           chan'[c] = Sample(chan[c], tick).chan,
           file'[c] = file[c] \o Sample(chan[c], tick).out
    PROVE  RecordsOK(c)' /\ ChannelOK(c)'
<1> DEFINE ch == chan[c]
<1>1. /\ TypeOK /\ Past /\ RecordsOK(c) /\ status = "reading"
      /\ ClockOK(c) /\ OpenOK(c) /\ NumberOK(c) /\ EndOK(c)
  BY DEF IInv, DataFrame, NextFrame
<1>2. /\ ch \in Channel /\ tick \in Nat /\ file[c] \in Seq(Record)
      /\ ch.offset \in Nat /\ ch.next \in Nat /\ Len(file[c]) \in Nat
      /\ ch.time \in Nat /\ Clock(ch) \in Nat
      /\ stamps \subseteq Nat /\ silent \subseteq Nat
  BY <1>1, ChannelTypes DEF TypeOK
<1>3. tick' = tick + 1 /\ stamps' = stamps /\ silent' = silent
  BY DEF DataFrame
<1>4. PICK r \in Record : r = Filled(ch, tick)
  BY <1>2, FilledFacts
<1>5. /\ RecordOK(r)'
      /\ r.start + Len(r.samples) <= Clock(ch) + 1
      /\ Timed(r.samples[1], tick)' => r.start + Len(r.samples) = tick'
  BY <1>1, <1>3, <1>4, FilledOK
<1>6. /\ chan'[c].time = ch.time /\ chan'[c].offset = ch.offset + 1
      /\ chan'[c].next = IF ch.record = None THEN ch.next + 1 ELSE ch.next
      /\ \/ chan'[c].record = None /\ Sample(ch, tick).out = << r >>
         \/ chan'[c].record = r /\ Sample(ch, tick).out = << >>
  BY <1>2, <1>4, SampleFacts
<1>7. \/ /\ chan'[c].record = None
         /\ Len(file'[c]) = Len(file[c]) + 1 /\ file'[c][Len(file'[c])] = r
         /\ Written(c)' = Written(c) \cup {r}
      \/ /\ chan'[c].record = r
         /\ file'[c] = file[c] /\ Written(c)' = Written(c)
  <2>1. Sample(ch, tick).out \in Seq(Record)
    <3>1. << r >> \in Seq(Record) /\ << >> \in Seq(Record)
      OBVIOUS
    <3> QED BY <1>6, <3>1, Zenon
  <2>2. CASE chan'[c].record = None /\ Sample(ch, tick).out = << r >>
    BY <1>2, <2>1, <2>2, WrittenAfter
  <2>3. CASE chan'[c].record = r /\ Sample(ch, tick).out = << >>
    BY <1>2, <2>1, <2>3, WrittenAfter
  <2> QED BY <1>6, <2>2, <2>3
<1>8. Clock(ch)' = Clock(ch) + 1
  BY <1>2, <1>6 DEF Clock
<1>9. r # None
  BY NoneAssumption
<1>10. RecordsOK(c)'
  <2>1. HistoryGrows /\ stamps' \subseteq Nat
    BY <1>2, <1>3 DEF HistoryGrows
  <2>2. Written(c)' \cup Open(c)' \subseteq Written(c) \cup {r}
    BY <1>7 DEF Open
  <2>3. \A q \in Written(c) : RecordOK(q)'
    BY <1>1, <2>1, RecordKept, RecordTypes DEF RecordsOK
  <2> QED BY <1>5, <2>2, <2>3 DEF RecordsOK
<1>11. ClockOK(c)'
  <2>1. /\ \A s \in stamps : s <= ch.time
        /\ Clock(ch) <= tick
        /\ (\A g \in silent : g <= ch.time) => Clock(ch) = tick
    BY <1>1, <1>2, NoneAssumption DEF ClockOK
  <2> QED BY <1>2, <1>3, <1>6, <1>8, <2>1, NoneAssumption DEF ClockOK
<1>12. OpenOK(c)'
  BY <1>5, <1>7, <1>8, <1>9 DEF OpenOK
<1>13. /\ r.seq = Len(file[c]) + 1
       /\ chan'[c].next = Len(file[c]) + 2
  <2>1. CASE ch.record = None
    BY <1>1, <1>2, <1>4, <1>6, <2>1, FilledFacts DEF NumberOK
  <2>2. CASE ch.record # None
    BY <1>1, <1>2, <1>4, <1>6, <2>2, FilledFacts DEF NumberOK
  <2> QED BY <2>1, <2>2
<1>14. NumberOK(c)'
  <2>1. CASE chan'[c].record = None
    <3>1. Len(file'[c]) = Len(file[c]) + 1
      BY <1>7, <1>9, <2>1
    <3>2. chan'[c].next = Len(file'[c]) + 1
      BY <1>2, <1>13, <3>1
    <3> QED BY <2>1, <3>2 DEF NumberOK
  <2>2. CASE chan'[c].record = r
    <3>1. chan'[c].next = Len(file'[c]) + 2 /\ chan'[c].record.seq = Len(file'[c]) + 1
      BY <1>2, <1>7, <1>9, <1>13, <2>2
    <3> QED BY <1>9, <2>2, <3>1 DEF NumberOK
  <2> QED BY <1>7, <2>1, <2>2
<1>15. EndOK(c)'
  <2>1. CASE chan'[c].record = None
    BY <1>5, <1>7, <1>8, <1>9, <2>1 DEF EndOK
  <2>2. CASE chan'[c].record = r
    <3>1. r.start = IF ch.record = None THEN Clock(ch) ELSE ch.record.start
      BY <1>2, <1>4, FilledFacts
    <3> QED BY <1>1, <1>7, <1>9, <2>2, <3>1 DEF EndOK
  <2> QED BY <1>7, <2>1, <2>2
<1> QED BY <1>10, <1>11, <1>12, <1>14, <1>15 DEF ChannelOK

\* A LostFrames frame, for a channel that was handled.
LEMMA LostStep ==
    ASSUME IInv, TypeOK', NEW n \in Nat, LostFrames(n), NEW c \in Channels,
           chan'[c] = Lost(chan[c], n).chan,
           file'[c] = file[c] \o Lost(chan[c], n).out
    PROVE  RecordsOK(c)' /\ ChannelOK(c)'
<1> DEFINE ch == chan[c]
<1>1. /\ TypeOK /\ Past /\ RecordsOK(c) /\ status = "reading"
      /\ ClockOK(c) /\ OpenOK(c) /\ NumberOK(c) /\ EndOK(c)
  BY DEF IInv, LostFrames, NextFrame
<1>2. /\ ch \in Channel /\ tick \in Nat /\ file[c] \in Seq(Record)
      /\ ch.offset \in Nat /\ ch.next \in Nat /\ Len(file[c]) \in Nat
      /\ ch.time # None => ch.time \in Nat /\ Clock(ch) \in Nat
      /\ ch.record # None => ch.record \in Record
      /\ stamps \subseteq Nat /\ silent \subseteq Nat
  BY <1>1, ChannelTypes DEF TypeOK
<1>3. tick' = tick + n /\ stamps' = stamps /\ silent' = silent
  BY DEF LostFrames, history
<1>4. /\ chan'[c].time = ch.time /\ chan'[c].offset = ch.offset + n
      /\ chan'[c].next = ch.next /\ chan'[c].record = None
      /\ Lost(ch, n).out = Pending(ch)
  <2>1. /\ Lost(ch, n).chan.time = ch.time /\ Lost(ch, n).chan.offset = ch.offset + n
        /\ Lost(ch, n).chan.next = ch.next /\ Lost(ch, n).chan.record = None
        /\ Lost(ch, n).out = Pending(ch)
    BY <1>2, LostFacts
  <2> QED BY <2>1
<1>5. /\ ch.record = None => file'[c] = file[c] /\ Written(c)' = Written(c)
      /\ ch.record # None =>
            /\ Len(file'[c]) = Len(file[c]) + 1
            /\ file'[c][Len(file'[c])] = ch.record
            /\ Written(c)' = Written(c) \cup {ch.record}
  <2>1. file'[c] = file[c] \o Pending(ch) /\ Pending(ch) \in Seq(Record)
    BY <1>2, <1>4, PendingFacts
  <2>2. CASE ch.record = None
    <3>1. Pending(ch) = << >>
      BY <1>2, <2>2, PendingFacts
    <3> QED BY <1>2, <2>1, <2>2, <3>1, WrittenAfter
  <2>3. CASE ch.record # None
    <3>1. ch.record \in Record /\ Pending(ch) = << ch.record >>
      BY <1>2, <2>3, PendingFacts
    <3> QED BY <1>2, <2>1, <2>3, <3>1, WrittenAfter
  <2> QED BY <2>2, <2>3
<1>6. ch.time # None => Clock(ch)' = Clock(ch) + n
  BY <1>2, <1>4 DEF Clock
<1>7. RecordsOK(c)'
  <2>1. HistoryGrows /\ stamps' \subseteq Nat
    BY <1>2, <1>3 DEF HistoryGrows
  <2>2. Written(c)' \cup Open(c)' \subseteq Written(c) \cup Open(c)
    BY <1>4, <1>5 DEF Open
  <2> QED BY <1>1, <2>1, <2>2, RecordsKept
<1>8. ClockOK(c)'
  <2>1. CASE ch.time = None
    BY <1>1, <1>3, <1>4, <1>5, <2>1 DEF ClockOK
  <2>2. CASE ch.time # None
    <3>1. /\ \A s \in stamps : s <= ch.time
          /\ Clock(ch) <= tick
          /\ (\A g \in silent : g <= ch.time) => Clock(ch) = tick
      BY <1>1, <2>2 DEF ClockOK
    <3>2. /\ Clock(ch)' <= tick'
          /\ (\A g \in silent : g <= ch.time) => Clock(ch)' = tick'
      BY <1>2, <1>3, <1>6, <2>2, <3>1
    <3> QED BY <1>3, <1>4, <2>2, <3>1, <3>2 DEF ClockOK
  <2> QED BY <2>1, <2>2
<1>9. OpenOK(c)'
  BY <1>4 DEF OpenOK
<1>10. NumberOK(c)'
  <2>1. chan'[c].next = Len(file'[c]) + 1
    <3>1. CASE ch.record = None
      BY <1>1, <1>4, <1>5, <3>1 DEF NumberOK
    <3>2. CASE ch.record # None
      <4>1. chan'[c].next = Len(file[c]) + 2
        BY <1>1, <1>4, <3>2 DEF NumberOK
      <4>2. Len(file'[c]) = Len(file[c]) + 1
        BY <1>5, <3>2
      <4> QED BY <1>2, <4>1, <4>2
    <3> QED BY <3>1, <3>2
  <2> QED BY <1>4, <2>1 DEF NumberOK
<1>11. EndOK(c)'
  <2>1. CASE ch.record # None
    <3>1. /\ ch.time # None
          /\ ch.record.start + Len(ch.record.samples) <= Clock(ch)
      BY <1>1, <2>1 DEF ClockOK, OpenOK
    <3>2. ch.record.start + Len(ch.record.samples) <= Clock(ch)'
      BY <1>1, <1>2, <1>6, <2>1, <3>1, ChannelTypes
    <3> QED BY <1>4, <1>5, <2>1, <3>2 DEF EndOK
  <2>2. CASE ch.record = None
    <3> SUFFICES ASSUME file[c] # << >>
                 PROVE  LET last == file[c][Len(file[c])]
                        IN  last.start + Len(last.samples) <= Clock(ch)'
      BY <1>4, <1>5, <2>2 DEF EndOK
    <3> DEFINE last == file[c][Len(file[c])]
    <3>1. ch.time # None
      BY <1>1 DEF ClockOK
    <3>2. last.start + Len(last.samples) <= Clock(ch)
      BY <1>1, <2>2 DEF EndOK
    <3>3. last.start + Len(last.samples) \in Nat
      BY <1>1, ChannelTypes
    <3> QED BY <1>2, <1>6, <3>1, <3>2, <3>3
  <2> QED BY <2>1, <2>2
<1> QED BY <1>7, <1>8, <1>9, <1>10, <1>11 DEF ChannelOK

\* A frame run does nothing with: no channel moves, samples may be missing.
LEMMA OtherStep ==
    ASSUME IInv, TypeOK', NEW gap \in Nat, OtherFrame(gap), NEW c \in Channels
    PROVE  RecordsOK(c)' /\ ChannelOK(c)'
<1> DEFINE ch == chan[c]
<1>1. /\ TypeOK /\ Past /\ RecordsOK(c)
      /\ ClockOK(c) /\ OpenOK(c) /\ NumberOK(c) /\ EndOK(c)
  BY DEF IInv, OtherFrame, NextFrame
<1>2. /\ tick \in Nat /\ stamps \subseteq Nat /\ silent \subseteq Nat
      /\ ch \in Channel /\ ch.offset \in Nat
      /\ ch.time # None => ch.time \in Nat /\ Clock(ch) \in Nat
  BY <1>1, ChannelTypes DEF TypeOK
<1>3. /\ tick' = tick + gap /\ stamps' = stamps /\ chan' = chan /\ file' = file
      /\ silent' = IF gap = 0 THEN silent ELSE silent \cup {tick + gap}
  BY DEF OtherFrame, output
<1>4. RecordsOK(c)'
  <2>1. HistoryGrows /\ stamps' \subseteq Nat
    BY <1>2, <1>3 DEF HistoryGrows
  <2>2. Written(c)' \cup Open(c)' \subseteq Written(c) \cup Open(c)
    BY <1>3 DEF Written, Open
  <2> QED BY <1>1, <2>1, <2>2, RecordsKept
<1>5. ClockOK(c)'
  <2>1. CASE ch.time = None
    BY <1>1, <1>3, <2>1 DEF ClockOK
  <2>2. CASE ch.time # None
    <3>1. /\ \A s \in stamps : s <= ch.time
          /\ Clock(ch) <= tick
          /\ (\A g \in silent : g <= ch.time) => Clock(ch) = tick
      BY <1>1, <2>2 DEF ClockOK
    <3>2. ch.time <= tick
      BY <1>2, <2>2, <3>1 DEF Clock
    <3>3. gap # 0 => \E g \in silent' : ~ (g <= ch.time)
      BY <1>2, <1>3, <2>2, <3>2
    <3>4. Clock(ch) <= tick'
      BY <1>2, <1>3, <2>2, <3>1
    <3>5. (\A g \in silent' : g <= ch.time) => Clock(ch) = tick'
      BY <1>2, <1>3, <3>1, <3>3
    <3> QED BY <1>3, <2>2, <3>1, <3>4, <3>5 DEF ClockOK
  <2> QED BY <2>1, <2>2
<1>6. OpenOK(c)'
  <2> SUFFICES ASSUME NEW r \in Record, r = ch.record, ch.record # None
               PROVE  /\ r.start + Len(r.samples) <= Clock(ch)
                      /\ Timed(r.samples[1], tick)' => r.start + Len(r.samples) = tick'
    BY <1>1, <1>3, ChannelTypes DEF OpenOK
  <2>1. /\ r.start + Len(r.samples) <= Clock(ch)
        /\ Timed(r.samples[1], tick) => r.start + Len(r.samples) = tick
    BY <1>1 DEF OpenOK
  <2>2. r.samples[1] < tick /\ r.samples[1] \in Nat
    BY <1>1, OpenSamples
  <2>3. CASE gap = 0
    BY <1>2, <1>3, <2>1, <2>3 DEF Timed
  <2>4. CASE gap # 0
    <3>1. ~ Timed(r.samples[1], tick)'
      <4> SUFFICES ASSUME NEW s \in stamps, s <= r.samples[1]
                   PROVE  \E g \in silent' : s < g /\ g <= tick'
        BY <1>3 DEF Timed
      <4>1. s < tick + gap /\ tick + gap \in silent'
        BY <1>2, <1>3, <2>2, <2>4
      <4> QED BY <1>2, <1>3, <4>1
    <3> QED BY <2>1, <3>1
  <2> QED BY <2>3, <2>4
<1>7. NumberOK(c)' /\ EndOK(c)'
  BY <1>1, <1>3 DEF NumberOK, EndOK, Clock
<1> QED BY <1>4, <1>5, <1>6, <1>7 DEF ChannelOK

\* A channel that does not move in a step that only reads on.
LEMMA QuietStep ==
    ASSUME IInv, TypeOK', HistoryGrows, NEW c \in Channels,
           chan'[c] = chan[c], file'[c] = file[c]
    PROVE  RecordsOK(c)'
<1>1. TypeOK /\ RecordsOK(c) /\ stamps' \subseteq Nat
  BY DEF IInv, TypeOK
<1>2. Written(c)' \cup Open(c)' \subseteq Written(c) \cup Open(c)
  BY DEF Written, Open
<1> QED BY <1>1, <1>2, RecordsKept

LEMMA PastStep ==
    ASSUME IInv, TypeOK', [Next]_vars
    PROVE  Past' /\ HistoryGrows
<1>1. TypeOK /\ Past
  BY DEF IInv
<1> USE DEF TypeOK, Past, HistoryGrows
<1>2. CASE Timestamp
  BY <1>1, <1>2 DEF Timestamp
<1>3. CASE DataFrame
  BY <1>1, <1>3 DEF DataFrame
<1>4. CASE \E n \in 0 .. MaxLost : LostFrames(n)
  <2>1. PICK n \in 0 .. MaxLost : LostFrames(n)
    BY <1>4
  <2>2. tick' = tick + n /\ UNCHANGED << stamps, silent, heard >>
    BY <2>1 DEF LostFrames, history
  <2> QED BY <1>1, <2>2, BoundsAssumption
<1>5. CASE \E gap \in 0 .. MaxGap : OtherFrame(gap)
  BY <1>1, <1>5, BoundsAssumption DEF OtherFrame
<1>6. CASE VoltageHumidity
  BY <1>1, <1>6 DEF VoltageHumidity, history
<1>7. CASE Temperature
  BY <1>1, <1>7 DEF Temperature, history
<1>8. CASE EndFrame
  BY <1>1, <1>8 DEF EndFrame, card, history
<1>9. CASE ReadError
  BY <1>1, <1>9 DEF ReadError, card, history
<1>10. CASE UNCHANGED vars
  BY <1>1, <1>10 DEF vars, card, history
<1> QED BY <1>2, <1>3, <1>4, <1>5, <1>6, <1>7, <1>8, <1>9, <1>10 DEF Next

LEMMA InvInit == Init => IInv
<1> SUFFICES ASSUME Init PROVE IInv
  OBVIOUS
<1>1. TypeOK
  BY TypeInit
<1>2. Past
  BY DEF Init, Past
<1>3. ASSUME NEW c \in Channels
      PROVE  RecordsOK(c) /\ ChannelOK(c)
  <2>1. /\ chan[c].time = None /\ chan[c].record = None /\ chan[c].next = 1
        /\ file[c] = << >> /\ stamps = {} /\ Len(file[c]) = 0
    BY DEF Init, NewChannel
  <2>2. Written(c) = {} /\ Open(c) = {}
    BY <2>1 DEF Written, Open
  <2> QED BY <2>1, <2>2
        DEF RecordsOK, ChannelOK, ClockOK, OpenOK, NumberOK, EndOK
<1> QED BY <1>1, <1>2, <1>3 DEF IInv, ChannelOK

LEMMA InvStep == IInv /\ [Next]_vars => IInv'
<1> SUFFICES ASSUME IInv, [Next]_vars PROVE IInv'
  OBVIOUS
<1>1. TypeOK' /\ TypeOK
  BY TypeStep DEF IInv
<1>2. Past' /\ HistoryGrows
  BY <1>1, PastStep
<1>3. ASSUME NEW c \in Channels
      PROVE  RecordsOK(c)' /\ (status' = "reading" => ChannelOK(c)')
  <2>1. CASE Timestamp
    BY <1>1, <2>1, TimestampStep
  <2>2. CASE DataFrame
    <3>1. \/ /\ chan'[c] = Sample(chan[c], tick).chan
             /\ file'[c] = file[c] \o Sample(chan[c], tick).out
          \/ chan'[c] = chan[c] /\ file'[c] = file[c] /\ status' = "aborted"
      <4> DEFINE result == [d \in Channels |-> Sample(chan[d], tick)]
      <4>1. result[c] = Sample(chan[c], tick)
        OBVIOUS
      <4>2. EachChannel(result, {d \in Channels : RecordRaises(d)}, "reading")
        BY <2>2 DEF DataFrame
      <4> HIDE DEF result
      <4>3. \/ chan'[c] = result[c].chan /\ file'[c] = file[c] \o result[c].out
            \/ chan'[c] = chan[c] /\ file'[c] = file[c] /\ status' = "aborted"
        BY <1>1, <4>2, EachChannelStep
      <4> QED BY <4>1, <4>3
    <3>2. CASE chan'[c] = chan[c] /\ file'[c] = file[c] /\ status' = "aborted"
      BY <1>1, <1>2, <3>2, QuietStep
    <3>3. CASE /\ chan'[c] = Sample(chan[c], tick).chan
               /\ file'[c] = file[c] \o Sample(chan[c], tick).out
      <4>1. CASE chan[c].time = None
        <5>1. chan'[c] = chan[c] /\ file'[c] = file[c]
          <6>1. /\ chan[c] \in Channel /\ file[c] \in Seq(Record)
                /\ Sample(chan[c], tick).chan = chan[c]
                /\ Sample(chan[c], tick).out = << >>
            BY <1>1, <4>1, SampleUntimed, ChannelTypes
          <6>2. file[c] \o << >> = file[c]
            BY <6>1, WritingNothing
          <6> QED BY <3>3, <6>1, <6>2
        <5>2. /\ stamps = {} /\ chan[c].record = None /\ file[c] = << >>
              /\ NumberOK(c) /\ stamps' = stamps
          BY <2>2, <4>1 DEF IInv, DataFrame, NextFrame, ClockOK
        <5>3. ChannelOK(c)'
          BY <4>1, <5>1, <5>2 DEF ChannelOK, ClockOK, OpenOK, NumberOK, EndOK
        <5> QED BY <1>1, <1>2, <5>1, <5>3, QuietStep
      <4>2. CASE chan[c].time # None
        BY <1>1, <2>2, <3>3, <4>2, SampleStep
      <4> QED BY <4>1, <4>2
    <3> QED BY <3>1, <3>2, <3>3
  <2>3. CASE \E n \in 0 .. MaxLost : LostFrames(n)
    <3>1. PICK n \in 0 .. MaxLost : LostFrames(n)
      BY <2>3
    <3>2. n \in Nat
      BY BoundsAssumption
    <3>3. CASE chan[0].time = None
      <4>1. chan' = chan /\ file' = file /\ status' = "aborted"
        BY <3>1, <3>3 DEF LostFrames, output
      <4> QED BY <1>1, <1>2, <4>1, QuietStep
    <3>4. CASE chan[0].time # None
      <4>1. \/ /\ chan'[c] = Lost(chan[c], n).chan
               /\ file'[c] = file[c] \o Lost(chan[c], n).out
            \/ chan'[c] = chan[c] /\ file'[c] = file[c] /\ status' = "aborted"
        <5> DEFINE result == [d \in Channels |-> Lost(chan[d], n)]
        <5>1. result[c] = Lost(chan[c], n)
          OBVIOUS
        <5>2. EachChannel(result, {}, "reading")
          BY <3>1, <3>4 DEF LostFrames
        <5> HIDE DEF result
        <5>3. \/ chan'[c] = result[c].chan /\ file'[c] = file[c] \o result[c].out
              \/ chan'[c] = chan[c] /\ file'[c] = file[c] /\ status' = "aborted"
          BY <1>1, <5>2, EachChannelStep
        <5> QED BY <5>1, <5>3
      <4>2. CASE chan'[c] = chan[c] /\ file'[c] = file[c] /\ status' = "aborted"
        BY <1>1, <1>2, <4>2, QuietStep
      <4>3. CASE /\ chan'[c] = Lost(chan[c], n).chan
                 /\ file'[c] = file[c] \o Lost(chan[c], n).out
        BY <1>1, <3>1, <3>2, <4>3, LostStep
      <4> QED BY <4>1, <4>2, <4>3
    <3> QED BY <3>3, <3>4
  <2>4. CASE \E gap \in 0 .. MaxGap : OtherFrame(gap)
    <3>1. PICK gap \in 0 .. MaxGap : OtherFrame(gap)
      BY <2>4
    <3>2. gap \in Nat
      BY BoundsAssumption
    <3> QED BY <1>1, <3>1, <3>2, OtherStep
  <2>5. CASE EndFrame
    <3>1. /\ status' \in {"finished", "aborted"}
          /\ \/ chan'[c] = chan[c] /\ file'[c] = file[c] \o Pending(chan[c])
             \/ chan'[c] = chan[c] /\ file'[c] = file[c]
      <4> DEFINE result == [d \in Channels |-> Done(chan[d])]
      <4>1. result[c].chan = chan[c] /\ result[c].out = Pending(chan[c])
        BY DEF Done
      <4>2. EachChannel(result, {}, "finished")
        BY <2>5 DEF EndFrame
      <4> HIDE DEF result
      <4>3. /\ status' \in {"finished", "aborted"}
            /\ \/ chan'[c] = result[c].chan /\ file'[c] = file[c] \o result[c].out
               \/ chan'[c] = chan[c] /\ file'[c] = file[c]
        BY <1>1, <4>2, EachChannelStep
      <4> QED BY <4>1, <4>3
    <3>2. Written(c)' \cup Open(c)' \subseteq Written(c) \cup Open(c)
      <4>1. CASE chan[c].record = None
        <5>1. file'[c] = file[c]
          <6>1. /\ chan[c] \in Channel /\ file[c] \in Seq(Record)
                /\ Pending(chan[c]) = << >>
            BY <1>1, <4>1, ChannelTypes, PendingFacts
          <6>2. file[c] \o << >> = file[c]
            BY <6>1, WritingNothing
          <6> QED BY <3>1, <6>1, <6>2
        <5> QED BY <3>1, <5>1 DEF Written, Open
      <4>2. CASE chan[c].record # None
        <5>1. CASE file'[c] = file[c]
          BY <3>1, <5>1 DEF Written, Open
        <5>2. CASE file'[c] = file[c] \o Pending(chan[c])
          <6>1. /\ chan[c].record \in Record
                /\ Pending(chan[c]) = << chan[c].record >>
                /\ Pending(chan[c]) \in Seq(Record)
            <7>1. chan[c] \in Channel
              BY <1>1, ChannelTypes
            <7> QED BY <4>2, <7>1, PendingFacts
          <6>2. Written(c)' = Written(c) \cup {chan[c].record}
            <7>1. file[c] \in Seq(Record)
              BY <1>1, ChannelTypes
            <7> QED BY <5>2, <6>1, <7>1, WrittenAfter
          <6> QED BY <3>1, <4>2, <6>2 DEF Open
        <5> QED BY <3>1, <5>1, <5>2
      <4> QED BY <4>1, <4>2
    <3>3. RecordsOK(c) /\ stamps' \subseteq Nat
      BY <1>1 DEF IInv, TypeOK
    <3> QED BY <1>1, <1>2, <3>1, <3>2, <3>3, RecordsKept
  <2>6. ASSUME /\ chan' = chan /\ file' = file /\ tick' = tick
               /\ stamps' = stamps /\ silent' = silent
               /\ status' = "reading" => status = "reading"
        PROVE  RecordsOK(c)' /\ (status' = "reading" => ChannelOK(c)')
    <3>1. RecordsOK(c)'
      BY <1>1, <1>2, <2>6, QuietStep
    <3>2. status' = "reading" => ChannelOK(c)
      BY <2>6 DEF IInv, ChannelOK
    <3>3. ChannelOK(c) => ChannelOK(c)'
      BY <2>6 DEF ChannelOK, ClockOK, OpenOK, NumberOK, EndOK, Clock, Timed
    <3> QED BY <3>1, <3>2, <3>3
  <2>7. CASE VoltageHumidity
    BY <2>6, <2>7 DEF VoltageHumidity, output, history
  <2>8. CASE Temperature
    BY <2>6, <2>8 DEF Temperature, output, history
  <2>9. CASE ReadError
    BY <2>6, <2>9 DEF ReadError, card, output, history
  <2>10. CASE UNCHANGED vars
    BY <2>6, <2>10 DEF vars, card, output, history
  <2> QED BY <2>1, <2>2, <2>3, <2>4, <2>5, <2>7, <2>8, <2>9, <2>10 DEF Next
<1> QED BY <1>1, <1>2, <1>3 DEF IInv, ChannelOK

LEMMA InvAlways == Spec => []IInv
BY InvInit, InvStep, PTL DEF Spec

\* The times of all records are true, whatever the recorder and the disk do.
THEOREM TrueTimes == Spec => []TimesTrue
<1>1. IInv => TimesTrue
  BY DEF IInv, RecordsOK, RecordOK, TimesTrue
<1> QED BY <1>1, InvAlways, PTL

\* What time2btime makes of a time is at most 50 microseconds away from it.
LEMMA Rounding ==
    ASSUME NEW us \in Nat
    PROVE  Near(BTime(us).second * 1000000 + BTime(us).tenthMs * 100, us, 50)
<1> DEFINE s == us \div 1000000
           f == us % 1000000
           t == (f + 50) \div 100
<1>1. us = s * 1000000 + f /\ s \in Nat /\ f \in Nat
  OBVIOUS
<1>2. t \in Nat /\ t * 100 <= f + 50 /\ f + 50 < t * 100 + 100
  BY <1>1
<1>3. BTime(us) = [second |-> s, tenthMs |-> t]
  BY DEF BTime
<1> HIDE DEF s, f, t
<1> QED
  BY <1>1, <1>2, <1>3 DEF Near

LEMMA Distribute ==
    ASSUME NEW a \in Nat, NEW b \in Nat, NEW n \in Nat
    PROVE  (a + b) * n = a * n + b * n
OBVIOUS

\* The times in the files (mruby_seed.c 12-33) are those of the samples.
THEOREM TimesAreRead == Spec => []TimesRead
<1>1. ASSUME TypeOK, TimesTrue, NEW c \in Channels, NEW r \in Written(c),
             NEW i \in 1 .. Len(r.samples), Timed(r.samples[1], r.samples[i])
      PROVE  Near(ReadTime(r, i), Micros(r.samples[i]), 50)
  <2>1. r \in Record
    BY <1>1 DEF TypeOK, Written
  <2>2. r.start \in Nat /\ i - 1 \in Nat /\ r.samples[i] = r.start + (i - 1)
    BY <1>1, <2>1 DEF TimesTrue, Record
  <2> DEFINE m == Micros(r.start)
             k == (i - 1) * TickMicros
  <2>3. r.start * TickMicros \in Nat /\ k \in Nat
    BY <2>2, MicrosAssumption
  <2>4. m \in Nat /\ Micros(r.samples[i]) = m + k
    <3>1. (r.start + (i - 1)) * TickMicros = r.start * TickMicros + k
      BY <2>2, MicrosAssumption, Distribute
    <3> QED
      BY <2>2, <2>3, <3>1, MicrosAssumption DEF Micros
  <2>5. Near(BTime(m).second * 1000000 + BTime(m).tenthMs * 100, m, 50)
    BY <2>4, Rounding
  <2>6. BTime(m).second * 1000000 + BTime(m).tenthMs * 100 \in Nat
    BY <2>4 DEF BTime
  <2>7. ReadTime(r, i) = (BTime(m).second * 1000000 + BTime(m).tenthMs * 100) + k
    BY DEF ReadTime
  <2> HIDE DEF m, k
  <2> QED
    BY <2>3, <2>4, <2>5, <2>6, <2>7 DEF Near
<1>2. TypeOK /\ TimesTrue => TimesRead
  BY <1>1 DEF TimesRead
<1> QED
  BY <1>2, TypeCorrect, TrueTimes, PTL

-----------------------------------------------------------------------------
(***************************************************************************)
(* makeseed implements SeedArchive                                         *)
(***************************************************************************)

\* r is what a file that holds list may be continued with.
Continues(r, list) ==
    /\ r.seq = Len(list) + 1
    /\ list # << >> =>
          LET last == list[Len(list)]
          IN  last.start + Len(last.samples) <= r.start

\* The record that a data frame completes, and an open record, continue the
\* file of their channel.
LEMMA FilledContinues ==
    ASSUME IInv, status = "reading", NEW c \in Channels, chan[c].time # None
    PROVE  Continues(Filled(chan[c], tick), file[c])
<1> DEFINE ch == chan[c]
           r == Filled(ch, tick)
<1>1. /\ NumberOK(c) /\ EndOK(c) /\ TypeOK
      /\ ch \in Channel /\ tick \in Nat /\ Len(file[c]) \in Nat
  BY ChannelTypes DEF IInv, TypeOK
<1>2. CASE ch.record = None
  <2>1. r.seq = ch.next /\ r.start = Clock(ch)
    BY <1>1, <1>2, FilledFacts
  <2> QED BY <1>1, <1>2, <2>1 DEF Continues, NumberOK, EndOK
<1>3. CASE ch.record # None
  <2>1. r.seq = ch.record.seq /\ r.start = ch.record.start
    BY <1>1, <1>3, FilledFacts
  <2> QED BY <1>1, <1>3, <2>1 DEF Continues, NumberOK, EndOK
<1> QED BY <1>2, <1>3

LEMMA OpenContinues ==
    ASSUME IInv, status = "reading", NEW c \in Channels, chan[c].record # None
    PROVE  Continues(chan[c].record, file[c])
BY DEF IInv, NumberOK, EndOK, Continues

\* A write of the open record, if there is one.
LEMMA PendingWritten ==
    ASSUME IInv, status = "reading", NEW c \in Channels,
           file'[c] = file[c] \o Pending(chan[c])
    PROVE  \/ file'[c] = file[c]
           \/ \E r \in Record : file'[c] = Append(file[c], r) /\ Continues(r, file[c])
<1>1. /\ chan[c] \in Channel /\ file[c] \in Seq(Record)
  BY ChannelTypes DEF IInv
<1>2. CASE chan[c].record = None
  <2>1. Pending(chan[c]) = << >>
    BY <1>1, <1>2, PendingFacts
  <2> QED BY <1>1, <2>1, WritingNothing
<1>3. CASE chan[c].record # None
  <2>1. chan[c].record \in Record /\ Pending(chan[c]) = << chan[c].record >>
    BY <1>1, <1>3, PendingFacts
  <2>2. file'[c] = Append(file[c], chan[c].record)
    BY <1>1, <2>1, Writing
  <2> QED BY <1>3, <2>1, <2>2, OpenContinues
<1> QED BY <1>2, <1>3

LEMMA FileStep ==
    ASSUME IInv, [Next]_vars, NEW c \in Channels
    PROVE  \/ file'[c] = file[c]
           \/ \E r \in Record : file'[c] = Append(file[c], r) /\ Continues(r, file[c])
<1>1. TypeOK /\ chan[c] \in Channel /\ file[c] \in Seq(Record) /\ tick \in Nat
  BY ChannelTypes DEF IInv, TypeOK
<1>2. CASE DataFrame
  <2> DEFINE result == [d \in Channels |-> Sample(chan[d], tick)]
  <2>1. result[c] = Sample(chan[c], tick) /\ status = "reading"
    BY <1>2 DEF DataFrame, NextFrame
  <2>2. EachChannel(result, {d \in Channels : RecordRaises(d)}, "reading")
    BY <1>2 DEF DataFrame
  <2> HIDE DEF result
  <2>3. file'[c] = file[c] \o result[c].out \/ file'[c] = file[c]
    BY <1>1, <2>2, EachChannelStep
  <2>4. CASE result[c].out = << >>
    BY <1>1, <2>3, <2>4, WritingNothing
  <2>5. CASE result[c].out # << >>
    <3>1. chan[c].time # None
      BY <1>1, <2>1, <2>5, SampleUntimed
    <3>2. Filled(chan[c], tick) \in Record
      BY <1>1, <3>1, FilledFacts
    <3>3. result[c].out = << Filled(chan[c], tick) >>
      BY <1>1, <2>1, <2>5, <3>1, SampleFacts
    <3>4. file[c] \o result[c].out = Append(file[c], Filled(chan[c], tick))
      BY <1>1, <3>2, <3>3, Writing
    <3> QED BY <2>1, <2>3, <3>1, <3>2, <3>4, FilledContinues
  <2> QED BY <2>4, <2>5
<1>3. CASE \E n \in 0 .. MaxLost : LostFrames(n)
  <2>1. PICK n \in 0 .. MaxLost : LostFrames(n)
    BY <1>3
  <2>2. CASE chan[0].time = None
    BY <2>1, <2>2 DEF LostFrames, output
  <2>3. CASE chan[0].time # None
    <3> DEFINE result == [d \in Channels |-> Lost(chan[d], n)]
    <3>1. result[c].out = Pending(chan[c]) /\ status = "reading"
      BY <2>1 DEF Lost, LostFrames, NextFrame
    <3>2. EachChannel(result, {}, "reading")
      BY <2>1, <2>3 DEF LostFrames
    <3> HIDE DEF result
    <3>3. file'[c] = file[c] \o result[c].out \/ file'[c] = file[c]
      BY <1>1, <3>2, EachChannelStep
    <3> QED BY <3>1, <3>3, PendingWritten
  <2> QED BY <2>2, <2>3
<1>4. CASE EndFrame
  <2> DEFINE result == [d \in Channels |-> Done(chan[d])]
  <2>1. result[c].out = Pending(chan[c]) /\ status = "reading"
    BY <1>4 DEF Done, EndFrame
  <2>2. EachChannel(result, {}, "finished")
    BY <1>4 DEF EndFrame
  <2> HIDE DEF result
  <2>3. file'[c] = file[c] \o result[c].out \/ file'[c] = file[c]
    BY <1>1, <2>2, EachChannelStep
  <2> QED BY <2>1, <2>3, PendingWritten
<1>5. CASE Timestamp
  BY <1>5 DEF Timestamp
<1>6. CASE \E gap \in 0 .. MaxGap : OtherFrame(gap)
  BY <1>6 DEF OtherFrame, output
<1>7. CASE VoltageHumidity
  BY <1>7 DEF VoltageHumidity, output
<1>8. CASE Temperature
  BY <1>8 DEF Temperature, output
<1>9. CASE ReadError
  BY <1>9 DEF ReadError, output
<1>10. CASE UNCHANGED vars
  BY <1>10 DEF vars, output
<1> QED BY <1>2, <1>3, <1>4, <1>5, <1>6, <1>7, <1>8, <1>9, <1>10 DEF Next

LEMMA FunctionIsSeq ==
    ASSUME NEW S, NEW n \in Nat, NEW f \in [1 .. n -> S]
    PROVE  f \in Seq(S) /\ Len(f) = n
<1>1. f \in Seq(S)
  BY SeqDef
<1>2. Len(f) \in Nat /\ DOMAIN f = 1 .. Len(f)
  BY <1>1, LenProperties
<1>3. 1 .. n = 1 .. Len(f)
  BY <1>2
<1> QED BY <1>1, <1>2, <1>3

\* The archive of a list of records, and of one record more.
LEMMA ArchiveFacts ==
    ASSUME NEW list \in Seq(Record)
    PROVE  /\ Len(ArchiveOf(list)) = Len(list)
           /\ \A k \in 1 .. Len(list) : ArchiveOf(list)[k] = EntryOf(list[k])
           /\ \A k \in 1 .. Len(list) : list[k] \in Record
           /\ ArchiveOf(list) = << >> <=> list = << >>
<1>1. Len(list) \in Nat /\ \A k \in 1 .. Len(list) : list[k] \in Record
  BY LenProperties, ElementOfSeq
<1> DEFINE E == {EntryOf(list[k]) : k \in 1 .. Len(list)}
<1>2. ArchiveOf(list) \in [1 .. Len(list) -> E]
  BY DEF ArchiveOf
<1> HIDE DEF E
<1>3. ArchiveOf(list) \in Seq(E) /\ Len(ArchiveOf(list)) = Len(list)
  BY <1>1, <1>2, FunctionIsSeq
<1>4. Len(ArchiveOf(list)) = Len(list)
  BY <1>3
<1>5. \A k \in 1 .. Len(list) : ArchiveOf(list)[k] = EntryOf(list[k])
  BY DEF ArchiveOf
<1>6. ArchiveOf(list) = << >> <=> list = << >>
  BY <1>3, <1>4, EmptySeq
<1> QED BY <1>1, <1>4, <1>5, <1>6

LEMMA ArchiveAppend ==
    ASSUME NEW list \in Seq(Record), NEW r \in Record
    PROVE  ArchiveOf(Append(list, r)) = Append(ArchiveOf(list), EntryOf(r))
<1> DEFINE more == Append(list, r)
<1>1. /\ more \in Seq(Record) /\ Len(list) \in Nat
      /\ Len(more) = Len(list) + 1
      /\ \A k \in 1 .. Len(list) : more[k] = list[k]
      /\ more[Len(list) + 1] = r
  BY AppendProperties, LenProperties
<1> HIDE DEF more
<1> DEFINE before == ArchiveOf(list)
           after  == ArchiveOf(more)
           E      == {EntryOf(x) : x \in Record}
<1>2. /\ Len(before) = Len(list) /\ Len(after) = Len(list) + 1
      /\ \A k \in 1 .. Len(list) : before[k] = EntryOf(list[k])
      /\ \A k \in 1 .. Len(list) + 1 : after[k] = EntryOf(more[k])
      /\ \A k \in 1 .. Len(list) : list[k] \in Record
      /\ \A k \in 1 .. Len(list) + 1 : more[k] \in Record
  BY <1>1, ArchiveFacts
<1>3. before \in Seq(E) /\ after \in Seq(E) /\ EntryOf(r) \in E
  <2>1. before \in [1 .. Len(list) -> E] /\ after \in [1 .. Len(more) -> E]
    BY <1>1, <1>2 DEF ArchiveOf
  <2>2. EntryOf(r) \in E /\ Len(more) \in Nat
    BY <1>1
  <2> HIDE DEF before, after, E
  <2> QED BY <1>1, <2>1, <2>2, FunctionIsSeq
<1> HIDE DEF before, after, E
<1>4. /\ Append(before, EntryOf(r)) \in Seq(E)
      /\ Len(Append(before, EntryOf(r))) = Len(list) + 1
      /\ \A k \in 1 .. Len(list) : Append(before, EntryOf(r))[k] = before[k]
      /\ Append(before, EntryOf(r))[Len(list) + 1] = EntryOf(r)
  BY <1>2, <1>3, AppendProperties
<1>5. \A k \in 1 .. Len(list) + 1 : after[k] = Append(before, EntryOf(r))[k]
  BY <1>1, <1>2, <1>4
<1>6. after = Append(before, EntryOf(r))
  BY <1>2, <1>3, <1>4, <1>5, SeqEqual
<1> QED BY <1>6 DEF before, after, more

\* The archive only holds entries of the right type.
LEMMA ArchiveType ==
    IInv => \A c \in Channels : ArchiveOf(file[c]) \in Seq(Archive!Entry)
<1> SUFFICES ASSUME IInv, NEW c \in Channels
             PROVE  ArchiveOf(file[c]) \in Seq(Archive!Entry)
  OBVIOUS
<1>1. file[c] \in Seq(Record) /\ RecordsOK(c) /\ Len(file[c]) \in Nat
  BY ChannelTypes DEF IInv
<1>2. ASSUME NEW k \in 1 .. Len(file[c])
      PROVE  EntryOf(file[c][k]) \in Archive!Entry
  <2> DEFINE r == file[c][k]
  <2>1. r \in Record
    BY <1>1, ElementOfSeq
  <2>2. RecordOK(r)
    BY <1>1 DEF RecordsOK, Written
  <2>3. r.seq \in Nat /\ r.start \in Nat /\ Len(r.samples) \in 1 .. Capacity
    BY <2>1, <2>2 DEF Record, RecordOK
  <2> QED BY <2>3 DEF EntryOf, Archive!Entry
<1>3. ArchiveOf(file[c]) \in [1 .. Len(file[c]) -> Archive!Entry]
  BY <1>2 DEF ArchiveOf
<1> QED BY <1>1, <1>3, FunctionIsSeq

LEMMA ArchiveInit == Init => Archive!Init
<1> SUFFICES ASSUME Init PROVE Archive!Init
  OBVIOUS
<1>1. ASSUME NEW c \in Channels PROVE ArchiveOf(file[c]) = << >>
  <2>1. file[c] = << >>
    BY DEF Init
  <2>2. file[c] \in Seq(Record)
    BY <2>1
  <2> QED BY <2>1, <2>2, ArchiveFacts
<1> QED BY <1>1 DEF Archive!Init

LEMMA ArchiveStep ==
    IInv /\ IInv' /\ [Next]_vars => [Archive!Extend]_[c \in Channels |-> ArchiveOf(file[c])]
<1> SUFFICES ASSUME IInv, IInv', [Next]_vars PROVE Archive!Extend
  OBVIOUS
<1> DEFINE before == [c \in Channels |-> ArchiveOf(file[c])]
           after  == [c \in Channels |-> ArchiveOf(file'[c])]
<1>1. after \in [Channels -> Seq(Archive!Entry)]
  <2>1. (\A c \in Channels : ArchiveOf(file[c]) \in Seq(Archive!Entry))'
    BY ArchiveType, PTL
  <2> QED BY <2>1
<1>2. ASSUME NEW c \in Channels
      PROVE  after[c] = before[c] \/ Archive!OneMore(before[c], after[c])
  <2>1. CASE file'[c] = file[c]
    BY <2>1
  <2>2. CASE file'[c] # file[c]
    <3>1. PICK r \in Record : file'[c] = Append(file[c], r) /\ Continues(r, file[c])
      BY <2>2, FileStep
    <3>2. file[c] \in Seq(Record) /\ Len(file[c]) \in Nat
      BY ChannelTypes DEF IInv
    <3>3. after[c] = Append(before[c], EntryOf(r))
      BY <3>1, <3>2, ArchiveAppend
    <3>4. after[c] \in Seq(Archive!Entry) /\ before[c] \in Seq(Archive!Entry)
      BY <1>1, ArchiveType
    <3>5. /\ after[c] # << >>
          /\ Len(after[c]) = Len(file[c]) + 1
          /\ after[c][Len(after[c])] = EntryOf(r)
          /\ EntryOf(r) \in Archive!Entry
      <4> DEFINE E == {EntryOf(x) : x \in Record} \cup Archive!Entry
      <4>1. before[c] \in Seq(E) /\ EntryOf(r) \in E /\ Len(before[c]) = Len(file[c])
        <5>1. Archive!Entry \subseteq E /\ EntryOf(r) \in E
          OBVIOUS
        <5> HIDE DEF E
        <5>2. before[c] \in Seq(E)
          BY <3>4, <5>1, SeqMonotonic
        <5>3. Len(before[c]) = Len(file[c])
          BY <3>2, ArchiveFacts
        <5> QED BY <5>1, <5>2, <5>3
      <4> HIDE DEF E, before, after
      <4>2. /\ Len(after[c]) = Len(file[c]) + 1
            /\ after[c][Len(file[c]) + 1] = EntryOf(r)
        BY <3>3, <4>1, AppendProperties
      <4>3. after[c][Len(file[c]) + 1] \in Archive!Entry
        BY <3>2, <3>4, <4>2, ElementOfSeq
      <4> QED BY <3>2, <4>2, <4>3, EmptySeq
    <3>6. Archive!Follows(EntryOf(r), before[c])
      <4>1. /\ EntryOf(r).seq = r.seq /\ EntryOf(r).start = r.start
            /\ r.seq = Len(file[c]) + 1
        BY <3>1 DEF EntryOf, Continues
      <4>2. /\ Len(before[c]) = Len(file[c])
            /\ before[c] = << >> <=> file[c] = << >>
        BY <3>2, ArchiveFacts
      <4>3. ASSUME before[c] # << >>
            PROVE  Archive!EndOf(before[c][Len(before[c])]) <= r.start
        <5> DEFINE last == file[c][Len(file[c])]
        <5>1. last.start + Len(last.samples) <= r.start
          BY <3>1, <4>2, <4>3 DEF Continues
        <5>2. Len(file[c]) \in 1 .. Len(file[c])
          BY <3>2, <4>2, <4>3, EmptySeq
        <5>3. before[c][Len(before[c])] = EntryOf(last)
          BY <3>2, <4>2, <5>2, ArchiveFacts
        <5>4. Archive!EndOf(EntryOf(last)) = last.start + Len(last.samples)
          BY DEF Archive!EndOf, EntryOf
        <5> HIDE DEF last, before
        <5> QED BY <5>1, <5>3, <5>4
      <4> QED BY <3>5, <4>1, <4>2, <4>3 DEF Archive!Follows
    <3> QED BY <3>3, <3>5, <3>6 DEF Archive!OneMore
  <2> QED BY <2>1, <2>2
<1> QED BY <1>1, <1>2 DEF Archive!Extend

\* The files are an archive as SeedArchive promises it: records are only
\* appended, numbered without a gap, and never claim a moment twice.
THEOREM ArchiveKept == Spec => KeepsArchive
BY ArchiveInit, ArchiveStep, InvAlways, PTL DEF Spec, KeepsArchive, Archive!Spec

-----------------------------------------------------------------------------
(***************************************************************************)
(* What Makeseed leaves on the disk: which samples are in the files, how   *)
(* the files of the channels compare, and the lines of engineering data.   *)
(***************************************************************************)

-----------------------------------------------------------------------------
(***************************************************************************)
(* Engineering data                                                        *)
(***************************************************************************)

\* What was measured lies in the past.
RowsPast ==
    /\ edata <= tick
    /\ \A k \in 1 .. Len(rows) : rows[k].measured <= tick

RowsInv == IInv /\ RowsPast /\ RowsTrue

LEMMA ChannelZero == 0 \in Channels
BY NChannelsAssumption DEF Channels

\* A new line has the latest time stamp, because the clock of channel 0 has.
LEMMA RowAdded ==
    ASSUME RowsInv, TypeOK', Temperature
    PROVE  RowsPast' /\ RowsTrue'
<1> DEFINE t == IF chan[0].time = None THEN 0 ELSE chan[0].time
           row == [time |-> t, voltage |-> edata, measured |-> tick]
<1>1. /\ rows' = Append(rows, row)
      /\ UNCHANGED << tick, edata, stamps >>
  BY DEF Temperature, history
<1>2. /\ TypeOK /\ Past /\ ClockOK(0) /\ chan[0] \in Channel
      /\ tick \in Nat /\ edata \in Nat /\ stamps \subseteq Nat
      /\ rows \in Seq([time : Nat, voltage : Nat, measured : Nat])
  BY ChannelZero DEF RowsInv, IInv, TypeOK, Temperature, NextFrame
<1>3. t \in Nat /\ t <= tick /\ \A s \in stamps : s <= t
  <2>1. CASE chan[0].time = None
    BY <1>2, <2>1 DEF ClockOK
  <2>2. CASE chan[0].time # None
    <3>1. chan[0].time \in Nat /\ chan[0].offset \in Nat
      BY <1>2, <2>2 DEF Channel
    <3> QED BY <1>2, <2>2, <3>1 DEF ClockOK, Clock
  <2> QED BY <2>1, <2>2
<1>4. row \in [time : Nat, voltage : Nat, measured : Nat]
  BY <1>2, <1>3
<1>5. row.time = t /\ row.voltage = edata /\ row.measured = tick
  OBVIOUS
<1> HIDE DEF row, t
<1>6. /\ Len(rows') = Len(rows) + 1 /\ Len(rows) \in Nat
      /\ \A k \in 1 .. Len(rows) : rows'[k] = rows[k]
      /\ rows'[Len(rows) + 1] = row
  BY <1>1, <1>2, <1>4, AppendProperties
<1>7. ASSUME NEW k \in 1 .. Len(rows')
      PROVE  /\ rows'[k].measured <= tick
             /\ rows'[k].time <= rows'[k].measured
             /\ rows'[k].voltage <= rows'[k].measured
             /\ ~ \E s \in stamps : rows'[k].time < s /\ s < rows'[k].measured
  <2>1. CASE k = Len(rows) + 1
    <3>1. ~ \E s \in stamps : t < s
      BY <1>2, <1>3
    <3> QED BY <1>2, <1>3, <1>5, <1>6, <2>1, <3>1 DEF RowsInv, RowsPast
  <2>2. CASE k # Len(rows) + 1
    <3>1. k \in 1 .. Len(rows) /\ rows'[k] = rows[k]
      BY <1>6, <2>2
    <3> QED BY <3>1 DEF RowsInv, RowsPast, RowsTrue
  <2> QED BY <2>1, <2>2
<1> QED BY <1>1, <1>7 DEF RowsInv, RowsPast, RowsTrue

\* No other step adds a line, and a Timestamp is later than all lines.
LEMMA RowsKept ==
    ASSUME RowsInv, TypeOK', HistoryGrows, rows' = rows, edata' \in {edata, tick}
    PROVE  RowsPast' /\ RowsTrue'
<1>1. /\ tick \in Nat /\ tick' \in Nat /\ tick <= tick'
      /\ edata \in Nat /\ stamps \subseteq Nat /\ stamps' \subseteq Nat
      /\ \A s \in stamps' : s \in stamps \/ s >= tick
      /\ rows \in Seq([time : Nat, voltage : Nat, measured : Nat])
  BY DEF RowsInv, IInv, TypeOK, HistoryGrows
<1>2. ASSUME NEW k \in 1 .. Len(rows)
      PROVE  /\ rows[k].measured <= tick'
             /\ ~ \E s \in stamps' : rows[k].time < s /\ s < rows[k].measured
  <2>1. rows[k] \in [time : Nat, voltage : Nat, measured : Nat]
    BY <1>1, ElementOfSeq
  <2>2. rows[k].measured \in Nat /\ rows[k].time \in Nat /\ rows[k].measured <= tick
    BY <2>1 DEF RowsInv, RowsPast
  <2>3. ~ \E s \in stamps : rows[k].time < s /\ s < rows[k].measured
    BY DEF RowsInv, RowsTrue
  <2> DEFINE m == rows[k].measured
             t == rows[k].time
  <2>4. m \in Nat /\ t \in Nat /\ m <= tick /\ ~ \E s \in stamps : t < s /\ s < m
    BY <2>2, <2>3
  <2> HIDE DEF m, t
  <2>5. m <= tick' /\ ~ \E s \in stamps' : t < s /\ s < m
    BY <1>1, <2>4
  <2> QED BY <2>5 DEF m, t
<1>3. edata' <= tick'
  BY <1>1 DEF RowsInv, RowsPast
<1> QED BY <1>2, <1>3 DEF RowsInv, RowsPast, RowsTrue

LEMMA RowsStep == RowsInv /\ [Next]_vars => RowsInv'
<1> SUFFICES ASSUME RowsInv, [Next]_vars PROVE RowsInv'
  OBVIOUS
<1>1. IInv' /\ TypeOK' /\ HistoryGrows
  BY InvStep, PastStep DEF RowsInv, IInv
<1>2. CASE Temperature
  BY <1>1, <1>2, RowAdded DEF RowsInv
<1>3. CASE ~ Temperature
  <2>1. rows' = rows /\ edata' \in {edata, tick}
    BY <1>3 DEF Next, Timestamp, DataFrame, LostFrames, OtherFrame, VoltageHumidity,
                EndFrame, ReadError, vars, csv
  <2> QED BY <1>1, <2>1, RowsKept DEF RowsInv
<1> QED BY <1>2, <1>3

\* Every line of engineeringdata.csv is dated by the time stamp before it
\* (makeseed.rb 226-235).
THEOREM RowsAreTrue == Spec => []RowsTrue
<1>1. Init => RowsInv
  BY InvInit DEF Init, RowsInv, RowsPast, RowsTrue
<1>2. RowsInv => RowsTrue
  BY DEF RowsInv
<1> QED BY <1>1, <1>2, RowsStep, PTL DEF Spec

-----------------------------------------------------------------------------
(***************************************************************************)
(* The files of the channels                                               *)
(***************************************************************************)

\* While the card is read all channels are in the same state.
Uniform ==
    status = "reading" =>
        \A c, d \in Channels : chan[c] = chan[d] /\ file[c] = file[d]

AlignedInv == TypeOK /\ Uniform /\ Aligned

\* The channels that a pass handled come before those it did not reach.
LEMMA PassOrder ==
    ASSUME NEW result, NEW raises, NEW ending,
           EachChannel(result, raises, ending)
    PROVE  \E passed \in SUBSET Channels :
              /\ \A c, d \in Channels : d <= c /\ c \in passed => d \in passed
              /\ \A c \in passed : /\ chan'[c] = result[c].chan
                                   /\ file'[c] = file[c] \o result[c].out
              /\ \A c \in Channels \ passed : chan'[c] = chan[c] /\ file'[c] = file[c]
              /\ passed = Channels => status' = ending
              /\ passed # Channels => status' = "aborted"
<1> DEFINE writes == {c \in Channels : result[c].out # << >>}
           full   == {c \in writes : Cardinality({d \in writes : d < c}) >= room}
           passed == {c \in Channels : \A d \in Channels :
                                        d <= c => d \notin raises \cup full}
<1>1. /\ chan' = [c \in Channels |->
                     IF c \in passed THEN result[c].chan ELSE chan[c]]
      /\ file' = [c \in Channels |->
                     IF c \in passed THEN file[c] \o result[c].out ELSE file[c]]
      /\ status' = IF passed = Channels THEN ending ELSE "aborted"
  BY DEF EachChannel
<1> HIDE DEF full
<1>2. \A c, d \in Channels : d <= c /\ c \in passed => d \in passed
  <2>1. \A c, d, e \in Channels : e <= d /\ d <= c => e <= c
    BY NChannelsAssumption DEF Channels
  <2> QED BY <2>1
<1>3. passed \in SUBSET Channels
  OBVIOUS
<1> HIDE DEF passed
<1> QED BY <1>1, <1>2, <1>3

\* A pass that does the same to every channel, and writes at most one record,
\* leaves the files aligned.
LEMMA PassAligned ==
    ASSUME AlignedInv, status = "reading",
           NEW result, NEW raises, NEW ending,
           EachChannel(result, raises, ending),
           \A c, d \in Channels : result[c] = result[d],
           \A c \in Channels : \/ result[c].out = << >>
                               \/ \E r \in Record : result[c].out = << r >>
    PROVE  Uniform' /\ Aligned'
<1>1. PICK passed \in SUBSET Channels :
          /\ \A c, d \in Channels : d <= c /\ c \in passed => d \in passed
          /\ \A c \in passed : /\ chan'[c] = result[c].chan
                               /\ file'[c] = file[c] \o result[c].out
          /\ \A c \in Channels \ passed : chan'[c] = chan[c] /\ file'[c] = file[c]
          /\ passed = Channels => status' = ending
          /\ passed # Channels => status' = "aborted"
  BY PassOrder
<1>2. \A c, d \in Channels : chan[c] = chan[d] /\ file[c] = file[d]
  BY DEF AlignedInv, Uniform
<1>3. ASSUME status' # "aborted", NEW c \in Channels, NEW d \in Channels
      PROVE  chan'[c] = chan'[d] /\ file'[c] = file'[d]
  <2>1. c \in passed /\ d \in passed
    BY <1>1, <1>3
  <2>2. result[c] = result[d] /\ file[c] = file[d]
    BY <1>2
  <2>3. /\ chan'[c] = result[c].chan /\ file'[c] = file[c] \o result[c].out
        /\ chan'[d] = result[d].chan /\ file'[d] = file[d] \o result[d].out
    BY <1>1, <2>1
  <2> QED BY <2>2, <2>3
<1>4. ASSUME NEW c \in Channels, NEW d \in Channels, c < d
      PROVE  \/ file'[c] = file'[d]
             \/ \E r \in Written(c)' : file'[c] = Append(file'[d], r)
  <2>1. file[c] \in Seq(Record) /\ c <= d
    BY <1>4, NChannelsAssumption DEF AlignedInv, TypeOK, Channels
  <2>2. CASE d \in passed
    <3>1. c \in passed
      BY <1>1, <2>1, <2>2
    <3>2. result[c] = result[d] /\ file[c] = file[d]
      BY <1>2
    <3>3. file'[c] = file[c] \o result[c].out /\ file'[d] = file[d] \o result[d].out
      BY <1>1, <2>2, <3>1
    <3> QED BY <3>2, <3>3
  <2>3. CASE c \notin passed
    BY <1>1, <1>2, <2>1, <2>3
  <2>4. CASE c \in passed /\ d \notin passed
    <3>1. file'[c] = file[c] \o result[c].out /\ file'[d] = file[c]
      BY <1>1, <1>2, <2>4
    <3>2. CASE result[c].out = << >>
      BY <2>1, <3>1, <3>2, WritingNothing
    <3>3. ASSUME NEW r \in Record, result[c].out = << r >>
          PROVE  \E q \in Written(c)' : file'[c] = Append(file'[d], q)
      <4>1. file'[c] = Append(file'[d], r)
        BY <2>1, <3>1, <3>3, Writing
      <4>2. << r >> \in Seq(Record)
        OBVIOUS
      <4>3. Written(c)' = Written(c) \cup {r}
        BY <2>1, <3>1, <3>3, <4>2, WrittenAfter
      <4> QED BY <4>1, <4>3
    <3> QED BY <3>2, <3>3
  <2> QED BY <2>2, <2>3, <2>4
<1> QED BY <1>3, <1>4 DEF Uniform, Aligned

\* Once the run is over, nothing changes.
LEMMA Over ==
    ASSUME status # "reading", [Next]_vars
    PROVE  UNCHANGED vars
BY DEF Next, NextFrame, Timestamp, DataFrame, LostFrames, OtherFrame,
       VoltageHumidity, Temperature, EndFrame, ReadError

LEMMA AlignedStep == AlignedInv /\ [Next]_vars => AlignedInv'
<1> SUFFICES ASSUME AlignedInv, [Next]_vars PROVE AlignedInv'
  OBVIOUS
<1>1. TypeOK /\ TypeOK' /\ tick \in Nat
  BY TypeStep DEF AlignedInv, TypeOK
<1>2. \A c, d \in Channels : status = "reading" => chan[c] = chan[d]
  BY DEF AlignedInv, Uniform
<1>3. CASE DataFrame
  <2> DEFINE result == [c \in Channels |-> Sample(chan[c], tick)]
  <2>1. /\ EachChannel(result, {c \in Channels : RecordRaises(c)}, "reading")
        /\ status = "reading"
    BY <1>3 DEF DataFrame, NextFrame
  <2>2. \A c, d \in Channels : result[c] = result[d]
    BY <1>2, <2>1
  <2>3. ASSUME NEW c \in Channels
        PROVE  \/ result[c].out = << >>
               \/ \E r \in Record : result[c].out = << r >>
    <3>1. chan[c] \in Channel /\ result[c] = Sample(chan[c], tick)
      BY <1>1, ChannelTypes
    <3> HIDE DEF result
    <3>2. CASE chan[c].time = None
      BY <3>1, <3>2, SampleUntimed
    <3>3. CASE chan[c].time # None
      <4>1. Filled(chan[c], tick) \in Record
        BY <1>1, <3>1, <3>3, FilledFacts
      <4>2. result[c].out = << >> \/ result[c].out = << Filled(chan[c], tick) >>
        BY <1>1, <3>1, <3>3, SampleFacts
      <4> QED BY <4>1, <4>2
    <3> QED BY <3>2, <3>3
  <2> HIDE DEF result
  <2> QED BY <1>1, <2>1, <2>2, <2>3, PassAligned DEF AlignedInv
<1>4. CASE \E n \in 0 .. MaxLost : LostFrames(n)
  <2>1. PICK n \in 0 .. MaxLost : LostFrames(n)
    BY <1>4
  <2>2. CASE chan[0].time = None
    BY <1>1, <2>1, <2>2 DEF LostFrames, output, AlignedInv, Uniform, Aligned, Written,
                            NextFrame
  <2>3. CASE chan[0].time # None
    <3> DEFINE result == [c \in Channels |-> Lost(chan[c], n)]
    <3>1. EachChannel(result, {}, "reading") /\ status = "reading"
      BY <2>1, <2>3 DEF LostFrames, NextFrame
    <3>2. \A c, d \in Channels : result[c] = result[d]
      BY <1>2, <3>1
    <3>3. \A c \in Channels : result[c].out = Pending(chan[c])
      BY DEF Lost
    <3> HIDE DEF result
    <3> QED BY <1>1, <3>1, <3>2, <3>3, ChannelTypes, PendingFacts, PassAligned
            DEF AlignedInv
  <2> QED BY <2>2, <2>3
<1>5. CASE EndFrame
  <2> DEFINE result == [c \in Channels |-> Done(chan[c])]
  <2>1. EachChannel(result, {}, "finished") /\ status = "reading"
    BY <1>5 DEF EndFrame
  <2>2. \A c, d \in Channels : result[c] = result[d]
    BY <1>2, <2>1
  <2>3. \A c \in Channels : result[c].out = Pending(chan[c])
    BY DEF Done
  <2> HIDE DEF result
  <2> QED BY <1>1, <2>1, <2>2, <2>3, ChannelTypes, PendingFacts, PassAligned
          DEF AlignedInv
<1>6. CASE Timestamp
  <2>1. /\ file' = file /\ status' = status /\ status = "reading"
        /\ \A c \in Channels : chan'[c] = SetTime(chan[c], tick)
    BY <1>6 DEF Timestamp, NextFrame
  <2>2. Uniform'
    BY <1>2, <2>1 DEF AlignedInv, Uniform
  <2>3. \A c \in Channels : Written(c)' = Written(c)
    BY <2>1 DEF Written
  <2>4. Aligned'
    BY <2>1, <2>3 DEF AlignedInv, Aligned
  <2> QED BY <1>1, <2>2, <2>4 DEF AlignedInv
<1>7. CASE UNCHANGED output /\ status' \in {status, "aborted"}
  <2>1. Uniform'
    BY <1>7 DEF output, AlignedInv, Uniform
  <2>2. file' = file /\ \A c \in Channels : Written(c)' = Written(c)
    BY <1>7 DEF output, Written
  <2>3. Aligned'
    BY <1>7, <2>2 DEF AlignedInv, Aligned
  <2> QED BY <1>1, <2>1, <2>3 DEF AlignedInv
<1>8. \/ DataFrame \/ Timestamp \/ EndFrame
      \/ \E n \in 0 .. MaxLost : LostFrames(n)
      \/ UNCHANGED output /\ status' \in {status, "aborted"}
  BY DEF Next, OtherFrame, VoltageHumidity, Temperature, ReadError, vars
<1> QED BY <1>3, <1>4, <1>5, <1>6, <1>7, <1>8

\* The files of all channels hold the same records, except that a run which
\* was aborted may leave a later channel one record behind (the loops over
\* the channels of makeseed.rb, which end at the first that raises).
THEOREM FilesAligned == Spec => []Aligned
<1>1. Init => AlignedInv
  <2> SUFFICES ASSUME Init PROVE AlignedInv
    OBVIOUS
  <2>1. \A c \in Channels : chan[c] = NewChannel /\ file[c] = << >>
    BY DEF Init
  <2> QED BY <2>1, TypeInit DEF AlignedInv, Uniform, Aligned
<1>2. AlignedInv => Aligned
  BY DEF AlignedInv
<1> QED BY <1>1, <1>2, AlignedStep, PTL DEF Spec

-----------------------------------------------------------------------------
(***************************************************************************)
(* The samples of a channel                                                *)
(***************************************************************************)

\* What a step does to one channel: its records stay as they are; its open
\* record, or a new one, takes the next sample; or its open record is cut.
Stays(c) ==
    /\ file'[c] = file[c]
    /\ chan'[c].record = chan[c].record
    /\ \/ heard' = heard
       \/ heard' = heard \cup {tick} /\ status' = "aborted"
    /\ status' = "finished" => chan[c].record = None

Takes(c) ==
    /\ chan[c].time # None
    /\ \/ /\ file'[c] = Append(file[c], Filled(chan[c], tick))
          /\ chan'[c].record = None
       \/ /\ file'[c] = file[c]
          /\ chan'[c].record = Filled(chan[c], tick)
    /\ heard' = heard \cup {tick}
    /\ status' # "finished"

Cuts(c) ==
    /\ chan[c].record # None
    /\ file'[c] = Append(file[c], chan[c].record)
    /\ chan'[c].record = None \/ status' # "reading"
    /\ heard' = heard

\* A channel has a clock only after a Timestamp.
Stamped(c) == chan[c].time # None => stamps # {}

LEMMA Moves ==
    ASSUME IInv, status = "reading", [Next]_vars, NEW c \in Channels, Stamped(c)
    PROVE  /\ Stays(c) \/ Takes(c) \/ Cuts(c)
           /\ Stamped(c)'
<1>1. /\ TypeOK /\ chan[c] \in Channel /\ file[c] \in Seq(Record) /\ tick \in Nat
      /\ chan[c].time = None => stamps = {}
  BY ChannelTypes DEF IInv, TypeOK, ClockOK
<1>2. CASE DataFrame
  <2> DEFINE result == [d \in Channels |-> Sample(chan[d], tick)]
  <2>1. /\ EachChannel(result, {d \in Channels : RecordRaises(d)}, "reading")
        /\ stamps' = stamps
        /\ heard' = IF stamps # {} THEN heard \cup {tick} ELSE heard
        /\ result[c] = Sample(chan[c], tick)
    BY <1>2 DEF DataFrame
  <2> HIDE DEF result
  <2>2. /\ \/ chan'[c] = result[c].chan /\ file'[c] = file[c] \o result[c].out
           \/ chan'[c] = chan[c] /\ file'[c] = file[c] /\ status' = "aborted"
        /\ status' \in {"reading", "aborted"}
    BY <1>1, <2>1, EachChannelStep
  <2>3. CASE chan'[c] = chan[c] /\ file'[c] = file[c] /\ status' = "aborted"
    BY <2>1, <2>3 DEF Stays, Stamped
  <2>4. CASE /\ chan'[c] = result[c].chan /\ file'[c] = file[c] \o result[c].out
             /\ chan[c].time = None
    <3>1. chan'[c] = chan[c] /\ file'[c] = file[c]
      <4>1. result[c].chan = chan[c] /\ result[c].out = << >>
        BY <1>1, <2>1, <2>4, SampleUntimed
      <4>2. file[c] \o << >> = file[c]
        BY <1>1, WritingNothing
      <4> QED BY <2>4, <4>1, <4>2
    <3> QED BY <1>1, <2>1, <2>2, <2>4, <3>1 DEF Stays, Stamped
  <2>5. CASE /\ chan'[c] = result[c].chan /\ file'[c] = file[c] \o result[c].out
             /\ chan[c].time # None
    <3> DEFINE r == Filled(chan[c], tick)
    <3>1. r \in Record
      BY <1>1, <2>5, FilledFacts
    <3>2. \/ result[c].chan.record = None /\ result[c].out = << r >>
          \/ result[c].chan.record = r /\ result[c].out = << >>
      BY <1>1, <2>1, <2>5, SampleFacts
    <3>3. \/ chan'[c].record = None /\ file'[c] = Append(file[c], r)
          \/ chan'[c].record = r /\ file'[c] = file[c]
      BY <1>1, <2>5, <3>1, <3>2, Writing
    <3> HIDE DEF r
    <3> QED BY <2>1, <2>2, <2>5, <3>3 DEF Takes, Stamped, r
  <2> QED BY <2>2, <2>3, <2>4, <2>5
<1>3. CASE \E n \in 0 .. MaxLost : LostFrames(n)
  <2>1. PICK n \in 0 .. MaxLost : LostFrames(n)
    BY <1>3
  <2>2. heard' = heard /\ stamps' = stamps /\ n \in Nat
    BY <2>1, BoundsAssumption DEF LostFrames, history
  <2>3. CASE chan[0].time = None
    BY <2>1, <2>2, <2>3 DEF LostFrames, output, Stays, Stamped
  <2>4. CASE chan[0].time # None
    <3> DEFINE result == [d \in Channels |-> Lost(chan[d], n)]
    <3>1. EachChannel(result, {}, "reading")
      BY <2>1, <2>4 DEF LostFrames
    <3>2. /\ result[c].chan.record = None /\ result[c].chan.time = chan[c].time
          /\ result[c].out = Pending(chan[c])
      BY <1>1, <2>2, LostFacts
    <3> HIDE DEF result
    <3>3. \/ chan'[c] = result[c].chan /\ file'[c] = file[c] \o Pending(chan[c])
          \/ chan'[c] = chan[c] /\ file'[c] = file[c] /\ status' = "aborted"
      <4>1. \/ chan'[c] = result[c].chan /\ file'[c] = file[c] \o result[c].out
            \/ chan'[c] = chan[c] /\ file'[c] = file[c] /\ status' = "aborted"
        BY <1>1, <3>1, EachChannelStep
      <4> QED BY <3>2, <4>1
    <3>4. status' \in {"reading", "aborted"}
      BY <1>1, <3>1, EachChannelStep
    <3>5. CASE chan'[c] = chan[c] /\ file'[c] = file[c] /\ status' = "aborted"
      BY <2>2, <3>5 DEF Stays, Stamped
    <3>6. CASE /\ chan'[c] = result[c].chan /\ file'[c] = file[c] \o Pending(chan[c])
               /\ chan[c].record = None
      <4>1. file'[c] = file[c]
        BY <1>1, <3>6, PendingFacts, WritingNothing
      <4> QED BY <2>2, <3>2, <3>4, <3>6, <4>1 DEF Stays, Stamped
    <3>7. CASE /\ chan'[c] = result[c].chan /\ file'[c] = file[c] \o Pending(chan[c])
               /\ chan[c].record # None
      <4>1. file'[c] = Append(file[c], chan[c].record)
        BY <1>1, <3>7, PendingFacts, Writing
      <4> QED BY <2>2, <3>2, <3>7, <4>1 DEF Cuts, Stamped
    <3> QED BY <3>3, <3>5, <3>6, <3>7
  <2> QED BY <2>3, <2>4
<1>4. CASE EndFrame
  <2> DEFINE result == [d \in Channels |-> Done(chan[d])]
  <2>1. /\ EachChannel(result, {}, "finished")
        /\ heard' = heard /\ stamps' = stamps
        /\ result[c].chan = chan[c] /\ result[c].out = Pending(chan[c])
    BY <1>4 DEF EndFrame, history, Done
  <2> HIDE DEF result
  <2>2. /\ chan'[c] = chan[c]
        /\ \/ file'[c] = file[c] \o Pending(chan[c])
           \/ file'[c] = file[c] /\ status' = "aborted"
        /\ status' \in {"finished", "aborted"}
    <3>1. /\ \/ chan'[c] = result[c].chan /\ file'[c] = file[c] \o result[c].out
             \/ chan'[c] = chan[c] /\ file'[c] = file[c] /\ status' = "aborted"
          /\ status' \in {"finished", "aborted"}
      BY <1>1, <2>1, EachChannelStep
    <3> QED BY <2>1, <3>1
  <2>3. CASE file'[c] = file[c] /\ status' = "aborted"
    BY <2>1, <2>2, <2>3 DEF Stays, Stamped
  <2>4. CASE file'[c] = file[c] \o Pending(chan[c]) /\ chan[c].record = None
    <3>1. file'[c] = file[c]
      BY <1>1, <2>4, PendingFacts, WritingNothing
    <3> QED BY <2>1, <2>2, <2>4, <3>1 DEF Stays, Stamped
  <2>5. CASE file'[c] = file[c] \o Pending(chan[c]) /\ chan[c].record # None
    <3>1. file'[c] = Append(file[c], chan[c].record)
      BY <1>1, <2>5, PendingFacts, Writing
    <3> QED BY <2>1, <2>2, <2>5, <3>1 DEF Cuts, Stamped
  <2> QED BY <2>2, <2>3, <2>4, <2>5
<1>5. CASE Timestamp
  <2>1. /\ chan'[c] = SetTime(chan[c], tick) /\ file' = file /\ heard' = heard
        /\ status' = "reading" /\ stamps' = stamps \cup {tick}
    BY <1>5 DEF Timestamp
  <2>2. chan'[c].record = chan[c].record
    BY <1>1, <2>1, SetTimeFacts
  <2> QED BY <2>1, <2>2 DEF Stays, Stamped
<1>6. CASE /\ UNCHANGED << chan, file, stamps, heard >>
           /\ status' \in {"reading", "aborted"}
  BY <1>6 DEF Stays, Stamped
<1>7. \/ DataFrame \/ Timestamp \/ EndFrame
      \/ \E n \in 0 .. MaxLost : LostFrames(n)
      \/ /\ UNCHANGED << chan, file, stamps, heard >>
         /\ status' \in {"reading", "aborted"}
  BY DEF Next, OtherFrame, VoltageHumidity, Temperature, ReadError, vars, output, history
<1> QED BY <1>2, <1>3, <1>4, <1>5, <1>6, <1>7

\* The samples of a record rise; all of q's come before all of r's.
Rising(r) ==
    \A i, j \in 1 .. Len(r.samples) : i < j => r.samples[i] < r.samples[j]
Precedes(q, r) ==
    \A i \in 1 .. Len(q.samples), j \in 1 .. Len(r.samples) : q.samples[i] < r.samples[j]

InOrder(list) ==
    \A k, l \in 1 .. Len(list) :
        /\ k < l => Precedes(list[k], list[l])
        /\ k = l => Rising(list[k])

\* r may be the next record of channel c.
MayFollow(r, c) ==
    Rising(r) /\ \A k \in 1 .. Len(file[c]) : Precedes(file[c][k], r)

OpenInOrder(c) == chan[c].record # None => MayFollow(chan[c].record, c)

LEMMA OrderedIsInOrder == Ordered <=> \A c \in Channels : InOrder(file[c])
BY DEF Ordered, InOrder, Precedes, Rising

LEMMA AppendInOrder ==
    ASSUME NEW list \in Seq(Record), InOrder(list), NEW r \in Record,
           Rising(r), \A k \in 1 .. Len(list) : Precedes(list[k], r)
    PROVE  InOrder(Append(list, r))
<1> DEFINE more == Append(list, r)
<1>1. /\ Len(list) \in Nat /\ Len(more) = Len(list) + 1
      /\ \A k \in 1 .. Len(list) : more[k] = list[k]
      /\ more[Len(list) + 1] = r
  BY AppendProperties, LenProperties
<1> HIDE DEF more
<1>2. ASSUME NEW k \in 1 .. Len(more), NEW l \in 1 .. Len(more)
      PROVE  /\ k < l => Precedes(more[k], more[l])
             /\ k = l => Rising(more[k])
  <2>1. CASE l = Len(list) + 1
    BY <1>1, <2>1
  <2>2. CASE l \in 1 .. Len(list)
    BY <1>1, <2>2 DEF InOrder
  <2> QED BY <1>1, <2>1, <2>2
<1> QED BY <1>2 DEF InOrder, more

\* The next sample is later than all samples before it.
LEMMA FilledInOrder ==
    ASSUME IInv, NEW c \in Channels, chan[c].time # None, OpenInOrder(c)
    PROVE  MayFollow(Filled(chan[c], tick), c)
<1> DEFINE open == chan[c].record
           r == Filled(chan[c], tick)
<1>1. /\ TypeOK /\ RecordsOK(c) /\ chan[c] \in Channel /\ tick \in Nat
      /\ file[c] \in Seq(Record)
  BY ChannelTypes DEF IInv, TypeOK
<1>2. ASSUME NEW k \in 1 .. Len(file[c]), NEW i \in 1 .. Len(file[c][k].samples)
      PROVE  file[c][k].samples[i] < tick
  BY <1>1 DEF RecordsOK, RecordOK, Written
<1>3. CASE open = None
  <2>1. Len(r.samples) = 1 /\ r.samples[1] = tick
    BY <1>1, <1>3, FilledFacts
  <2>2. Rising(r)
    BY <2>1 DEF Rising
  <2>3. \A k \in 1 .. Len(file[c]) : Precedes(file[c][k], r)
    BY <1>2, <2>1 DEF Precedes
  <2> QED BY <2>2, <2>3 DEF MayFollow
<1>4. CASE open # None
  <2> DEFINE n == Len(open.samples)
  <2>1. /\ Len(r.samples) = n + 1
        /\ \A i \in 1 .. n : r.samples[i] = open.samples[i]
        /\ r.samples[n + 1] = tick
    BY <1>1, <1>4, FilledFacts
  <2>2. n \in Nat /\ \A i \in 1 .. n : open.samples[i] < tick
    BY <1>1, <1>4, ChannelTypes, OpenSamples
  <2>3. MayFollow(open, c)
    BY <1>4 DEF OpenInOrder
  <2>4. \A i, j \in 1 .. n : i < j => open.samples[i] < open.samples[j]
    BY <2>3 DEF MayFollow, Rising
  <2>5. \A k \in 1 .. Len(file[c]) : \A i \in 1 .. Len(file[c][k].samples), j \in 1 .. n :
            file[c][k].samples[i] < open.samples[j]
    BY <2>3 DEF MayFollow, Precedes
  <2> HIDE DEF n, r, open
  <2>6. \A j \in 1 .. n + 1 : j \in 1 .. n \/ j = n + 1
    BY <2>2
  <2>7. Rising(r)
    <3> SUFFICES ASSUME NEW i \in 1 .. n + 1, NEW j \in 1 .. n + 1, i < j
                 PROVE  r.samples[i] < r.samples[j]
      BY <2>1 DEF Rising
    <3>1. i \in 1 .. n
      BY <2>2
    <3> QED BY <2>1, <2>2, <2>4, <2>6, <3>1
  <2>8. \A k \in 1 .. Len(file[c]) : Precedes(file[c][k], r)
    BY <1>2, <2>1, <2>5, <2>6 DEF Precedes
  <2> QED BY <2>7, <2>8 DEF MayFollow, r
<1> QED BY <1>3, <1>4

LEMMA Gathering ==
    ASSUME NEW A, NEW B, NEW r
    PROVE  /\ SamplesIn(A \cup B) = SamplesIn(A) \cup SamplesIn(B)
           /\ SamplesIn({r}) = SamplesOf(r)
           /\ SamplesIn({}) = {}
BY DEF SamplesIn

\* The record that takes the next sample holds those of the open record too.
LEMMA FilledSamples ==
    ASSUME NEW ch \in Channel, ch.time # None, NEW x \in Nat
    PROVE  SamplesOf(Filled(ch, x)) = SamplesIn({ch.record} \ {None}) \cup {x}
<1> DEFINE r == Filled(ch, x)
<1>1. CASE ch.record = None
  <2>1. Len(r.samples) = 1 /\ r.samples[1] = x
    BY <1>1, FilledFacts
  <2> HIDE DEF r
  <2>2. SamplesOf(r) = {x}
    BY <2>1 DEF SamplesOf
  <2>3. SamplesIn({ch.record} \ {None}) = {}
    BY <1>1, Gathering
  <2> QED BY <2>2, <2>3 DEF r
<1>2. CASE ch.record # None
  <2> DEFINE open == ch.record
             n == Len(open.samples)
  <2>1. /\ Len(r.samples) = n + 1
        /\ \A i \in 1 .. n : r.samples[i] = open.samples[i]
        /\ r.samples[n + 1] = x
    BY <1>2, FilledFacts
  <2>2. n \in Nat
    BY <1>2 DEF Channel, Record
  <2>3. SamplesIn({ch.record} \ {None}) = SamplesOf(open)
    BY <1>2, Gathering
  <2> HIDE DEF r, n, open
  <2>4. 1 .. n + 1 = (1 .. n) \cup {n + 1}
    BY <2>2
  <2>5. SamplesOf(r) = {r.samples[i] : i \in 1 .. n} \cup {x}
    BY <2>1, <2>4 DEF SamplesOf
  <2>6. {r.samples[i] : i \in 1 .. n} = {open.samples[i] : i \in 1 .. n}
    BY <2>1
  <2> QED BY <2>3, <2>5, <2>6 DEF SamplesOf, r, n
<1> QED BY <1>1, <1>2

\* A list of n samples holds no more than n.
LEMMA ListBound ==
    ASSUME NEW n \in Nat, NEW s \in [1 .. n -> Nat],
           NEW S \in SUBSET {s[i] : i \in 1 .. n}
    PROVE  Cardinality(S) \in Nat /\ Cardinality(S) <= n
<1> DEFINE T == {s[i] : i \in 1 .. n}
<1>1. s \in Surjection(1 .. n, T)
  BY DEF Surjection
<1>2. IsFiniteSet(1 .. n) /\ Cardinality(1 .. n) = n
  BY FS_Interval
<1>3. IsFiniteSet(T) /\ Cardinality(T) <= n
  BY <1>1, <1>2, FS_Surjection
<1>4. Cardinality(S) <= Cardinality(T) /\ Cardinality(S) \in Nat /\ Cardinality(T) \in Nat
  BY <1>3, FS_Subset, FS_CardinalityType
<1> HIDE DEF T
<1> QED BY <1>3, <1>4

KeptInv ==
    /\ IInv
    /\ NothingLost
    /\ AbortLoss
    /\ status = "reading" => \A c \in Channels : Stamped(c) /\ OpenInOrder(c)

LEMMA OrderStep ==
    ASSUME KeptInv, status = "reading", [Next]_vars, NEW c \in Channels
    PROVE  /\ InOrder(file'[c])
           /\ status' = "reading" => OpenInOrder(c)'
<1>1. /\ IInv /\ Stamped(c) /\ OpenInOrder(c) /\ InOrder(file[c])
      /\ chan[c] \in Channel /\ file[c] \in Seq(Record) /\ tick \in Nat
  BY OrderedIsInOrder, ChannelTypes DEF KeptInv, NothingLost, IInv, TypeOK
<1>2. CASE Stays(c)
  BY <1>1, <1>2 DEF Stays, OpenInOrder, MayFollow
<1>3. CASE Takes(c)
  <2> DEFINE r == Filled(chan[c], tick)
  <2>1. r \in Record /\ MayFollow(r, c)
    BY <1>1, <1>3, FilledFacts, FilledInOrder DEF Takes
  <2>2. \/ file'[c] = Append(file[c], r) /\ chan'[c].record = None
        \/ file'[c] = file[c] /\ chan'[c].record = r
    BY <1>3 DEF Takes
  <2> HIDE DEF r
  <2> QED BY <1>1, <2>1, <2>2, AppendInOrder DEF OpenInOrder, MayFollow
<1>4. CASE Cuts(c)
  <2>1. chan[c].record \in Record /\ MayFollow(chan[c].record, c)
    BY <1>1, <1>4 DEF Cuts, OpenInOrder, Channel
  <2> QED BY <1>1, <1>4, <2>1, AppendInOrder DEF Cuts, OpenInOrder, MayFollow
<1> QED BY <1>1, <1>2, <1>3, <1>4, Moves

\* The samples of the records of a channel, after each kind of step.
LEMMA SamplesStep ==
    ASSUME KeptInv, status = "reading", [Next]_vars, NEW c \in Channels
    PROVE  /\ status' = "reading" => SamplesIn(Written(c)' \cup Open(c)') = heard'
           /\ status' = "finished" => SamplesIn(Written(c)') = heard'
           /\ Written(c) \subseteq Written(c)'
           /\ heard' \subseteq heard \cup {tick}
<1>1. /\ IInv /\ Stamped(c)
      /\ SamplesIn(Written(c) \cup Open(c)) = heard
      /\ chan[c] \in Channel /\ file[c] \in Seq(Record) /\ tick \in Nat
  BY ChannelTypes DEF KeptInv, NothingLost, IInv, TypeOK
<1>2. ASSUME NEW r \in Record, file'[c] = Append(file[c], r)
      PROVE  Written(c)' = Written(c) \cup {r}
  <2>1. << r >> \in Seq(Record) /\ file'[c] = file[c] \o << r >>
    BY <1>1, <1>2, Writing
  <2> QED BY <1>1, <2>1, WrittenAfter
<1>3. file'[c] = file[c] => Written(c)' = Written(c)
  BY DEF Written
<1>4. CASE Stays(c)
  <2>1. Written(c)' = Written(c) /\ Open(c)' = Open(c)
    BY <1>3, <1>4 DEF Stays, Open
  <2>2. status' = "finished" => Open(c) = {}
    BY <1>4 DEF Stays, Open
  <2> QED BY <1>1, <1>4, <2>1, <2>2 DEF Stays
<1>5. CASE Takes(c)
  <2> DEFINE r == Filled(chan[c], tick)
  <2>1. r \in Record /\ SamplesOf(r) = SamplesIn(Open(c)) \cup {tick}
    BY <1>1, <1>5, FilledFacts, FilledSamples DEF Takes, Open
  <2>2. \/ file'[c] = Append(file[c], r) /\ chan'[c].record = None
        \/ file'[c] = file[c] /\ chan'[c].record = r
    BY <1>5 DEF Takes
  <2> HIDE DEF r
  <2>3. /\ Written(c) \subseteq Written(c)'
        /\ Written(c)' \cup Open(c)' = Written(c) \cup {r}
    <3>1. CASE file'[c] = Append(file[c], r) /\ chan'[c].record = None
      <4>1. Written(c)' = Written(c) \cup {r} /\ Open(c)' = {}
        BY <1>2, <2>1, <3>1 DEF Open
      <4> QED BY <4>1
    <3>2. CASE file'[c] = file[c] /\ chan'[c].record = r
      <4>1. Written(c)' = Written(c) /\ Open(c)' = {r}
        BY <1>3, <2>1, <3>2, NoneAssumption DEF Open
      <4> QED BY <4>1
    <3> QED BY <2>2, <3>1, <3>2
  <2>4. SamplesIn(Written(c) \cup {r}) = heard \cup {tick}
    <3>1. SamplesIn(Written(c) \cup {r}) = SamplesIn(Written(c)) \cup SamplesOf(r)
      BY DEF SamplesIn
    <3>2. heard = SamplesIn(Written(c)) \cup SamplesIn(Open(c))
      BY <1>1, Gathering
    <3> QED BY <2>1, <3>1, <3>2
  <2> QED BY <1>5, <2>3, <2>4 DEF Takes
<1>6. CASE Cuts(c)
  <2>1. chan[c].record \in Record /\ Open(c) = {chan[c].record}
    BY <1>1, <1>6 DEF Cuts, Open, Channel
  <2>2. Written(c)' = Written(c) \cup Open(c)
    BY <1>2, <1>6, <2>1 DEF Cuts
  <2>3. status' = "reading" => Open(c)' = {}
    BY <1>6 DEF Cuts, Open
  <2> QED BY <1>1, <1>6, <2>2, <2>3 DEF Cuts
<1> QED BY <1>1, <1>4, <1>5, <1>6, Moves

\* What is heard after a step and was not in the file before it is in the open
\* record, which has room for one sample more, or is that sample.
LEMMA LossStep ==
    ASSUME KeptInv, status = "reading", [Next]_vars, NEW c \in Channels
    PROVE  Cardinality(heard' \ SamplesIn(Written(c)')) <= Capacity
<1> DEFINE lost == heard' \ SamplesIn(Written(c)')
           open == chan[c].record
<1>1. /\ TypeOK /\ chan[c] \in Channel /\ tick \in Nat
      /\ Capacity \in Nat /\ Capacity >= 1
  BY ChannelTypes, CapacityAssumption DEF KeptInv, IInv, TypeOK
<1>2. lost \subseteq SamplesIn(Open(c)) \cup {tick}
  <2>1. heard = SamplesIn(Written(c)) \cup SamplesIn(Open(c))
    BY Gathering DEF KeptInv, NothingLost
  <2>2. SamplesIn(Written(c)) \subseteq SamplesIn(Written(c)')
    BY SamplesStep DEF SamplesIn
  <2> QED BY <2>1, <2>2, SamplesStep
<1> HIDE DEF lost
<1>3. CASE open = None
  <2>1. lost \subseteq {tick}
    BY <1>2, <1>3, Gathering DEF Open
  <2> DEFINE s == [i \in 1 .. 1 |-> tick]
  <2>2. s \in [1 .. 1 -> Nat] /\ lost \in SUBSET {s[i] : i \in 1 .. 1}
    BY <1>1, <2>1
  <2> HIDE DEF s
  <2>3. Cardinality(lost) \in Nat /\ Cardinality(lost) <= 1
    BY <2>2, ListBound
  <2> QED BY <1>1, <2>3 DEF lost
<1>4. CASE open # None
  <2> DEFINE n == Len(open.samples)
             s == [i \in 1 .. n + 1 |-> IF i \in 1 .. n THEN open.samples[i] ELSE tick]
  <2>1. /\ open \in Record /\ open.samples \in Seq(Nat) /\ n \in Nat
        /\ \A i \in 1 .. n : open.samples[i] \in Nat
    BY <1>1, <1>4, ElementOfSeq, LenProperties DEF Channel, Record
  <2>2. n + 1 <= Capacity
    <3>1. ~ IsFull(open)
      BY <1>1, <1>4 DEF TypeOK
    <3> QED BY <1>1, <2>1, <3>1 DEF IsFull
  <2>3. SamplesIn(Open(c)) = {open.samples[i] : i \in 1 .. n}
    <3>1. Open(c) = {open}
      BY <1>4 DEF Open
    <3> QED BY <3>1, Gathering DEF SamplesOf
  <2> HIDE DEF n, open
  <2>4. s \in [1 .. n + 1 -> Nat] /\ n + 1 \in Nat
    BY <1>1, <2>1
  <2>5. lost \in SUBSET {s[i] : i \in 1 .. n + 1}
    <3>1. \A i \in 1 .. n : i \in 1 .. n + 1 /\ s[i] = open.samples[i]
      BY <2>1
    <3>2. n + 1 \in 1 .. n + 1 /\ s[n + 1] = tick
      BY <2>1
    <3> HIDE DEF s
    <3> QED BY <1>2, <2>3, <3>1, <3>2
  <2> HIDE DEF s
  <2>6. Cardinality(lost) \in Nat /\ Cardinality(lost) <= n + 1
    BY <2>4, <2>5, ListBound
  <2> QED BY <1>1, <2>1, <2>2, <2>6 DEF lost
<1> QED BY <1>3, <1>4

LEMMA KeptStep == KeptInv /\ [Next]_vars => KeptInv'
<1> SUFFICES ASSUME KeptInv, [Next]_vars PROVE KeptInv'
  OBVIOUS
<1>1. IInv'
  BY InvStep DEF KeptInv
<1>2. CASE status = "reading"
  <2>1. ASSUME NEW c \in Channels
        PROVE  /\ InOrder(file'[c])
               /\ status' = "reading" => OpenInOrder(c)' /\ Stamped(c)'
    BY <1>2, OrderStep, Moves DEF KeptInv
  <2>2. Ordered'
    <3>1. (Ordered <=> \A c \in Channels : InOrder(file[c]))'
      BY OrderedIsInOrder, PTL
    <3> QED BY <2>1, <3>1
  <2>3. NothingLost'
    BY <1>2, <2>2, SamplesStep DEF NothingLost
  <2>4. AbortLoss'
    BY <1>2, LossStep DEF AbortLoss
  <2> QED BY <1>1, <2>1, <2>3, <2>4 DEF KeptInv
<1>3. CASE status # "reading"
  <2>1. status' = status /\ file' = file /\ heard' = heard
    BY <1>3, Over DEF vars, output, history
  <2>2. \A c \in Channels : Written(c)' = Written(c)
    BY <2>1 DEF Written
  <2>3. Ordered'
    <3>1. \A c \in Channels : InOrder(file'[c])
      BY <2>1, OrderedIsInOrder DEF KeptInv, NothingLost
    <3>2. (Ordered <=> \A c \in Channels : InOrder(file[c]))'
      BY OrderedIsInOrder, PTL
    <3> QED BY <3>1, <3>2
  <2>4. NothingLost'
    BY <1>3, <2>1, <2>2, <2>3 DEF KeptInv, NothingLost
  <2>5. AbortLoss'
    BY <2>1, <2>2 DEF KeptInv, AbortLoss
  <2> QED BY <1>1, <1>3, <2>1, <2>4, <2>5 DEF KeptInv
<1> QED BY <1>2, <1>3

LEMMA KeptInit == Init => KeptInv
<1> SUFFICES ASSUME Init PROVE KeptInv
  OBVIOUS
<1>1. ASSUME NEW c \in Channels
      PROVE  /\ chan[c].time = None /\ chan[c].record = None
             /\ file[c] = << >> /\ Len(file[c]) = 0
             /\ Written(c) = {} /\ Open(c) = {}
  <2>1. chan[c].time = None /\ chan[c].record = None /\ file[c] = << >>
    BY DEF Init, NewChannel
  <2> QED BY <2>1 DEF Written, Open
<1>2. heard = {} /\ status = "reading"
  BY DEF Init
<1>3. Ordered
  BY <1>1 DEF Ordered
<1>4. NothingLost
  BY <1>1, <1>2, <1>3, Gathering DEF NothingLost
<1>5. AbortLoss
  <2>1. heard \ {} = {} /\ Cardinality({}) = 0
    BY <1>2, FS_EmptySet
  <2> QED BY <1>1, <1>2, <2>1, Gathering, CapacityAssumption DEF AbortLoss
<1>6. \A c \in Channels : Stamped(c) /\ OpenInOrder(c)
  BY <1>1 DEF Stamped, OpenInOrder
<1> QED BY <1>4, <1>5, <1>6, InvInit DEF KeptInv

LEMMA KeptAlways == Spec => []KeptInv
BY KeptInit, KeptStep, PTL DEF Spec

\* Every sample after the first Timestamp is in the open record or the file of
\* every channel, and in the file when the run has finished: none is lost and
\* none is written twice or out of order (Channel#sample, #lost and #done).
THEOREM SamplesKept == Spec => []NothingLost
<1>1. KeptInv => NothingLost
  BY DEF KeptInv
<1> QED BY <1>1, KeptAlways, PTL

\* However the run ends, no file lacks more samples than a record holds
\* (Makeseed#run, whose rescue drops the open records).
THEOREM LittleIsLost == Spec => []AbortLoss
<1>1. KeptInv => AbortLoss
  BY DEF KeptInv
<1> QED BY <1>1, KeptAlways, PTL
=============================================================================
