----------------------------- MODULE SeedChannel -----------------------------
(***************************************************************************)
(* One output channel of makeseed: the Ruby class Makeseed::Channel with   *)
(* the Seed::DataRecord it fills.  The module has no variables.  A channel *)
(* is a value, and each of its methods is an operator that yields the      *)
(* channel afterwards and the records it wrote to its file.  Makeseed      *)
(* (frame by frame) and MakeseedFast (buffer by buffer) drive it.          *)
(*                                                                         *)
(* Time is counted in sample intervals, so @sample_time is 1, and the      *)
(* floating point sum @time + @time_offset is exact.  A sample is          *)
(* identified with the time at which it was really taken.                  *)
(*                                                                         *)
(* An operator whose name ends in _bug... is not part of the model.  It is *)
(* the definition after it with a plausible mistake; the README says which *)
(* property rejects it.                                                    *)
(***************************************************************************)
EXTENDS Naturals, Sequences

CONSTANTS
    Capacity,     \* samples that fit in one DataRecord: (4096 - 64) / 4
    MaxSequence,  \* the largest sequence number a DataRecord accepts: 999999
    None          \* Ruby's nil

\* A DataRecord: what its header says of the samples, and the samples.
Record == [seq : Nat, start : Nat, samples : Seq(Nat)]

ASSUME CapacityAssumption == Capacity \in Nat \ {0}
ASSUME MaxSequenceAssumption == MaxSequence \in Nat
ASSUME NoneAssumption == None \notin Nat /\ None \notin Record

\* The instance variables of a Channel that change: @time, @time_offset,
\* @record and @next_sequence_number.
Channel == [time : Nat \cup {None}, offset : Nat,
            record : Record \cup {None}, next : Nat]

\* Channel#initialize.  @time_offset is nil until the first time=; no method
\* reads it before that without a failure, which the callers model.
NewChannel == [time |-> None, offset |-> 0, record |-> None, next |-> 1]

SetTime_bugOffset(ch, t) == [ch EXCEPT !.time = t]

SetTime_bugOnce(ch, t) ==
    IF ch.time = None THEN [ch EXCEPT !.time = t, !.offset = 0] ELSE ch

\* Channel#time=
SetTime(ch, t) == [ch EXCEPT !.time = t, !.offset = 0]

\* The time the channel gives to its next sample.
Clock(ch) == ch.time + ch.offset

BTime_bugDown(us) ==
    [second |-> us \div 1000000, tenthMs |-> (us % 1000000) \div 100]

\* mrb_time2btime of a time in microseconds; the second stands for the date.
\* The rounding may give 10000, which is not carried.
BTime(us) ==
    [second |-> us \div 1000000, tenthMs |-> ((us % 1000000) + 50) \div 100]

IsFull_bugLate(r) == Len(r.samples) > Capacity

\* DataRecord#full
IsFull(r) == Len(r.samples) >= Capacity

\* A new record for the next sample.  Its setters may raise instead; see
\* Makeseed.
NewRecord(ch) == [seq |-> ch.next, start |-> Clock(ch), samples |-> << >>]

WithRecord_bugNumber(ch) ==
    IF ch.record = None THEN [ch EXCEPT !.record = NewRecord(ch)] ELSE ch

\* The channel with a record to fill.
WithRecord(ch) ==
    IF ch.record = None
    THEN [ch EXCEPT !.record = NewRecord(ch), !.next = @ + 1]
    ELSE ch

\* DataRecord#push
Push(r, x) == [r EXCEPT !.samples = Append(@, x)]

Sample_bugFullFirst(ch, x) ==
    IF ch.time = None
    THEN [chan |-> ch, out |-> << >>]
    ELSE LET open == WithRecord(ch)
             r == Push(open.record, x)
             after == [open EXCEPT !.offset = @ + 1]
         IN  IF IsFull(open.record)
             THEN [chan |-> [after EXCEPT !.record = None], out |-> << r >>]
             ELSE [chan |-> [after EXCEPT !.record = r], out |-> << >>]

\* Channel#sample: nothing before the first time stamp; otherwise x goes into
\* the open record, which is written as soon as it is full.
Sample(ch, x) ==
    IF ch.time = None
    THEN [chan |-> ch, out |-> << >>]
    ELSE LET open == WithRecord(ch)
             r == Push(open.record, x)
             after == [open EXCEPT !.offset = @ + 1]
         IN  IF IsFull(r)
             THEN [chan |-> [after EXCEPT !.record = None], out |-> << r >>]
             ELSE [chan |-> [after EXCEPT !.record = r], out |-> << >>]

\* DataRecord#push_sample_buffer: how many samples of b still fit, and the
\* record with them.
Fits(r, b) ==
    LET m == Capacity - Len(r.samples) IN IF m < Len(b) THEN m ELSE Len(b)
PushBuffer(r, b) == [r EXCEPT !.samples = @ \o SubSeq(b, 1, Fits(r, b))]

TakeSlice_bugOne(ch, b) ==
    LET open == WithRecord(ch)
        r == PushBuffer(open.record, b)
        after == [open EXCEPT !.offset = @ + 1]
    IN  [chan |-> [after EXCEPT !.record = IF IsFull(r) THEN None ELSE r],
         out  |-> IF IsFull(r) THEN << r >> ELSE << >>,
         rest |-> SubSeq(b, Fits(open.record, b) + 1, Len(b))]
TakeSlice_bugWrite(ch, b) ==
    LET open == WithRecord(ch)
        i == Fits(open.record, b)
        r == PushBuffer(open.record, b)
        after == [open EXCEPT !.offset = @ + i]
    IN  [chan |-> [after EXCEPT !.record = IF IsFull(r) THEN None ELSE r],
         out  |-> << >>,
         rest |-> SubSeq(b, i + 1, Len(b))]

\* One turn of the loop in Channel#sample_buffer: b is the slice that is still
\* to be taken, rest what remains of it afterwards.
TakeSlice(ch, b) ==
    LET open == WithRecord(ch)
        i == Fits(open.record, b)
        r == PushBuffer(open.record, b)
        after == [open EXCEPT !.offset = @ + i]
    IN  [chan |-> [after EXCEPT !.record = IF IsFull(r) THEN None ELSE r],
         out  |-> IF IsFull(r) THEN << r >> ELSE << >>,
         rest |-> SubSeq(b, i + 1, Len(b))]

\* The open record as the list of what a write of it adds to the file.
Pending(ch) == IF ch.record = None THEN << >> ELSE << ch.record >>

Lost_bugDropped(ch, n) ==
    [chan |-> [ch EXCEPT !.record = None, !.offset = @ + n], out |-> << >>]

\* Channel#lost: the record is cut and the time moves on by n samples.
Lost(ch, n) == [chan |-> [ch EXCEPT !.record = None, !.offset = @ + n],
                out  |-> Pending(ch)]

Done_bugDropped(ch) == [chan |-> ch, out |-> << >>]

\* Channel#done: the open record is written as it is.
Done(ch) == [chan |-> ch, out |-> Pending(ch)]

-----------------------------------------------------------------------------
\* The samples of a record, and those of a set of records.
SamplesOf(r) == {r.samples[i] : i \in 1 .. Len(r.samples)}
SamplesIn(records) == UNION {SamplesOf(r) : r \in records}

\* A file as an archive (SeedArchive): samples are only counted.
EntryOf(r) == [seq |-> r.seq, start |-> r.start, length |-> Len(r.samples)]
ArchiveOf(list) == [k \in 1 .. Len(list) |-> EntryOf(list[k])]
=============================================================================
