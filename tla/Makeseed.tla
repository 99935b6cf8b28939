------------------------------- MODULE Makeseed -------------------------------
(***************************************************************************)
(* makeseed without --fast: Makeseed#run reads the card frame by frame     *)
(* (KumSd::File#each_frame) and feeds one Channel per channel of the card. *)
(*                                                                         *)
(* The recorder that filled the card is the environment.  What it did is   *)
(* revealed as the frames are read: tick is the real time of the next      *)
(* sample, and a frame's contents follow from it.                          *)
(***************************************************************************)
EXTENDS SeedChannel, FiniteSets

CONSTANTS
    NChannels,     \* channels of the card: 1..8 in a header
    MaxFrames,     \* bound: frames on the card
    MaxLost,       \* bound: samples one LostFrames frame reports
    MaxGap,        \* bound: samples missing without a LostFrames frame
    StartMicros,   \* the real time of tick 0, in microseconds
    TickMicros,    \* the time between two samples
    RefusalCases,  \* for each card, the <<channel, start>> a DataRecord refuses
    Rooms          \* for each disk, the records that still fit on it

ASSUME NChannelsAssumption == NChannels \in Nat \ {0}
ASSUME BoundsAssumption == MaxFrames \in Nat /\ MaxLost \in Nat /\ MaxGap \in Nat
ASSUME MicrosAssumption == StartMicros \in Nat /\ TickMicros \in Nat
ASSUME RoomsAssumption == Rooms \subseteq Nat

\* Index of a channel in sd.channels and in a data frame.
Channels == 0 .. NChannels - 1

VARIABLES
    \* The card and the disk.
    left,     \* frames that may still be on the card
    tick,     \* the real time of the next sample
    refused,  \* <<channel, start>>: a DataRecord of that name or start time raises
    room,     \* records that still fit on the disk
    \* The program.
    status,   \* "reading", "finished" or "aborted" (the rescue of run)
    chan,     \* the Channel objects
    file,     \* the records in each channel's file
    edata,    \* the last voltage and humidity: the tick at which it was measured
    rows,     \* the lines of engineeringdata.csv
    \* History.
    stamps,   \* the times of the Timestamp frames read
    silent,   \* ticks just after a gap that no LostFrames frame reported
    heard     \* the samples read since the first Timestamp

card    == << left, tick, refused >>
output  == << room, chan, file >>
csv     == << edata, rows >>
history == << stamps, silent, heard >>
vars    == << card, status, output, csv, history >>

-----------------------------------------------------------------------------
\* A new DataRecord for channel c would raise: name too long, sample rate or
\* correction out of range (refused), or no sequence number left.
RecordRaises(c) ==
    /\ chan[c].time # None
    /\ chan[c].record = None
    /\ \/ chan[c].next > MaxSequence
       \/ << c, Clock(chan[c]) >> \in refused

EachChannel_bugRescue(result, raises, ending) ==
    LET passed == Channels \ raises
    IN  /\ chan' = [c \in Channels |->
                       IF c \in passed THEN result[c].chan ELSE chan[c]]
        /\ file' = [c \in Channels |->
                       IF c \in passed THEN file[c] \o result[c].out ELSE file[c]]
        /\ status' = ending
        /\ UNCHANGED room

\* One pass of "channels.each": every channel gets result[c].chan and writes
\* result[c].out.  The first channel to raise, because of raises or because
\* the disk is full, ends the run; the channels before it are done, the others
\* were not reached.  When none raises, the run is then in the state ending.
EachChannel(result, raises, ending) ==
    LET writes == {c \in Channels : result[c].out # << >>}
        full   == {c \in writes : Cardinality({d \in writes : d < c}) >= room}
        passed == {c \in Channels : \A d \in Channels :
                                        d <= c => d \notin raises \cup full}
    IN  /\ chan' = [c \in Channels |->
                       IF c \in passed THEN result[c].chan ELSE chan[c]]
        /\ file' = [c \in Channels |->
                       IF c \in passed THEN file[c] \o result[c].out ELSE file[c]]
        /\ room' = room - Cardinality(writes \cap passed)
        /\ status' = IF passed = Channels THEN ending ELSE "aborted"

\* The next frame of the card is read.
NextFrame == status = "reading" /\ left > 0 /\ left' = left - 1

-----------------------------------------------------------------------------
Init ==
    /\ left = MaxFrames
    /\ tick = 1
    /\ refused \in RefusalCases
    /\ room \in Rooms
    /\ status = "reading"
    /\ chan = [c \in Channels |-> NewChannel]
    /\ file = [c \in Channels |-> << >>]
    /\ edata = 0
    /\ rows = << >>
    /\ stamps = {}
    /\ silent = {}
    /\ heard = {}

\* A Timestamp frame gives the time of the sample after it.
Timestamp ==
    /\ NextFrame
    /\ chan' = [c \in Channels |-> SetTime(chan[c], tick)]
    /\ stamps' = stamps \cup {tick}
    /\ UNCHANGED << tick, refused, room, status, file, csv, silent, heard >>

\* A data frame: one sample for each channel.
DataFrame ==
    /\ NextFrame
    /\ EachChannel([c \in Channels |-> Sample(chan[c], tick)],
                   {c \in Channels : RecordRaises(c)}, "reading")
    /\ tick' = tick + 1
    /\ heard' = IF stamps # {} THEN heard \cup {tick} ELSE heard
    /\ UNCHANGED << refused, csv, stamps, silent >>

\* A LostFrames frame: n samples were not recorded.  Before any Timestamp the
\* line for the log raises (the time of channel 0 is nil), and the run ends.
LostFrames(n) ==
    /\ NextFrame
    /\ IF chan[0].time = None
       THEN status' = "aborted" /\ UNCHANGED output
       ELSE EachChannel([c \in Channels |-> Lost(chan[c], n)], {}, "reading")
    /\ tick' = tick + n
    /\ UNCHANGED << refused, csv, history >>

\* Check, Reboot and FrameNumber frames: run does nothing with them.  Samples
\* may be missing at such a frame (a reboot, a FrameNumber that jumps).
OtherFrame(gap) ==
    /\ NextFrame
    /\ tick' = tick + gap
    /\ silent' = IF gap = 0 THEN silent ELSE silent \cup {tick + gap}
    /\ UNCHANGED << refused, status, output, csv, stamps, heard >>

\* A VoltageHumidity frame: kept for the next line of the CSV file.
VoltageHumidity ==
    /\ NextFrame
    /\ edata' = tick
    /\ UNCHANGED << tick, refused, status, output, rows, history >>

\* A Temperature frame, measured now: a line with the time of channel 0
\* (nil.to_i is 0) and the last voltage and humidity.
Temperature ==
    /\ NextFrame
    /\ rows' = Append(rows,
           [time |-> IF chan[0].time = None THEN 0 ELSE chan[0].time,
            voltage |-> edata, measured |-> tick])
    /\ UNCHANGED << tick, refused, status, output, edata, history >>

\* EndFrame, or no room for one more frame before the end address: each_frame
\* ends and every channel writes its open record.
EndFrame ==
    /\ status = "reading"
    /\ EachChannel([c \in Channels |-> Done(chan[c])], {}, "finished")
    /\ UNCHANGED << card, csv, history >>

\* read_frame raises: the card can not be read.  The open records are lost.
ReadError ==
    /\ status = "reading"
    /\ status' = "aborted"
    /\ UNCHANGED << card, output, csv, history >>

Next ==
    \/ Timestamp
    \/ DataFrame
    \/ \E n \in 0 .. MaxLost : LostFrames(n)
    \/ \E gap \in 0 .. MaxGap : OtherFrame(gap)
    \/ VoltageHumidity
    \/ Temperature
    \/ EndFrame
    \/ ReadError

Spec == Init /\ [][Next]_vars

\* The process runs until run returns; nothing it waits for can keep it away.
FairSpec == Spec /\ WF_vars(Next)

-----------------------------------------------------------------------------
(***************************************************************************)
(* Properties                                                              *)
(***************************************************************************)

\* Every variable has its type; the open record always has room for a sample,
\* so that DataRecord#push never raises "DataRecord is full".
TypeOK ==
    /\ left \in Nat
    /\ tick \in Nat \ {0}
    /\ refused \in RefusalCases
    /\ room \in Nat
    /\ status \in {"reading", "finished", "aborted"}
    /\ chan \in [Channels -> Channel]
    /\ \A c \in Channels :
           chan[c].record # None => ~ IsFull(chan[c].record)
    /\ file \in [Channels -> Seq(Record)]
    /\ edata \in Nat
    /\ rows \in Seq([time : Nat, voltage : Nat, measured : Nat])
    /\ stamps \subseteq Nat
    /\ silent \subseteq Nat
    /\ heard \subseteq Nat

\* The records of channel c: those in its file, and the open one.
Written(c) == {file[c][k] : k \in 1 .. Len(file[c])}
Open(c) == {chan[c].record} \ {None}

\* A Timestamp was read at or before the sample taken at first, and from that
\* Timestamp up to the sample taken at last every missing sample was reported.
Timed(first, last) ==
    \E s \in stamps : s <= first /\ ~ \E g \in silent : s < g /\ g <= last

\* The time a record gives each of its samples (its start time and the
\* sample's position) is the time at which the sample was taken, across lost
\* frames and new time stamps, as long as no samples went missing silently.
TimesTrue ==
    \A c \in Channels : \A r \in Written(c) \cup Open(c) :
        \A i \in 1 .. Len(r.samples) :
            Timed(r.samples[1], r.samples[i]) => r.start + i - 1 = r.samples[i]

Micros(t) == StartMicros + t * TickMicros
Near(a, b, d) == a - b <= d /\ b - a <= d

\* The time that another program reads from a record for its i-th sample: the
\* BTIME in the header and the sample rate.
ReadTime(r, i) ==
    LET b == BTime(Micros(r.start))
    IN  b.second * 1000000 + b.tenthMs * 100 + (i - 1) * TickMicros

\* Read back from a file, every sample has its time, to half of the tenth of a
\* millisecond in which a header counts, also where the count goes to 10000.
TimesRead ==
    \A c \in Channels : \A r \in Written(c) : \A i \in 1 .. Len(r.samples) :
        Timed(r.samples[1], r.samples[i]) =>
            Near(ReadTime(r, i), Micros(r.samples[i]), 50)

\* The samples of a file are in the order in which they were taken, within a
\* record and from one record to the next, and none is there twice.
Ordered ==
    \A c \in Channels : \A k, l \in 1 .. Len(file[c]) :
        \A i \in 1 .. Len(file[c][k].samples), j \in 1 .. Len(file[c][l].samples) :
            (k < l \/ (k = l /\ i < j)) =>
                file[c][k].samples[i] < file[c][l].samples[j]

\* Every sample read after the first Timestamp is in the file or in the open
\* record of every channel, and in the file when the run has finished, once and
\* in order.
NothingLost ==
    /\ Ordered
    /\ \A c \in Channels :
           /\ status = "reading"  => SamplesIn(Written(c) \cup Open(c)) = heard
           /\ status = "finished" => SamplesIn(Written(c)) = heard

\* However the run ends, a channel's file lacks at most the samples of one
\* record.
AbortLoss ==
    \A c \in Channels :
        Cardinality(heard \ SamplesIn(Written(c))) <= Capacity

\* The files of all channels hold the same records.  Only a run that was
\* aborted leaves a later channel behind an earlier one, by one record.
Aligned ==
    \A c, d \in Channels :
        /\ status # "aborted" => file[c] = file[d]
        /\ c < d => \/ file[c] = file[d]
                   \/ \E r \in Written(c) : file[c] = Append(file[d], r)

\* A line of the engineering data is dated by the latest Timestamp before its
\* measurement, and its voltage was measured before its temperature.
RowsTrue ==
    \A k \in 1 .. Len(rows) :
        /\ rows[k].time <= rows[k].measured
        /\ rows[k].voltage <= rows[k].measured
        /\ ~ \E s \in stamps : rows[k].time < s /\ s < rows[k].measured

-----------------------------------------------------------------------------
Archive == INSTANCE SeedArchive
    WITH archive <- [c \in Channels |-> ArchiveOf(file[c])]

\* makeseed keeps what SeedArchive promises: records are only appended, are
\* numbered without a gap, and do not overlap in time.
KeepsArchive == Archive!Spec
=============================================================================
