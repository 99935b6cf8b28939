----------------------------- MODULE MakeseedFast -----------------------------
(***************************************************************************)
(* makeseed --fast: KumSdFile#process reads the card, collects the samples *)
(* of each channel in a buffer and yields it to the block of Makeseed#run  *)
(* when it is full, when samples are missing and at the end.  The block    *)
(* gives it to Channel#sample_buffer.  Time stamps are yielded at once.    *)
(*                                                                         *)
(* The card, the disk and time are those of Makeseed.                      *)
(***************************************************************************)
EXTENDS SeedChannel, FiniteSets, SequencesExt

CONSTANTS
    NChannels,     \* channels of the card
    BufferLen,     \* BUFFER_LEN, samples in a buffer: 65536
    MaxFrames,     \* bound: frames on the card
    MaxLost,       \* bound: samples one LostFrames frame reports
    MaxGap,        \* bound: samples missing without a LostFrames frame
    RefusalCases,  \* for each card, the <<channel, start>> a DataRecord refuses
    Rooms          \* for each disk, the records that still fit on it

ASSUME FastAssumption ==
    /\ NChannels \in Nat \ {0}
    /\ BufferLen \in Nat \ {0}
    /\ MaxFrames \in Nat /\ MaxLost \in Nat /\ MaxGap \in Nat
    /\ Rooms \subseteq Nat

Channels == 0 .. NChannels - 1

VARIABLES
    left, tick, refused, room,  \* the card and the disk, as in Makeseed
    status,   \* "reading" (the loop of process), "flushing" (its label end),
              \* "closing" (the loop over done), "finished" or "aborted"
    number,   \* sample_number
    buffer,   \* the samples collected for each channel
    queue,    \* the buffers that the program is about to yield, in order: their
              \* channel, and the samples that are not yet in a record
    chan,     \* the Channel objects
    file,     \* the records in each channel's file
    closed,   \* channels whose done has returned
    missing,  \* history: the ticks of the missing samples, reported or not
    unknown,  \* history: samples are missing that process has not heard of
    hidden,   \* history: the samples read while this was so
    heard     \* history: the samples read since the clock was set, in order

card    == << left, tick, refused >>
reader  == << number, buffer, queue >>
output  == << room, chan, file >>
history == << missing, unknown, hidden, heard >>
vars    == << card, status, reader, output, closed, history >>

-----------------------------------------------------------------------------
Init ==
    /\ left = MaxFrames
    /\ tick = 1
    /\ refused \in RefusalCases
    /\ room \in Rooms
    /\ status = "reading"
    /\ number = 0
    /\ buffer = [c \in Channels |-> << >>]
    /\ queue = << >>
    /\ chan = [c \in Channels |-> NewChannel]
    /\ file = [c \in Channels |-> << >>]
    /\ closed = 0
    /\ missing = {}
    /\ unknown = FALSE
    /\ hidden = {}
    /\ heard = << >>

\* process reads the next frame: all that it yielded has been dealt with.
NextFrame ==
    /\ status = "reading"
    /\ queue = << >>
    /\ left > 0
    /\ left' = left - 1

\* The buffers are yielded, channel by channel, unless they are empty.  Those of
\* all channels are equally full.
Yield(buffers) ==
    queue' = IF \A c \in Channels : buffers[c] = << >> THEN << >>
             ELSE [i \in 1 .. NChannels |->
                      [channel |-> i - 1, samples |-> buffers[i - 1]]]

FlushAll_bugKept == Yield(buffer) /\ UNCHANGED buffer

\* channel_flush for every channel.
FlushAll == Yield(buffer) /\ buffer' = [c \in Channels |-> << >>]

\* n samples are missing before the next one.
Gap(n) ==
    /\ tick' = tick + n
    /\ missing' = missing \cup (tick .. tick + n - 1)

Timestamp_bugAny ==
    /\ NextFrame
    /\ chan' = [c \in Channels |-> SetTime(chan[c], tick)]
    /\ UNCHANGED << tick, refused, status, reader, room, file, closed, history >>

\* A Timestamp frame: the block of run takes it only when no sample was
\* counted before it.
Timestamp ==
    /\ NextFrame
    /\ chan' = IF number = 0
               THEN [c \in Channels |-> SetTime(chan[c], tick)] ELSE chan
    /\ UNCHANGED << tick, refused, status, reader, room, file, closed, history >>

DataFrame_bugLate ==
    /\ NextFrame
    /\ LET more == [c \in Channels |-> Append(buffer[c], tick)]
       IN  IF \A c \in Channels : Len(more[c]) = BufferLen + 1
           THEN Yield(more) /\ buffer' = [c \in Channels |-> << >>]
           ELSE buffer' = more /\ UNCHANGED queue
    /\ number' = number + 1
    /\ tick' = tick + 1
    /\ heard' = IF chan[0].time # None THEN Append(heard, tick) ELSE heard
    /\ UNCHANGED << refused, status, output, closed, missing, unknown, hidden >>

\* A data frame: channel_push for every channel.
DataFrame ==
    /\ NextFrame
    /\ LET more == [c \in Channels |-> Append(buffer[c], tick)]
       IN  IF \A c \in Channels : Len(more[c]) = BufferLen
           THEN Yield(more) /\ buffer' = [c \in Channels |-> << >>]
           ELSE buffer' = more /\ UNCHANGED queue
    /\ number' = number + 1
    /\ tick' = tick + 1
    /\ heard' = IF chan[0].time # None THEN Append(heard, tick) ELSE heard
    /\ hidden' = IF unknown THEN hidden \cup {tick} ELSE hidden
    /\ UNCHANGED << refused, status, output, closed, missing, unknown >>

LostFrames_bugNoFlush(n) ==
    /\ NextFrame
    /\ number' = number + n
    /\ Gap(n)
    /\ UNCHANGED << refused, status, buffer, queue, output, closed, unknown, hidden, heard >>

\* A LostFrames frame: the block of run hears nothing of it.
LostFrames(n) ==
    /\ NextFrame
    /\ FlushAll
    /\ number' = number + n
    /\ Gap(n)
    /\ UNCHANGED << refused, status, output, closed, unknown, hidden, heard >>

\* A FrameNumber frame tells how many samples the recorder took so far.
FrameNumber(gap) ==
    /\ NextFrame
    /\ Gap(gap)
    /\ number' = tick + gap - 1
    /\ IF number # number' THEN FlushAll ELSE UNCHANGED << buffer, queue >>
    /\ unknown' = FALSE
    /\ UNCHANGED << refused, status, output, closed, hidden, heard >>

\* All other control frames: process does nothing with them.
OtherFrame(gap) ==
    /\ NextFrame
    /\ Gap(gap)
    /\ unknown' = (unknown \/ gap > 0)
    /\ UNCHANGED << refused, status, reader, output, closed, hidden, heard >>

\* An EndFrame, or the end address.
EndFrame ==
    /\ status = "reading"
    /\ queue = << >>
    /\ status' = "flushing"
    /\ FlushAll
    /\ UNCHANGED << card, number, output, closed, history >>

ReadError ==
    /\ status = "reading"
    /\ queue = << >>
    /\ status' = "aborted"
    /\ UNCHANGED << card, reader, output, closed, history >>

-----------------------------------------------------------------------------
\* Channel#sample_buffer, one turn of its loop at a time.

\* A channel without a time drops the buffer.
DropBuffer ==
    /\ status \in {"reading", "flushing"}
    /\ queue # << >>
    /\ chan[Head(queue).channel].time = None
    /\ queue' = Tail(queue)
    /\ UNCHANGED << card, status, number, buffer, output, closed, history >>

RecordRaises(c) ==
    /\ chan[c].record = None
    /\ \/ chan[c].next > MaxSequence
       \/ << c, Clock(chan[c]) >> \in refused

FillRecord ==
    /\ status \in {"reading", "flushing"}
    /\ queue # << >>
    /\ LET c == Head(queue).channel
           taken == TakeSlice(chan[c], Head(queue).samples)
       IN  /\ chan[c].time # None
           /\ IF RecordRaises(c) \/ (taken.out # << >> /\ room = 0)
              THEN status' = "aborted" /\ UNCHANGED << queue, output >>
              ELSE /\ queue' = IF taken.rest = << >> THEN Tail(queue)
                               ELSE [queue EXCEPT ![1].samples = taken.rest]
                   /\ chan' = [chan EXCEPT ![c] = taken.chan]
                   /\ file' = [file EXCEPT ![c] = @ \o taken.out]
                   /\ room' = room - Len(taken.out)
                   /\ UNCHANGED status
    /\ UNCHANGED << card, number, buffer, closed, history >>

\* process returns.
Return ==
    /\ status = "flushing"
    /\ queue = << >>
    /\ status' = "closing"
    /\ UNCHANGED << card, reader, output, closed, history >>

\* Channel#done, one channel after the other.
CloseChannel ==
    /\ status = "closing"
    /\ LET out == Done(chan[closed]).out
       IN  IF out # << >> /\ room = 0
           THEN status' = "aborted" /\ UNCHANGED << output, closed >>
           ELSE /\ file' = [file EXCEPT ![closed] = @ \o out]
                /\ room' = room - Len(out)
                /\ closed' = closed + 1
                /\ status' = IF closed' = NChannels THEN "finished" ELSE "closing"
                /\ UNCHANGED chan
    /\ UNCHANGED << card, reader, history >>

Next ==
    \/ Timestamp
    \/ DataFrame
    \/ \E n \in 0 .. MaxLost : LostFrames(n)
    \/ \E gap \in 0 .. MaxGap : FrameNumber(gap)
    \/ \E gap \in 0 .. MaxGap : OtherFrame(gap)
    \/ EndFrame
    \/ ReadError
    \/ DropBuffer
    \/ FillRecord
    \/ Return
    \/ CloseChannel

Spec == Init /\ [][Next]_vars

\* One thread, which goes on as long as it is scheduled; the card has an end.
FairSpec == Spec /\ WF_vars(Next)

-----------------------------------------------------------------------------
(***************************************************************************)
(* Properties                                                              *)
(***************************************************************************)

\* The records of channel c: those in its file, and the open one.
Written(c) == {file[c][k] : k \in 1 .. Len(file[c])}
Open(c) == {chan[c].record} \ {None}

\* The slices that are yielded and not yet taken.
Waiting == {queue[i].samples : i \in 1 .. Len(queue)}

\* Every variable has its type; a buffer always has room for a sample, so that
\* channel_push stays inside it, and an empty buffer is never yielded, which
\* slice would refuse.
TypeOK ==
    /\ left \in Nat
    /\ tick \in Nat \ {0}
    /\ refused \in RefusalCases
    /\ room \in Nat
    /\ status \in {"reading", "flushing", "closing", "finished", "aborted"}
    /\ number \in Nat
    /\ buffer \in [Channels -> Seq(Nat)]
    /\ \A c \in Channels : Len(buffer[c]) < BufferLen
    /\ queue \in Seq([channel : Channels, samples : Seq(Nat)])
    /\ << >> \notin Waiting
    /\ chan \in [Channels -> Channel]
    /\ file \in [Channels -> Seq(Record)]
    /\ closed \in 0 .. NChannels
    /\ missing \subseteq Nat
    /\ unknown \in BOOLEAN
    /\ hidden \subseteq Nat
    /\ heard \in Seq(Nat)

Content(list) == FlattenSeq([k \in 1 .. Len(list) |-> list[k].samples])

\* What is yielded and not yet taken by channel c.
Yielded(c) == FlattenSeq([i \in 1 .. Len(queue) |->
                  IF queue[i].channel = c THEN queue[i].samples ELSE << >>])

\* No sample is lost, doubled or overtaken on its way from the card through
\* the buffer, the yielded slices and the open record to the file.
Pipeline ==
    \A c \in Channels :
        /\ chan[c].time = None => heard = << >> /\ file[c] = << >>
        /\ status # "aborted" /\ chan[c].time # None =>
              heard = IF c < closed THEN Content(file[c])
                      ELSE Content(file[c] \o Pending(chan[c]))
                               \o Yielded(c) \o buffer[c]

\* How many of the samples from tick a to before tick b are missing.
MissingIn(a, b) == Cardinality({g \in missing : a <= g /\ g < b})

\* The time a record gives each of its samples is too early by exactly the
\* samples that are missing since the clock was set, reported or not, in
\* whatever records, slices and buffers they are missing; never by more or
\* less, and it is true when none is missing.
TimesTrue ==
    \A c \in Channels :
        \A r \in Written(c) \cup Open(c) :
            \A i \in 1 .. Len(r.samples) :
                r.start + i - 1 + MissingIn(chan[c].time, r.samples[i]) = r.samples[i]

\* The samples that process yields together were taken without a gap between
\* them, unless it could not know of the gap.
Gapless ==
    \A b \in Waiting \cup {buffer[c] : c \in Channels} :
        \A i \in 2 .. Len(b) : b[i] = b[i - 1] + 1 \/ b[i] \in hidden

\* However the run ends, a channel's file lacks at most a buffer and the open
\* record.
AbortLoss ==
    \A c \in Channels :
        Len(heard) - Len(Content(file[c])) <= BufferLen + Capacity - 1

Archive == INSTANCE SeedArchive
    WITH archive <- [c \in Channels |-> ArchiveOf(file[c])]

\* The fast mode keeps what SeedArchive promises, too.
KeepsArchive == Archive!Spec

\* The run ends: the loop of sample_buffer takes samples in every turn.
Ends == <>(status \in {"finished", "aborted"})
=============================================================================
