------------------------------- MODULE MakeZft -------------------------------
(***************************************************************************)
(* makezft: MakeZft#run scans the card for its first Timestamp, writes one *)
(* header per channel with this start time, and copies the frames from the *)
(* beginning of the card, through the C class Zft.                         *)
(*                                                                         *)
(* A ZFT file has no time stamps: the place of a frame behind the headers  *)
(* is its time.  Time is counted in sample intervals from the beginning of *)
(* the card.                                                               *)
(***************************************************************************)
EXTENDS Integers, Sequences, FiniteSets

CONSTANTS
    Cards,     \* the cards: sequences of frames
    NChannels  \* channels of the card

\* n: the samples that a frame stands for; at: those before it; gone: those
\* before it that are missing without a LostFrames frame.  "gap" is a Reboot or
\* FrameNumber after which n samples are missing.
Kinds == {"sample", "stamp", "lost", "gap", "volt", "temp", "end"}
Frame == [kind : Kinds, n : Nat, at : Nat, gone : Nat]

Silent(f) == IF f.kind = "gap" THEN f.n ELSE 0

ASSUME ZftAssumption ==
    /\ NChannels \in 1 .. 8
    /\ \A card \in Cards :
        /\ card \in Seq(Frame)
        /\ \A k \in 1 .. Len(card) :
            /\ card[k].kind = "sample" => card[k].n = 1
            /\ card[k].kind \in {"stamp", "volt", "temp", "end"} => card[k].n = 0
            /\ card[k].at = IF k = 1 THEN 0 ELSE card[k - 1].at + card[k - 1].n
            /\ card[k].gone =
                  IF k = 1 THEN 0 ELSE card[k - 1].gone + Silent(card[k - 1])

VARIABLES
    card,    \* never changes
    skewed,  \* sd.skew is there
    status,  \* "scan" (while !t), "create" (files), "headers" (add_channel),
             \* "frames" (each_frame), "closed" or "aborted"
    next,    \* the frame that is read next
    fill,    \* the turns left of f.lost.times
    start,   \* start_time: its frame, or 0
    t,       \* the Timestamp frame read last, or 0
    volt,    \* edata: the VoltageHumidity frame read last, or 0
    zft,     \* the C struct: channel_count and headers_written
    file,    \* the ZFT file
    rows     \* the lines of the engineering data: their frames

files == << zft, file, rows >>
vars  == << card, skewed, status, next, fill, start, t, volt, files >>

Init ==
    /\ card \in Cards
    /\ skewed \in BOOLEAN
    /\ status = "scan"
    /\ next = 1
    /\ fill = 0
    /\ start = 0
    /\ t = 0
    /\ volt = 0
    /\ zft = [count |-> 0, written |-> FALSE]
    /\ file = [headers |-> << >>, frames |-> << >>]
    /\ rows = << >>

\* A frame of the scan; EndFrame objects on the card are no reason to stop.
Scan ==
    /\ status = "scan"
    /\ next <= Len(card)
    /\ next' = next + 1
    /\ IF card[next].kind = "stamp"
       THEN t' = next /\ start' = next /\ status' = "create"
       ELSE UNCHANGED << t, start, status >>
    /\ UNCHANGED << card, skewed, fill, volt, files >>

\* At the end address read_frame has nothing but EndFrames, and the scan goes on.
Spin ==
    /\ status = "scan"
    /\ next > Len(card)
    /\ UNCHANGED vars

\* Zft.new and the file for the engineering data.
Create ==
    /\ status = "create"
    /\ status' = "headers"
    /\ UNCHANGED << card, skewed, next, fill, start, t, volt, files >>

\* The options of channel i: a skew is a Float.
Options(i) == [start |-> start, number |-> i, count |-> NChannels,
               skew |-> IF skewed THEN "float" ELSE "none"]

\* The header: the field for the skew is written if it is a Fixnum.
Header(o) == [start |-> o.start, number |-> o.number, count |-> o.count,
              skew |-> o.skew = "fixnum"]

\* The channel is counted, then its header written, which may fail.
AddChannel ==
    /\ status = "headers"
    /\ zft.count < NChannels
    /\ ~ zft.written /\ zft.count < 8
    /\ zft' = [zft EXCEPT !.count = @ + 1]
    /\ \/ /\ file' = [file EXCEPT !.headers = Append(@, Header(Options(zft'.count)))]
          /\ UNCHANGED status
       \/ status' = "aborted" /\ UNCHANGED file
    /\ UNCHANGED << card, skewed, next, fill, start, t, volt, rows >>

EachFrame_bugOn ==
    /\ status = "headers"
    /\ zft.count = NChannels
    /\ status' = "frames"
    /\ UNCHANGED << card, skewed, next, fill, start, t, volt, files >>

\* each_frame begins at the beginning of the card.
EachFrame ==
    /\ status = "headers"
    /\ zft.count = NChannels
    /\ status' = "frames"
    /\ next' = 1
    /\ UNCHANGED << card, skewed, fill, start, t, volt, files >>

\* each_frame gives the block the next frame.
Reads(kinds) ==
    /\ status = "frames"
    /\ fill = 0
    /\ next <= Len(card)
    /\ card[next].kind \in kinds

\* push_frame: n channels, of the samples that were taken i behind the frame.
Push(n, i) ==
    /\ zft.count > 0 /\ n = zft.count
    /\ zft' = [zft EXCEPT !.written = TRUE]
    /\ file' = [file EXCEPT !.frames =
                   Append(@, [from |-> next, nth |-> i, lost |-> card[next].kind = "lost"])]

Sample ==
    /\ Reads({"sample"})
    /\ Push(NChannels, 0)
    /\ next' = next + 1
    /\ UNCHANGED << card, skewed, status, fill, start, t, volt, rows >>

Timestamp_bugKept ==
    /\ Reads({"stamp"})
    /\ next' = next + 1
    /\ UNCHANGED << card, skewed, status, fill, start, t, volt, files >>

Timestamp ==
    /\ Reads({"stamp"})
    /\ t' = next
    /\ next' = next + 1
    /\ UNCHANGED << card, skewed, status, fill, start, volt, files >>

LostFrames ==
    /\ Reads({"lost"})
    /\ fill' = card[next].n
    /\ next' = IF card[next].n = 0 THEN next + 1 ELSE next
    /\ UNCHANGED << card, skewed, status, start, t, volt, files >>

Fill_bugFew ==
    /\ status = "frames"
    /\ fill > 0
    /\ IF fill > 1 \/ card[next].n = 1 THEN Push(NChannels, card[next].n - fill)
       ELSE UNCHANGED << zft, file >>
    /\ fill' = fill - 1
    /\ next' = IF fill = 1 THEN next + 1 ELSE next
    /\ UNCHANGED << card, skewed, status, start, t, volt, rows >>

\* One turn of f.lost.times.
Fill ==
    /\ status = "frames"
    /\ fill > 0
    /\ Push(NChannels, card[next].n - fill)
    /\ fill' = fill - 1
    /\ next' = IF fill = 1 THEN next + 1 ELSE next
    /\ UNCHANGED << card, skewed, status, start, t, volt, rows >>

VoltageHumidity ==
    /\ Reads({"volt"})
    /\ volt' = next
    /\ next' = next + 1
    /\ UNCHANGED << card, skewed, status, fill, start, t, files >>

Temperature ==
    /\ Reads({"temp"})
    /\ rows' = Append(rows, [temp |-> next, time |-> t, volt |-> volt])
    /\ next' = next + 1
    /\ UNCHANGED << card, skewed, status, fill, start, t, volt, zft, file >>

OtherFrame ==
    /\ Reads({"gap"})
    /\ next' = next + 1
    /\ UNCHANGED << card, skewed, status, fill, start, t, volt, files >>

Close_bugEnd ==
    /\ Reads({"end"})
    /\ status' = "closed"
    /\ UNCHANGED << card, skewed, next, fill, start, t, volt, files >>

\* each_frame returns at an EndFrame or at the end address; zft.close.
Close ==
    /\ Reads({"end"}) \/ (status = "frames" /\ next > Len(card))
    /\ status' = "closed"
    /\ UNCHANGED << card, skewed, next, fill, start, t, volt, files >>

\* A file can not be opened, the card not read or a line not written.
Fails ==
    /\ status \in {"scan", "create", "headers", "frames"}
    /\ status' = "aborted"
    /\ UNCHANGED << card, skewed, next, fill, start, t, volt, files >>

Work ==
    \/ Scan
    \/ Create
    \/ AddChannel
    \/ EachFrame
    \/ Sample
    \/ Timestamp
    \/ LostFrames
    \/ Fill
    \/ VoltageHumidity
    \/ Temperature
    \/ OtherFrame
    \/ Close

Next == Work \/ Spin \/ Fails

Spec == Init /\ [][Next]_vars

\* The program goes on; no failure is counted on.
FairSpec == Spec /\ WF_vars(Work)

-----------------------------------------------------------------------------
(***************************************************************************)
(* Properties                                                              *)
(***************************************************************************)

TypeOK ==
    /\ card \in Seq(Frame)
    /\ skewed \in BOOLEAN
    /\ status \in {"scan", "create", "headers", "frames", "closed", "aborted"}
    /\ next \in 1 .. Len(card) + 1
    /\ fill \in Nat
    /\ fill > 0 => next <= Len(card) /\ card[next].kind = "lost" /\ fill <= card[next].n
    /\ start \in 0 .. Len(card)
    /\ t \in 0 .. Len(card)
    /\ volt \in 0 .. Len(card)
    /\ zft \in [count : 0 .. NChannels, written : BOOLEAN]
    /\ file \in [headers : Seq([start : 1 .. Len(card), number : 1 .. NChannels,
                                count : {NChannels}, skew : BOOLEAN]),
                 frames : Seq([from : 1 .. Len(card), nth : Nat, lost : BOOLEAN])]
    /\ rows \in Seq([temp : 1 .. Len(card), time : 1 .. Len(card), volt : 0 .. Len(card)])

\* The last frame of a kind before frame k, or 0.
Latest(kind, k) ==
    LET before == {j \in 1 .. k - 1 : card[j].kind = kind}
    IN  IF before = {} THEN 0 ELSE CHOOSE j \in before : \A i \in before : i <= j

IsFirstStamp(k) ==
    card[k].kind = "stamp" /\ \A j \in 1 .. k - 1 : card[j].kind # "stamp"

\* The time at which a reader of the file finds its i-th frame: the start time in
\* a header plus the place; and the time at which it was taken.
ReadAt(i, header) == card[header.start].at + i - 1
TakenAt(f) == card[f.from].at + f.nth

\* A reader finds every frame later than it was taken by exactly the samples the
\* file has from before the first Timestamp, whose time is in the headers, and
\* earlier by exactly those that went missing silently behind that Timestamp.
PlacesTrue ==
    \A i \in 1 .. Len(file.frames), c \in 1 .. Len(file.headers) :
        LET f == file.frames[i]
            first == file.headers[c].start
            before == card[first].at - card[first].gone
            missed == card[f.from].gone - card[first].gone
        IN  /\ IsFirstStamp(first)
            /\ ReadAt(i, file.headers[c]) - TakenAt(f) = before - missed

\* Frames lie behind the headers of all channels, which count them right.
Layout ==
    /\ file.frames # << >> => Len(file.headers) = NChannels
    /\ \A c \in 1 .. Len(file.headers) : file.headers[c].number = c

\* Every sample and every lost one up to the place that was read is in the file,
\* and the lost ones are marked (once and in order, because of PlacesTrue).
AllIn ==
    status \in {"frames", "closed"} =>
        /\ \A k \in 1 .. next - 1 : card[k].kind \in {"sample", "lost"} =>
              \A i \in 0 .. card[k].n - 1 :
                  \E j \in 1 .. Len(file.frames) :
                      file.frames[j] = [from |-> k, nth |-> i, lost |-> card[k].kind = "lost"]
        /\ status = "closed" =>
              next > Len(card) \/ card[next].kind = "end"
        /\ \A k \in 1 .. next - 1 : card[k].kind # "end"

\* The file is the headers of all channels and, behind them, the whole card.
Copied == Layout /\ AllIn

\* A line of engineering data has the voltage and the time stamp that were the
\* latest on the card, or the first time stamp if none was before it.
RowsTrue ==
    \A i \in 1 .. Len(rows) :
        LET r == rows[i]
        IN  /\ r.volt = Latest("volt", r.temp)
            /\ IF Latest("stamp", r.temp) = 0 THEN IsFirstStamp(r.time)
               ELSE r.time = Latest("stamp", r.temp)

\* "C28 SKEW IN MICROSECS" (zft.c:103): the field has the skew if there is one.
SkewNoted == \A c \in 1 .. Len(file.headers) : skewed => file.headers[c].skew

HasStamp == \E k \in 1 .. Len(card) : card[k].kind = "stamp"

\* With a Timestamp anywhere on the card the run ends.  Without one it never gets
\* past the scan, in which only a failure ends it.
Ends ==
    /\ HasStamp ~> status \in {"closed", "aborted"}
    /\ [](~ HasStamp => status \in {"scan", "aborted"})
=============================================================================
