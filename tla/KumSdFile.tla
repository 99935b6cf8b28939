------------------------------- MODULE KumSdFile -------------------------------
(***************************************************************************)
(* Reading a card: KumSd::File (its headers, each_frame, process) over the *)
(* C class KumSdFile (read_frame and the file position).                   *)
(*                                                                         *)
(* A card holds one recording after the other, each with a pair of headers *)
(* and a data area.  Positions are counted in words of four bytes from the *)
(* beginning of the data area.  A client calls the methods in any order;   *)
(* when one raises, it may go on with the next.                            *)
(***************************************************************************)
EXTENDS Integers, Sequences

CONSTANTS
    Cards  \* the cards: sequences of recordings

\* What read_frame tells apart.  "other" stands for the control frames that it
\* makes objects of, "unknown" for types it has never heard of.
Kinds == {"data", "timestamp", "other", "unknown", "end"}
Frame == [kind : Kinds, at : Nat, words : Nat \ {0}]

\* sync: both headers have a time and they differ ("both"), they are the same
\* ("same"), or one is missing ("none").  timed: the start time is valid.
Recording == [frames : Seq(Frame), end : Nat, timed : BOOLEAN,
              sync : {"both", "same", "none"}]

After(f) == f.at + f.words

\* The frames lie one behind the other.
Contiguous(frames) ==
    \A k \in 1 .. Len(frames) :
        frames[k].at = IF k = 1 THEN 0 ELSE After(frames[k - 1])

ASSUME CardAssumption ==
    \A card \in Cards :
        /\ card \in Seq(Recording) /\ Len(card) > 0
        /\ \A k \in 1 .. Len(card) : Contiguous(card[k].frames)

VARIABLES
    card,
    status,   \* "new" (no constructor yet), "idle", "each" (in each_frame),
              \* "process" (in process) or "closed"
    fields,   \* the recording that each group of attributes was taken from
    loaded,   \* the last next_file has not raised
    source,   \* the recording that is read
    next,     \* where the stream stands: the frame that begins there
    pos,      \* file->pos
    yielded,  \* history: the frames handed out by the present iteration
    ended     \* history: the method that came to its end, or "no"

\* data: the addresses, times, channels, rate and count, channel_count;
\* base: base_time; last: last_address; sync: the sync and skew attributes;
\* skew: @skew; ids: recorder_id, rtc_id and comment.
Fields == [data : Nat, base : Nat, last : Nat, sync : Nat, skew : Nat, ids : Nat]

reading == << source, next, pos, yielded, ended >>
vars    == << card, status, fields, loaded, reading >>

Init ==
    /\ card \in Cards
    /\ status = "new"
    /\ fields = [data |-> 0, base |-> 0, last |-> 0, sync |-> 0, skew |-> 0, ids |-> 0]
    /\ loaded = FALSE
    /\ source = 0
    /\ next = 1
    /\ pos = 0
    /\ yielded = << >>
    /\ ended = "no"

\* The attributes after next_file, and how far it came.
Load_bugSync(f, k) ==
    IF ~ card[k].timed THEN [f EXCEPT !.data = k]
    ELSE IF card[k].sync = "same"
    THEN [f EXCEPT !.data = k, !.base = k, !.last = k, !.sync = k]
    ELSE [f EXCEPT !.data = k, !.base = k, !.last = k, !.ids = k,
                   !.sync = IF card[k].sync = "both" THEN k ELSE @,
                   !.skew = IF card[k].sync = "both" THEN k ELSE @]

Load_bugBase(f, k) ==
    IF ~ card[k].timed THEN [f EXCEPT !.data = k]
    ELSE IF card[k].sync = "same"
    THEN [f EXCEPT !.data = k, !.last = k, !.sync = k]
    ELSE [f EXCEPT !.data = k, !.last = k, !.sync = k, !.ids = k,
                   !.skew = IF card[k].sync = "both" THEN k ELSE @]

Load(f, k) ==
    IF ~ card[k].timed THEN [f EXCEPT !.data = k]
    ELSE IF card[k].sync = "same"
    THEN [f EXCEPT !.data = k, !.base = k, !.last = k, !.sync = k]
    ELSE [f EXCEPT !.data = k, !.base = k, !.last = k, !.sync = k, !.ids = k,
                   !.skew = IF card[k].sync = "both" THEN k ELSE @]

Rewind_bugNone(k) ==
    /\ source' = k
    /\ next' = IF source = k THEN next ELSE 1
    /\ pos' = IF source = k THEN pos ELSE 0
    /\ yielded' = << >>
    /\ ended' = "no"

\* goto_address to the beginning of recording k.
Rewind(k) ==
    /\ source' = k
    /\ next' = 1
    /\ pos' = 0
    /\ yielded' = << >>
    /\ ended' = "no"

\* next_file, the first time by the constructor.  It raises when there is no
\* other pair of headers, in base_time= and in ClockSkew.new; where it leaves the
\* stream then does not matter, because every method moves to its own start.
NextFile ==
    /\ status \in {"new", "idle"}
    /\ LET k == fields.data + 1
       IN  /\ loaded' = (k <= Len(card) /\ card[k].timed /\ card[k].sync # "same")
           /\ fields' = IF k <= Len(card) THEN Load(fields, k) ELSE fields
           /\ status' = IF status = "new" /\ ~ loaded' THEN "closed" ELSE "idle"
           /\ IF loaded' THEN Rewind(k) ELSE UNCHANGED reading
    /\ UNCHANGED card

\* each_frame begins: goto_address, and last_address again.
EachFrame ==
    /\ status = "idle"
    /\ status' = "each"
    /\ Rewind(fields.data)
    /\ fields' = [fields EXCEPT !.last = fields.data]
    /\ UNCHANGED << card, loaded >>

\* process begins: it reads the first pair of headers of the card.
Process ==
    /\ status = "idle"
    /\ status' = "process"
    /\ Rewind(1)
    /\ UNCHANGED << card, fields, loaded >>

Present == card[source].frames[next]
MoreFrames == next <= Len(card[source].frames)
BaseTime == IF status = "each" THEN fields.base ELSE source
HandedOut == IF status = "each" THEN {"data", "timestamp", "other"}
             ELSE {"data", "timestamp"}

\* The end address is reached before or inside the frame.
AtEnd_bugFirst == pos + 1 > card[source].end

AtEnd ==
    \/ pos + 1 > card[source].end
    \/ MoreFrames /\ pos + Present.words > card[source].end

\* The iteration is over; of a frame that is cut the first word was read.
Return ==
    /\ status \in {"each", "process"}
    /\ AtEnd
    /\ status' = "idle"
    /\ ended' = status
    /\ pos' = IF pos + 1 > card[source].end THEN pos ELSE pos + 1
    /\ UNCHANGED << card, fields, loaded, source, next, yielded >>

\* A frame is read and handed out (a sample in process: into its buffer); an
\* unknown one is skipped, an End frame ends the iteration.
ReadFrame ==
    /\ status \in {"each", "process"}
    /\ ~ AtEnd
    /\ MoreFrames
    /\ pos' = pos + Present.words
    /\ next' = next + 1
    /\ yielded' = IF Present.kind \in HandedOut
                  THEN Append(yielded, [frame |-> next, base |-> BaseTime])
                  ELSE yielded
    /\ status' = IF Present.kind = "end" THEN "idle" ELSE status
    /\ ended' = IF Present.kind = "end" THEN status ELSE "no"
    /\ UNCHANGED << card, fields, loaded, source >>

\* The card ends before the end address: fread fails.
CardEnds ==
    /\ status \in {"each", "process"}
    /\ ~ AtEnd
    /\ ~ MoreFrames
    /\ status' = "idle"
    /\ UNCHANGED << card, fields, loaded, reading >>

\* fread fails in the first word of a frame or behind it.
ReadError ==
    /\ status \in {"each", "process"}
    /\ MoreFrames
    /\ pos + 1 <= card[source].end
    /\ status' = "idle"
    /\ \/ pos' = pos
       \/ ~ AtEnd /\ Present.words > 1 /\ pos' = pos + 1
    /\ UNCHANGED << card, fields, loaded, source, next, yielded, ended >>

\* The block leaves the iteration.
Leave ==
    /\ status \in {"each", "process"}
    /\ yielded # << >>
    /\ status' = "idle"
    /\ UNCHANGED << card, fields, loaded, reading >>

Close ==
    /\ status = "idle"
    /\ status' = "closed"
    /\ UNCHANGED << card, fields, loaded, reading >>

Iterate == Return \/ ReadFrame \/ CardEnds

Next ==
    \/ NextFile
    \/ EachFrame
    \/ Process
    \/ Iterate
    \/ ReadError
    \/ Leave
    \/ Close

Spec == Init /\ [][Next]_vars

-----------------------------------------------------------------------------
(***************************************************************************)
(* Properties                                                              *)
(***************************************************************************)

TypeOK ==
    /\ card \in Seq(Recording)
    /\ status \in {"new", "idle", "each", "process", "closed"}
    /\ fields \in [data : 0 .. Len(card), base : 0 .. Len(card), last : 0 .. Len(card),
                   sync : 0 .. Len(card), skew : 0 .. Len(card), ids : 0 .. Len(card)]
    /\ loaded \in BOOLEAN
    /\ source \in 0 .. Len(card)
    /\ status \in {"each", "process"} => source > 0 /\ source <= fields.data
    /\ source > 0 => next \in 1 .. Len(card[source].frames) + 1
    /\ pos \in Nat
    /\ yielded \in Seq([frame : Nat, base : Nat])
    /\ ended \in {"no", "each", "process"}

\* The frames of a recording, by its layout: those that end before the end
\* address, up to an End frame.
Recorded(r) ==
    {k \in 1 .. Len(r.frames) :
        /\ After(r.frames[k]) <= r.end
        /\ \A j \in 1 .. k : r.frames[j].kind # "end"
        /\ r.frames[k].kind # "unknown"}

\* What is handed out are frames of the recording, whole and in its order.
Faithful ==
    /\ \A i \in 1 .. Len(yielded) : yielded[i].frame \in Recorded(card[source])
    /\ \A i \in 1 .. Len(yielded) - 1 : yielded[i].frame < yielded[i + 1].frame

\* An iteration that came to its end has handed out all samples and time stamps,
\* and each_frame all other control frames.
Complete ==
    ended # "no" => \A k \in Recorded(card[source]) :
        ended = "each" \/ card[source].frames[k].kind # "other" =>
            \E i \in 1 .. Len(yielded) : yielded[i].frame = k

\* The recordings up to the n-th whose start time is valid.
Timed(n) == {k \in 1 .. n : card[k].timed}

\* k is the latest of the recordings in S, or 0 if there are none.
IsLatest(k, S) == k \in S \cup {0} /\ \A j \in S : j <= k

\* After a next_file that returns all attributes are those of one pair of headers,
\* but for @skew.  After one that raises, and for @skew always, each group of
\* attributes is that of the latest pair of headers that could set it: a base
\* time and the sync times need a valid start time, the identifiers no failure of
\* ClockSkew.new, and @skew two sync times.
Coherent ==
    /\ loaded => \A a \in {"base", "last", "sync", "ids"} : fields[a] = fields.data
    /\ IsLatest(fields.base, Timed(fields.data))
    /\ IsLatest(fields.sync, Timed(fields.data))
    /\ IsLatest(fields.ids, {k \in Timed(fields.data) : card[k].sync # "same"})
    /\ IsLatest(fields.skew, {k \in Timed(fields.data) : card[k].sync = "both"})

\* The time stamps of a recording count from its own start time if that is valid,
\* otherwise (next_file has raised, and each_frame is called all the same) from
\* that of the latest recording before it whose start time was.
OwnBase ==
    \A i \in 1 .. Len(yielded) : IsLatest(yielded[i].base, Timed(source))
=============================================================================
