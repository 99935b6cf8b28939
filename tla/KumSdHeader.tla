----------------------------- MODULE KumSdHeader -----------------------------
(***************************************************************************)
(* The header of a recording: kum_sd_header_read walks through the 512     *)
(* bytes of a block, from section to section, and parse_header hands the   *)
(* result to Ruby.                                                         *)
(*                                                                         *)
(* A block is a sequence of places.  A tag of four letters, a time and a   *)
(* number take one place each instead of 1 to 14 bytes; a letter of a text *)
(* and a zero byte are places too.  The struct is on the stack, so at the  *)
(* start it holds anything.                                                *)
(***************************************************************************)
EXTENDS BcdTime, Sequences, SequencesExt

CONSTANTS
    Size,         \* places in a block
    Places,       \* what may stand in a place
    Limit,        \* sizeof recorder_id and the other texts, the last byte included
    MaxChannels,  \* KUM_SD_MAX_CHANNEL_COUNT
    Leftovers,    \* bound: what the struct may hold at the start
    Blocks        \* bound: <<the header a recorder wrote, a block, six bytes>>; the
                  \* block is the encoding of the header, or has one place changed

Zero == "0"
Numbers == {"time", "addr", "rate", "writ", "lost", "bitd"}
Texts == {"rcid", "rtci", "lati", "logi"}
Sections == << "time", "sync", "addr", "rate", "writ", "lost", "chan", "gain",
               "bitd", "rcid", "rtci", "lati", "logi", "alia", "name", "cmnt" >>

\* A channel count as it stands in its place.
Counts == << "1", "2", "3", "4", "5", "6", "7", "8", "9" >>

ASSUME SizeAssumption ==
    Size \in Nat \ {0} /\ Limit \in Nat /\ MaxChannels \in 0 .. Len(Counts)

ASSUME PlacesAssumption ==
    /\ {Zero, "sync", "skew", "none"} \subseteq Places
    /\ \A k \in 1 .. Len(Sections) : Sections[k] \in Places
    /\ \A n \in 1 .. Len(Counts) : Counts[n] \in Places

\* The struct kum_sd_header; a text is what comes before its first zero.
Struct == [time : Places, sync : Places \X Places \X Places, addr : Places,
           rate : Places, writ : Places, lost : Places, gain : Seq(Places),
           bitd : Places, rcid : Seq(Places), rtci : Seq(Places),
           lati : Seq(Places), logi : Seq(Places), alia : Seq(Seq(Places)),
           cmnt : Seq(Places)]

NoZero(text) == \A k \in 1 .. Len(text) : text[k] # Zero

\* What a recorder can write.
Written ==
    {h \in Struct :
        /\ h.sync[1] \in {"sync", "skew"} \/ h.sync = << "none", Zero, Zero >>
        /\ Len(h.alia) \in 1 .. Len(Counts) /\ Len(h.gain) = Len(h.alia)
        /\ \A s \in Texts \cup {"cmnt"} : NoZero(h[s])
        /\ \A n \in 1 .. Len(h.alia) : NoZero(h.alia[n])}

ASSUME BlocksAssumption ==
    /\ Leftovers \subseteq Struct
    /\ \A b \in Blocks : /\ b[1] \in Written
                        /\ b[2] \in Seq(Places) /\ Len(b[2]) = Size
                        /\ b[3] \in [1 .. 6 -> 0 .. 255]

VARIABLES
    written,  \* the header that the recorder wrote
    block,    \* the places of the block
    bytes,    \* the six bytes in the places that hold a time, "t"
    o,        \* where the reader stands
    at,       \* the section that is read: an index of Sections
    nc,       \* the number of channels
    header,   \* the struct
    result,   \* "new", "reading", "ok", "malformed" (an exception) or "parsed"
    hash      \* what parse_header returns

input == << written, block, bytes >>
headerVars  == << input, o, at, nc, header, result, hash >>

HeaderInit ==
    /\ \E b \in Blocks : written = b[1] /\ block = b[2] /\ bytes = b[3]
    /\ o = 1
    /\ at = 1
    /\ nc = 0
    /\ header \in Leftovers
    /\ result = "new"
    /\ hash = << >>

Section == Sections[at]

\* strlen of the text that begins at p.
StrLen(p) == LET ends == {q \in p .. Size : block[q] = Zero}
             IN  IF ends = {} THEN Size + 1 - p ELSE Min(ends) - p
TextAt(p) == SubSeq(block, p, p + StrLen(p) - 1)

\* SKIP0: the next place that is not zero, or one behind the block.
SkipZeros(p) == LET rest == {q \in p .. Size : block[q] # Zero}
                IN  IF rest = {} THEN Size + 1 ELSE Min(rest)

\* ADV_O: the reader goes on at p, with the next section, if p is in the block.
GoOn(p) ==
    /\ IF p > Size
       THEN result' = "malformed" /\ UNCHANGED << o, at >>
       ELSE o' = p /\ at' = at + 1 /\ UNCHANGED result
    /\ UNCHANGED << input, hash >>

Refuse ==
    /\ result' = "malformed"
    /\ UNCHANGED << input, o, at, nc, header, hash >>

LastByte_bugNone ==
    /\ result = "new"
    /\ result' = "reading"
    /\ UNCHANGED << input, o, at, nc, header, hash >>

\* The last byte must be zero.
LastByte ==
    /\ result = "new"
    /\ result' = IF block[Size] = Zero THEN "reading" ELSE "malformed"
    /\ UNCHANGED << input, o, at, nc, header, hash >>

\* The section begins with its tag.
Tagged == result = "reading" /\ block[o] = Section

\* A tag is not where it should be: the sections have a fixed order, and only
\* "sync" or "skew" may be missing.
TagMissing ==
    /\ result = "reading"
    /\ Section \notin {"sync", "name"}
    /\ ~ Tagged
    /\ Refuse

Number ==
    /\ Tagged /\ Section \in Numbers
    /\ header' = [header EXCEPT ![Section] = block[o + 1]]
    /\ GoOn(o + 2)
    /\ UNCHANGED nc

Sync_bugStale ==
    /\ result = "reading" /\ Section = "sync"
    /\ header' = IF block[o] \in {"sync", "skew"}
                 THEN [header EXCEPT !.sync = SubSeq(block, o, o + 2)]
                 ELSE [header EXCEPT !.sync[1] = "none"]
    /\ GoOn(o + 3)
    /\ UNCHANGED nc

\* sync_type, sync_time and skew; without the section its bytes are passed over.
Sync ==
    /\ result = "reading" /\ Section = "sync"
    /\ header' = [header EXCEPT !.sync = IF block[o] \in {"sync", "skew"}
                                         THEN SubSeq(block, o, o + 2)
                                         ELSE << "none", Zero, Zero >>]
    /\ GoOn(o + 3)
    /\ UNCHANGED nc

ChannelCount ==
    /\ Tagged /\ Section = "chan"
    /\ IF \E n \in 1 .. MaxChannels : block[o + 1] = Counts[n]
       THEN /\ nc' = CHOOSE n \in 1 .. MaxChannels : block[o + 1] = Counts[n]
            /\ GoOn(o + 2)
            /\ UNCHANGED header
       ELSE Refuse

Gain ==
    /\ Tagged /\ Section = "gain"
    /\ header' = [header EXCEPT !.gain = SubSeq(block, o + 1, o + nc)]
    /\ GoOn(o + 1 + nc)
    /\ UNCHANGED nc

\* A text that fits into its field; zeros may follow it.
Text ==
    /\ Tagged /\ Section \in Texts
    /\ IF StrLen(o + 1) >= Limit THEN Refuse
       ELSE /\ header' = [header EXCEPT ![Section] = TextAt(o + 1)]
            /\ GoOn(SkipZeros(o + 1 + StrLen(o + 1) + 1))
            /\ UNCHANGED nc

ChannelNames ==
    /\ Tagged /\ Section = "alia"
    /\ header' = [header EXCEPT !.alia = << >>]
    /\ GoOn(o + 1)
    /\ UNCHANGED nc

\* The names stand one behind the other; zeros may follow the last.
Name ==
    /\ result = "reading" /\ Section = "name"
    /\ LET behind == o + StrLen(o) + 1
       IN  IF StrLen(o) >= Limit \/ behind > Size THEN Refuse
           ELSE /\ header' = [header EXCEPT !.alia = Append(@, TextAt(o))]
                /\ UNCHANGED nc
                /\ IF Len(header.alia) + 1 = nc
                   THEN GoOn(SkipZeros(behind))
                   ELSE o' = behind /\ UNCHANGED << input, at, result, hash >>

\* The comment field is as long as the block, and nothing comes after it.
Comment ==
    /\ Tagged /\ Section = "cmnt"
    /\ header' = [header EXCEPT !.cmnt = TextAt(o + 1)]
    /\ result' = "ok"
    /\ UNCHANGED << input, o, at, nc, hash >>

\* The time in a place; anything else is no valid one.
TimeOf(v) == IF v = "t" THEN FromBcd(bytes) ELSE Nil

Reported(h) ==
    [time |-> TimeOf(h.time), sync_time |-> TimeOf(h.sync[2]), skew |-> h.sync[3],
     address |-> h.addr, sample_rate |-> h.rate, written_samples |-> h.writ,
     lost_samples |-> h.lost, recorder_id |-> h.rcid, rtc_id |-> h.rtci,
     channels |-> h.alia, comment |-> h.cmnt]

ParseHeader ==
    /\ result = "ok"
    /\ hash' = Reported(header)
    /\ result' = "parsed"
    /\ UNCHANGED << input, o, at, nc, header >>

HeaderNext ==
    \/ LastByte \/ TagMissing \/ Number \/ Sync \/ ChannelCount \/ Gain
    \/ Text \/ ChannelNames \/ Name \/ Comment \/ ParseHeader

HeaderSpec == HeaderInit /\ [][HeaderNext]_headerVars

-----------------------------------------------------------------------------
(***************************************************************************)
(* The layout of a header: the reference                                   *)
(***************************************************************************)

Zeros(n) == [k \in 1 .. n |-> Zero]

\* The section tag of the header h, with pad[tag] zeros more than needed behind it.
Part(h, pad, tag) ==
    CASE tag \in Numbers -> << tag, h[tag] >>
      [] tag = "sync" -> IF h.sync[1] = "none" THEN Zeros(3) ELSE h.sync
      [] tag = "chan" -> << tag, Counts[Len(h.alia)] >>
      [] tag = "gain" -> << tag >> \o h.gain
      [] tag \in Texts -> << tag >> \o h[tag] \o Zeros(1 + pad[tag])
      [] tag = "alia" -> << tag >>
      [] tag = "name" -> FlattenSeq([n \in 1 .. Len(h.alia) |-> h.alia[n] \o << Zero >>])
                             \o Zeros(pad[tag])
      [] tag = "cmnt" -> << tag >> \o h.cmnt \o << Zero >>

Padded == Texts \cup {"name"}

Encode(h, pad) ==
    FlattenSeq([k \in 1 .. Len(Sections) |-> Part(h, pad, Sections[k])])

\* The block of a recorder: filled up with zeros, or cut at its end.
BlockOf(h, pad) == SubSeq(Encode(h, pad) \o Zeros(Size), 1, Size)

\* How many zeros may stand before something else in the block b.
ZeroRuns(b) ==
    {n \in 0 .. Size :
        \E p \in 1 .. Size - n : b[p + n] # Zero /\ \A q \in p .. p + n - 1 : b[q] = Zero}

\* h is what a reader may find in the block b: the block begins with h, and
\* where h has no time of synchronisation anything may stand.
Describes(h, b) ==
    \E pad \in [Padded -> ZeroRuns(b)] :
        LET e == Encode(h, pad)
        IN  /\ Len(e) <= Size
            /\ \A k \in 1 .. Len(e) :
                   \/ b[k] = e[k]
                   \/ k \in 3 .. 5 /\ h.sync[1] = "none" /\ b[3] \notin {"sync", "skew"}

\* The fields have room for the texts of h, and there are channels.
Fits(h) ==
    /\ \A s \in Texts : Len(h[s]) < Limit
    /\ \A k \in 1 .. Len(h.alia) : Len(h.alia[k]) < Limit
    /\ Len(h.alia) \in 1 .. MaxChannels

\* What h says, its times by the calendar.
Meaning(h) ==
    LET TimeIn(v) == IF v = "t" THEN CalendarTime(bytes) ELSE Nil
    IN  [Reported(h) EXCEPT !.time = TimeIn(h.time), !.sync_time = TimeIn(h.sync[2])]

-----------------------------------------------------------------------------
(***************************************************************************)
(* Properties                                                              *)
(***************************************************************************)

\* A recorder's block is read as the recorder wrote it, whatever the stack held
\* and however the texts are padded, and refused only if it does not fit.  Its
\* times are those of the calendar, or none.
ReadsBack ==
    result \in {"parsed", "malformed"} =>
        (Describes(written, block) /\ block[Size] = Zero =>
            IF Fits(written) THEN result = "parsed" /\ hash = Meaning(written)
            ELSE result = "malformed")

\* What is read from any block, also a damaged or a cut one, is what stands
\* there: no section is skipped, shifted or read twice.
Described ==
    result \in {"ok", "parsed"} =>
        Fits(header) /\ Describes(header, block)
=============================================================================
