---------------------------- MODULE MCKumSdHeader ----------------------------
(***************************************************************************)
(* KumSdHeader for blocks of 37 places: headers with texts that are empty, *)
(* full or too long, with tags within texts, with up to three channels     *)
(* where two are allowed, with and without padding, cut where they are too *)
(* long; some of the blocks with any one place changed; and one block with *)
(* times in and around the calendar.                                       *)
(***************************************************************************)
EXTENDS KumSdHeader

a == << "a" >>
Header(sync, rcid, rtci, alia, cmnt) ==
    [time |-> "t", sync |-> sync, addr |-> "1", rate |-> "2", writ |-> "3",
     lost |-> "0", gain |-> [k \in 1 .. Len(alia) |-> "1"], bitd |-> "2",
     rcid |-> rcid, rtci |-> rtci, lati |-> a, logi |-> << >>,
     alia |-> alia, cmnt |-> cmnt]

Syncs == {<< "sync", "t", "1" >>, << "skew", Zero, "2" >>, << "none", Zero, Zero >>}
Names == {<< a >>, << << >>, a >>, << a, << >> >>, << a, << "a", "a" >> >>, << a, a, a >>}
Pad(p, q, r) == [rcid |-> p, rtci |-> q, lati |-> 0, logi |-> q, name |-> r]
Pads == {Pad(p, q, r) : p, q, r \in 0 .. 1}

\* 29 February 2024, 12:30:00
Noon == << 18, 48, 0, 41, 2, 36 >>

\* In the struct: the header of another recording.
MCLeftovers == {Header(<< "sync", "t", "1" >>, a, a, << a, a >>, a)}

Whole ==
    {<< h, BlockOf(h, pad), Noon >> :
        h \in {Header(sync, rcid, rtci, alia, cmnt) :
                  sync \in Syncs, rcid \in {<< >>, a, << "a", "a" >>},
                  rtci \in {<< >>, << "lati" >>}, alia \in Names,
                  cmnt \in {<< >>, << "a", "cmnt" >>}},
        pad \in Pads}

Damaged ==
    {<< h, [BlockOf(h, pad) EXCEPT ![k] = b], Noon >> :
        h \in {Header(sync, a, << >>, alia, << "a" >>) :
                  sync \in Syncs, alia \in {<< a >>, << a, << >> >>}},
        pad \in {Pad(0, 0, 0), Pad(1, 0, 1)},
        k \in 1 .. Size, b \in {Zero, "a", "2", "sync", "logi", "cmnt"}}

\* Bytes by their digits: days, months and years, and hours, minutes and seconds
\* around their limits.
Digits(S) == {16 * s[1] + s[2] : s \in S}
Days == Digits({<< 0, 0 >>, << 0, 1 >>, << 0, 10 >>, << 1, 0 >>, << 2, 8 >>, << 2, 9 >>,
                << 3, 0 >>, << 3, 1 >>, << 3, 2 >>, << 10, 0 >>})
Months == Digits((0 .. 1) \X (0 .. 10))
Years == Digits({<< 0, 0 >>, << 0, 1 >>, << 2, 0 >>, << 2, 4 >>, << 9, 9 >>, << 0, 12 >>})
Edges == Digits({<< 0, 0 >>, << 0, 9 >>, << 0, 10 >>, << 2, 3 >>, << 2, 4 >>, << 5, 9 >>,
                 << 6, 0 >>, << 6, 1 >>, << 10, 1 >>})
MCTimes ==
    {<< 0, 0, 0, d, m, y >> : d \in Days, m \in Months, y \in Years}
    \cup {<< h, mi, s, 41, 2, 36 >> : h \in Edges, mi \in Edges, s \in Edges}

Timed == LET h == Header(<< "sync", "t", "1" >>, a, a, << a >>, a)
         IN  {<< h, BlockOf(h, Pad(0, 0, 0)), t >> : t \in MCTimes}

MCPlaces ==
    {Zero, "none", "skew", "a", "t"}
    \cup {Sections[k] : k \in 1 .. Len(Sections)} \cup {Counts[n] : n \in 1 .. Len(Counts)}

MCBlocks == Whole \cup Damaged \cup Timed
=============================================================================
