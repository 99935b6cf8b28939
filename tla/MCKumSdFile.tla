----------------------------- MODULE MCKumSdFile -----------------------------
(***************************************************************************)
(* Instance of KumSdFile for TLC: control frames of four words, data       *)
(* frames of three, and data areas that end anywhere.                      *)
(***************************************************************************)
EXTENDS KumSdFile, FiniteSets

CONSTANTS MaxFrames, SecondFrames

Words(kind) == IF kind = "data" THEN 3 ELSE 4

\* The frames of the given kinds, one behind the other.
Place(kinds) ==
    LET at[k \in 1 .. Len(kinds)] == IF k = 1 THEN 0 ELSE at[k - 1] + Words(kinds[k - 1])
    IN  [k \in 1 .. Len(kinds) |->
            [kind |-> kinds[k], at |-> at[k], words |-> Words(kinds[k])]]

Sequences(n) == UNION {[1 .. m -> Kinds] : m \in 0 .. n}
Size(frames) == IF frames = << >> THEN 0 ELSE After(frames[Len(frames)])

\* Up to n frames and an end address inside or behind the last of them.
Recordings(n, timed, sync) ==
    UNION {LET frames == Place(kinds)
           IN  {[frames |-> frames, end |-> end, timed |-> t, sync |-> s] :
                    end \in {Size(frames) - x :
                                x \in {y \in {-2, 0, 1, 3, 4} : y <= Size(frames)}},
                    t \in timed, s \in sync} : kinds \in Sequences(n)}

MCCards ==
    LET first  == Recordings(MaxFrames, {TRUE}, {"both"})
        small  == Recordings(SecondFrames, {TRUE}, {"both", "none"})
        second == Recordings(SecondFrames, BOOLEAN, {"both", "same", "none"})
        broken == Recordings(0, {FALSE}, {"both"}) \cup Recordings(0, {TRUE}, {"same"})
    IN  {<< r >> : r \in first \cup broken} \cup {<< r, q >> : r \in small, q \in second}
=============================================================================
