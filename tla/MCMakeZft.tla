------------------------------ MODULE MCMakeZft ------------------------------
(***************************************************************************)
(* Instance of MakeZft for TLC: all cards of up to MaxFrames frames.       *)
(***************************************************************************)
EXTENDS MakeZft

CONSTANTS MaxFrames, MaxMissing

\* What one frame can be, before it has its place.
Raw == {[kind |-> k, n |-> 0] : k \in {"stamp", "volt", "temp", "end"}}
       \cup {[kind |-> "sample", n |-> 1]}
       \cup [kind : {"lost"}, n : {0, MaxMissing}]
       \cup [kind : {"gap"}, n : {1}]

Place(raw) ==
    LET at[k \in 1 .. Len(raw)] == IF k = 1 THEN 0 ELSE at[k - 1] + raw[k - 1].n
        gone[k \in 1 .. Len(raw)] ==
            IF k = 1 THEN 0 ELSE gone[k - 1] + Silent(raw[k - 1])
    IN  [k \in 1 .. Len(raw) |-> [kind |-> raw[k].kind, n |-> raw[k].n,
                                  at |-> at[k], gone |-> gone[k]]]

MCCards == {Place(raw) : raw \in UNION {[1 .. m -> Raw] : m \in 0 .. MaxFrames}}
=============================================================================
