----------------------------- MODULE MCMakeseed -----------------------------
\* Makeseed on small cards.  Every card ends after MaxFrames frames or earlier.
EXTENDS Makeseed

\* A card whose records are all accepted, one whose second channel has a name
\* that a DataRecord refuses, and one whose clock correction is out of range
\* from the third sample on.
MCRefusalCases ==
    { {}, {1} \X (1 .. 20), Channels \X (3 .. 20) }

\* Disks without a limit, full after one record, and after three.
MCRooms == {1, 3, 100}

\* Whatever is on the card, in the end every sample that was read after the
\* first Timestamp is in every file, and stays there, unless the run was
\* aborted: none waits in an open record for ever.
EverySampleLands ==
    <>[] \/ status = "aborted"
         \/ \A c \in Channels : heard \subseteq SamplesIn(Written(c))
=============================================================================
