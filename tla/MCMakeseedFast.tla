--------------------------- MODULE MCMakeseedFast ---------------------------
\* MakeseedFast on small cards.
EXTENDS MakeseedFast

\* A card whose records are all accepted, one whose second channel has a name
\* that a DataRecord refuses, and one whose clock correction is out of range
\* from the third sample on.
MCRefusalCases ==
    { {}, {1} \X (1 .. 20), Channels \X (3 .. 20) }

\* Disks without a limit, full after one record, and after three.
MCRooms == {1, 3, 100}
=============================================================================
