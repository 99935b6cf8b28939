----------------------------- MODULE MCSeismiks -----------------------------
\* Seismiks with a few objects on each kind of file.
EXTENDS Seismiks, TLC

Empty(id, version, tables) ==
    [id |-> id, version |-> version, tables |-> tables, rows |-> << >>]

\* No tables yet, a table of the same name in the file of another program that
\* has no id, the file of a program with an id, a Seismiks file of another
\* version, and one that is complete.
MCDisks ==
    { Empty(0, 0, 0), Empty(0, 5, 1), Empty(7, 1, 0),
      Empty(SeismiksId, 2, NTables), Empty(SeismiksId, 1, NTables) }

Symmetry == Permutations(Objects)
=============================================================================
