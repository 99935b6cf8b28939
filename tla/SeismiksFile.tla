---------------------------- MODULE SeismiksFile ----------------------------
(***************************************************************************)
(* What the class Seismiks promises of a file, however many programs use   *)
(* it and wherever they stop: the file gets its format as a whole or not   *)
(* at all, a file of another kind or version is left alone, and stations   *)
(* are only added, one at a time, at the end.                              *)
(***************************************************************************)
EXTENDS Naturals, Sequences

CONSTANTS
    Names,       \* the stations' names
    NTables,     \* tables in seismiks_format_1.sql: 9
    SeismiksId   \* the application_id of a Seismiks file: 1936542579

VARIABLE file    \* what is on the disk

\* A database: application_id, user_version, how many of the tables of
\* seismiks_format_1.sql there are, and the rows of stations, whose id is their
\* place.
File == [id : Nat, version : Nat, tables : 0 .. NTables, rows : Seq(Names)]

\* A complete file of version 1.
Whole(f) == f.id = SeismiksId /\ f.version = 1 /\ f.tables = NTables

\* Any file may be given to Seismiks, but none that is a part of the format.
Init ==
    /\ file \in File
    /\ file.id = SeismiksId /\ file.version = 1 => file.tables = NTables
    /\ ~ Whole(file) => file.rows = << >>

Create ==
    /\ file.id = 0
    /\ file.tables = 0
    /\ file' = [id |-> SeismiksId, version |-> 1, tables |-> NTables, rows |-> << >>]

AddStation ==
    /\ Whole(file)
    /\ \E n \in Names : file' = [file EXCEPT !.rows = Append(@, n)]

Spec == Init /\ [][Create \/ AddStation]_file
=============================================================================
