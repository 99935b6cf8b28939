----------------------------- MODULE SeedArchive -----------------------------
(***************************************************************************)
(* What makeseed promises of the files it leaves behind, whatever happens  *)
(* on the way: each channel's file is a list of records that only grows at *)
(* its end, numbered 1, 2, 3, ... without a gap, none empty or overfull,   *)
(* and no two of them claim the same moment.                               *)
(***************************************************************************)
EXTENDS Naturals, Sequences

CONSTANTS Channels, Capacity

VARIABLE archive  \* archive[c]: the records in the file of channel c

Entry == [seq : Nat, start : Nat, length : 1..Capacity]

\* The first moment after a record.
EndOf(e) == e.start + e.length

\* e may follow the records of list.
Follows(e, list) ==
    /\ e \in Entry
    /\ e.seq = Len(list) + 1
    /\ list # << >> => EndOf(list[Len(list)]) <= e.start

Init == archive = [c \in Channels |-> << >>]

\* The list after is the list before with one more record at its end.
OneMore(before, after) ==
    /\ after # << >>
    /\ LET e == after[Len(after)]
       IN  after = Append(before, e) /\ Follows(e, before)

\* A step of the program: a channel's file is as it was or one record longer.
Extend ==
    /\ archive' \in [Channels -> Seq(Entry)]
    /\ \A c \in Channels :
           archive'[c] = archive[c] \/ OneMore(archive[c], archive'[c])

Spec == Init /\ [][Extend]_archive
=============================================================================
