---------------------------- MODULE MCOutputFiles ----------------------------
(***************************************************************************)
(* OutputFiles for a card with two channels, of different or of the same   *)
(* name, and three runs.                                                   *)
(***************************************************************************)
EXTENDS OutputFiles

CONSTANTS N, Z, Guest, Other

MCNames == {N, Z}
MCNameCases == {<< N, Z >>, << Z, Z >>}
MCUsers == {Root, Guest, Other}
=============================================================================
