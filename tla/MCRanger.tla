------------------------------ MODULE MCRanger ------------------------------
(* BuildRange for every content length up to 60 and up to 12 hunks: lengths *)
(* below, at, just above and several times the number of hunks.             *)
EXTENDS RangerCall

MC_MaxLength == 60
MC_MaxHunks == 12

=============================================================================
