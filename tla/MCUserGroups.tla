---------------------------- MODULE MCUserGroups ----------------------------
(* Two clients and one group.                                                *)
EXTENDS UserGroups, TLC

CONSTANTS alice, bob, g1, m1, r1, nil, nothing

MC_Clients == {alice, bob}
MC_Groups == {g1}
MC_Members == {m1}
MC_Releases == {r1}
MC_Texts == {"", "x"}
MC_Empty == ""
\* A set that no set of members equals.
MC_Nil == {nil}
MC_MaxCalls == 2

Symmetry == Permutations(MC_Clients)

=============================================================================
