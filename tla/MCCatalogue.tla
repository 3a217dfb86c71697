----------------------------- MODULE MCCatalogue -----------------------------
(* Two calls that meet on the server, about two releases, a file, a group    *)
(* and a specifier of each kind, late requests included.                     *)
EXTENDS Catalogue, TLC

CONSTANTS alice, bob, f1, r1, r2, g1, d1, u1, k1, k2, empty, nothing

MC_Clients == {alice, bob}
MC_Files == {f1}
MC_Releases == {r1, r2}
MC_FileGroups == {g1}
MC_DependencySpecifiers == {d1}
MC_UpgradePathSpecifiers == {u1}
MC_Existing == {{r1}, {f1, r1, r2, g1}}
MC_Keys == {empty, k1, k2}
MC_MaxCalls == 1

Symmetry == Permutations(MC_Clients) \cup Permutations({k1, k2})

=============================================================================
