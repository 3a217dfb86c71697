---------------------------- MODULE MCPivnetClient ----------------------------
(* Two concurrent calls of any operations, with a legacy token of exactly 20 *)
(* characters or a refresh token, the shortest of which have one more.       *)
EXTENDS PivnetClient

CONSTANTS c1, c2

MC_Calls == {c1, c2}
MC_TokenLengths == {20, 21}

=============================================================================
