---------------------------- MODULE MCLinkFetcher ----------------------------
(* Two goroutines that fetch links while a third lists products, against an  *)
(* API that may refuse any request.                                          *)
EXTENDS LinkFetcher

CONSTANTS f1, f2, o1

MC_Fetchers == {f1, f2}
MC_Others == {o1}
MC_MaxCalls == 3

=============================================================================
