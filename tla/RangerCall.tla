----------------------------- MODULE RangerCall -----------------------------
(***************************************************************************)
(* Calls of Ranger.BuildRange: one behaviour is one call, with the content *)
(* length and the number of hunks chosen in Init, and what a download      *)
(* needs of the ranges the call returns.                                   *)
(***************************************************************************)
EXTENDS Ranger, Sequences

CONSTANTS MaxLength,  \* bound: the longest content length that is tried
          MaxHunks    \* bound: the largest number of hunks that is tried

ASSUME BoundsAssumption == MaxLength \in Nat /\ MaxHunks \in Nat \ {0}

VARIABLES contentLength, numHunks,  \* the arguments
          ranges,                   \* the slice that is returned
          returned                  \* "no", or how the call returned

vars == <<contentLength, numHunks, ranges, returned>>

Init ==
  /\ contentLength \in {UnknownLength} \cup 0 .. MaxLength
  /\ numHunks \in 1 .. MaxHunks
  /\ ranges = << >>
  /\ returned = "no"

ReturnError ==
  /\ returned = "no"
  /\ BuildRangeFails(contentLength)
  /\ returned' = "error"
  /\ UNCHANGED <<contentLength, numHunks, ranges>>

ReturnRanges ==
  /\ returned = "no"
  /\ ~BuildRangeFails(contentLength)
  /\ ranges' = BuildRange(contentLength, numHunks)
  /\ returned' = "ranges"
  /\ UNCHANGED <<contentLength, numHunks>>

Next == ReturnError \/ ReturnRanges

Spec == Init /\ [][Next]_vars

-----------------------------------------------------------------------------

BytesOf(range) == range.lower .. range.upper

\* For a file of two bytes or more the ranges partition its bytes: no byte is
\* left to no GET, none is fetched by two, and no GET asks for a byte past the
\* end.  The remainder that does not fill a hunk (ranger.go:46, :51-53) and
\* the fallback hunk of two bytes (ranger.go:41-43) must not break this.
RangesPartitionTheFile ==
  (returned = "ranges" /\ contentLength >= 2) =>
    /\ UNION {BytesOf(ranges[w]) : w \in 1 .. Len(ranges)} = 0 .. contentLength - 1
    /\ \A v, w \in 1 .. Len(ranges) :
         v # w => BytesOf(ranges[v]) \cap BytesOf(ranges[w]) = {}

\* A download never starts twice as many concurrent GETs as the ranger has
\* hunks (ranger.go:40-45).  The number of hunks itself is no bound, although
\* the client calls it concurrentDownloads: 19 bytes in 10 hunks make 19
\* ranges.
FewerThanTwiceTheHunks ==
  contentLength # UnknownLength => Len(ranges) < 2 * numHunks

\* "Returns as many byte ranges as possible" (ranger_test.go:74, for a content
\* length below the number of hunks): a file that has bytes is cut into at
\* least one range.
SomeRangeForEveryFile ==
  (returned = "ranges" /\ contentLength > 0) => Len(ranges) > 0

=============================================================================
