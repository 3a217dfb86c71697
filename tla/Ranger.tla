------------------------------- MODULE Ranger -------------------------------
(***************************************************************************)
(* The byte ranges Ranger.BuildRange (download/ranger.go) cuts a file into *)
(* for the concurrent GETs of a download.  The operators below are the     *)
(* value of every intermediate variable of the function; range number w    *)
(* (1, 2, ...) is the one the loop appends for i = w - 1.                  *)
(*                                                                         *)
(* contentLength is what net/http puts into Response.ContentLength: a      *)
(* natural number, or -1 when the server announced no length.              *)
(***************************************************************************)
EXTENDS Integers

UnknownLength == -1

ContentLength == Nat \cup {UnknownLength}

Magnitude(a) == IF a >= 0 THEN a ELSE -a

\* Go's "/" and "%" on int64 truncate toward zero, TLA+'s \div rounds down.
Quot(a, d) ==
  LET q == Magnitude(a) \div Magnitude(d)
  IN  IF (a >= 0) <=> (d > 0) THEN q ELSE -q

Rem(a, d) == a - d * Quot(a, d)

HunkSize(contentLength, numHunks) ==
  LET even == Quot(contentLength, numHunks)
  IN  IF even = 0 THEN 2 ELSE even

\* Mutant: one range more, as if the remainder had a range of its own.
Iterations_OneMore(contentLength, numHunks) ==
  Quot(contentLength, HunkSize(contentLength, numHunks)) + 1

Iterations(contentLength, numHunks) ==
  Quot(contentLength, HunkSize(contentLength, numHunks))

Remainder(contentLength, numHunks) ==
  Rem(contentLength, HunkSize(contentLength, numHunks))

Lower(contentLength, numHunks, w) ==
  (w - 1) * HunkSize(contentLength, numHunks)

\* Mutant: the bytes that do not fill a hunk are dropped.
Upper_WithoutRemainder(contentLength, numHunks, w) ==
  w * HunkSize(contentLength, numHunks) - 1

\* The last range also takes the bytes that do not fill a hunk.
Upper(contentLength, numHunks, w) ==
  w * HunkSize(contentLength, numHunks) - 1
    + IF w = Iterations(contentLength, numHunks)
        THEN Remainder(contentLength, numHunks)
        ELSE 0

\* The ranges BuildRange returns; its only error is a content length of zero.
BuildRangeFails(contentLength) == contentLength = 0

BuildRange(contentLength, numHunks) ==
  [w \in 1 .. Iterations(contentLength, numHunks) |->
     [lower |-> Lower(contentLength, numHunks, w),
      upper |-> Upper(contentLength, numHunks, w)]]

=============================================================================
