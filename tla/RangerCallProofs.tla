-------------------------- MODULE RangerCallProofs --------------------------
(* That every call of BuildRange returns ranges that partition the file, for *)
(* every content length and every number of hunks.                           *)
EXTENDS RangerCall, RangerProofs

\* What a call has returned depends on its arguments alone.
CallInv ==
  /\ contentLength \in ContentLength
  /\ numHunks \in Nat \ {0}
  /\ \/ returned \in {"no", "error"} /\ ranges = << >>
     \/ /\ returned = "ranges"
        /\ contentLength # 0
        /\ ranges = BuildRange(contentLength, numHunks)

USE BoundsAssumption

LEMMA CallInvariance == Spec => []CallInv
<1>1. Init => CallInv
  BY DEF Init, CallInv, ContentLength, UnknownLength
<1>2. CallInv /\ [Next]_vars => CallInv'
  <2> SUFFICES ASSUME CallInv, [Next]_vars PROVE CallInv'
    OBVIOUS
  <2>1. CASE ReturnError
    BY <2>1 DEF ReturnError, CallInv
  <2>2. CASE ReturnRanges
    BY <2>2 DEF ReturnRanges, CallInv, BuildRangeFails
  <2>3. CASE UNCHANGED vars
    BY <2>3 DEF vars, CallInv
  <2> QED
    BY <2>1, <2>2, <2>3 DEF Next
<1> QED
  BY <1>1, <1>2, PTL DEF Spec

\* The elements of the slice, one by one.
LEMMA RangesReturned ==
  ASSUME CallInv, contentLength \in Nat \ {0}, returned = "ranges"
  PROVE  /\ Len(ranges) = Iterations(contentLength, numHunks)
         /\ \A w \in 1 .. Iterations(contentLength, numHunks) :
              BytesOf(ranges[w]) = Lower(contentLength, numHunks, w)
                                     .. Upper(contentLength, numHunks, w)
<1>1. Iterations(contentLength, numHunks) \in Nat
  BY HunkFacts DEF CallInv
<1>2. ranges = BuildRange(contentLength, numHunks)
  BY DEF CallInv
<1>3. Len(ranges) = Iterations(contentLength, numHunks)
  BY <1>1, <1>2 DEF BuildRange
<1> QED
  BY <1>2, <1>3 DEF BuildRange, BytesOf

\* The ranges of a file of two bytes or more partition it: nothing is left
\* out, nothing is fetched twice, nothing is asked for past the end.
THEOREM RangesPartitionEveryFile == Spec => []RangesPartitionTheFile
<1>1. CallInv => RangesPartitionTheFile
  <2> SUFFICES ASSUME CallInv, returned = "ranges", contentLength >= 2
               PROVE  /\ UNION {BytesOf(ranges[w]) : w \in 1 .. Len(ranges)}
                           = 0 .. contentLength - 1
                      /\ \A v, w \in 1 .. Len(ranges) :
                           v # w => BytesOf(ranges[v]) \cap BytesOf(ranges[w]) = {}
    BY DEF RangesPartitionTheFile
  <2> DEFINE L == contentLength
  <2> DEFINE I == Iterations(L, numHunks)
  <2> DEFINE lo(w) == Lower(L, numHunks, w)
  <2> DEFINE hi(w) == Upper(L, numHunks, w)
  <2>1. L \in Nat \ {0} /\ L \in Nat /\ numHunks \in Nat \ {0}
    BY DEF CallInv, ContentLength, UnknownLength
  <2>2. Len(ranges) = I /\ \A w \in 1 .. I : BytesOf(ranges[w]) = lo(w) .. hi(w)
    BY <2>1, RangesReturned
  <2>3. \A w \in 1 .. I : lo(w) \in Nat /\ hi(w) \in Nat /\ hi(w) < L
    BY <2>1, RangeWithinFile
  <2>4. I \in Nat
    BY <2>1, HunkFacts
  <2>5. ASSUME NEW b \in 0 .. L - 1
        PROVE  \E w \in 1 .. I : b \in lo(w) .. hi(w)
    BY <2>1, EveryByteInSomeRange
  <2>6. ASSUME NEW v \in 1 .. I, NEW w \in 1 .. I, v < w
        PROVE  (lo(v) .. hi(v)) \cap (lo(w) .. hi(w)) = {}
    <3>1. hi(v) < lo(w)
      BY <2>1, <2>6, RangesInOrder
    <3> HIDE DEF lo, hi, I
    <3> QED
      BY <2>3, <3>1
  <2>7. ASSUME NEW v \in 1 .. I, NEW w \in 1 .. I, v # w
        PROVE  (lo(v) .. hi(v)) \cap (lo(w) .. hi(w)) = {}
    <3>1. v < w \/ w < v
      BY <2>4, <2>7
    <3> HIDE DEF lo, hi, I
    <3> QED
      BY <2>6, <3>1
  <2> HIDE DEF lo, hi, I, L
  <2>8. UNION {lo(w) .. hi(w) : w \in 1 .. I} = 0 .. L - 1
    <3>1. ASSUME NEW w \in 1 .. I, NEW b \in lo(w) .. hi(w) PROVE b \in 0 .. L - 1
      BY <2>1, <2>3
    <3> QED
      BY <2>5, <3>1
  <2>9. UNION {BytesOf(ranges[w]) : w \in 1 .. Len(ranges)} = 0 .. L - 1
    BY <2>2, <2>8
  <2> QED
    BY <2>2, <2>7, <2>9 DEF L
<1> QED
  BY CallInvariance, <1>1, PTL

\* There are never twice as many concurrent GETs as hunks.
THEOREM AlwaysFewerThanTwiceTheHunks == Spec => []FewerThanTwiceTheHunks
<1>1. CallInv => FewerThanTwiceTheHunks
  <2> SUFFICES ASSUME CallInv, contentLength # UnknownLength
               PROVE  Len(ranges) < 2 * numHunks
    BY DEF FewerThanTwiceTheHunks
  <2>1. numHunks \in Nat \ {0} /\ contentLength \in Nat
    BY DEF CallInv, ContentLength
  <2>2. CASE ranges = << >>
    BY <2>1, <2>2
  <2>3. CASE ranges # << >>
    <3>1. returned = "ranges" /\ contentLength \in Nat \ {0}
      BY <2>1, <2>3 DEF CallInv
    <3>2. Len(ranges) = Iterations(contentLength, numHunks)
      BY <3>1, RangesReturned
    <3>3. Iterations(contentLength, numHunks) \in Nat
      BY <2>1, <3>1, HunkFacts
    <3>4. Iterations(contentLength, numHunks) <= 2 * numHunks - 1
      BY <2>1, <3>1, FewerRangesThanWorkers
    <3> QED
      BY <2>1, <3>2, <3>3, <3>4
  <2> QED
    BY <2>2, <2>3
<1> QED
  BY CallInvariance, <1>1, PTL

\* The test's sentence, that a file that has bytes is cut into some range, fails for
\* no other length than one (ranger.go:41-46: the fallback hunk has two bytes).
THEOREM OnlyOneByteHasNoRange == Spec => [](contentLength # 1 => SomeRangeForEveryFile)
<1>1. CallInv => (contentLength # 1 => SomeRangeForEveryFile)
  <2> SUFFICES ASSUME CallInv, contentLength # 1, returned = "ranges", contentLength > 0
               PROVE  Len(ranges) > 0
    BY DEF SomeRangeForEveryFile
  <2>1. /\ numHunks \in Nat \ {0} /\ contentLength \in Nat \ {0}
        /\ contentLength \in Nat /\ contentLength >= 2
    BY DEF CallInv, ContentLength, UnknownLength
  <2>2. Len(ranges) = Iterations(contentLength, numHunks)
    BY <2>1, RangesReturned
  <2>3. Iterations(contentLength, numHunks) >= 1
    BY <2>1, SomeRange
  <2>4. Iterations(contentLength, numHunks) \in Nat
    BY <2>1, HunkFacts
  <2> QED
    BY <2>2, <2>3, <2>4
<1> QED
  BY CallInvariance, <1>1, PTL

=============================================================================
