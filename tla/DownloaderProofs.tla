-------------------------- MODULE DownloaderProofs --------------------------
(* That Get keeps its promises for every file, every number of hunks and    *)
(* every mixture of faults.                                                 *)
EXTENDS Downloader, RangerProofs

(***************************************************************************)
(* The inductive invariant.  OkMeansWholeFile says nothing of a state in   *)
(* which workers still run, so it is not inductive: what makes it true is  *)
(* that a worker's file offset and its place in the body stay in step      *)
(* (WorkerInv), that exactly the ranges below next have a worker, and that *)
(* the call returns nil only after the last of them (CallInv).             *)
(***************************************************************************)

\* Which ranges have workers, and what is known when the call has returned.
CallInv ==
  /\ pc \in {"link", "head", "prepare"} => next = 1
  /\ pc = "open" => length \in Nat \ {0}
  /\ next > 1 => length \in Nat \ {0} /\ next <= Count + 1
  /\ \A w \in Worker : wpc[w] = "idle" <=> w >= next
  /\ pc = "ok" => /\ length \in Nat \ {0}
                  /\ next > Count
                  /\ \A w \in Worker : wpc[w] \in {"idle", "ok"}
  /\ pc = "err" => \A w \in Worker : ~Running(w)

Arrived(first, last) ==
  \A b \in RemoteBytes : (first <= b /\ b <= last) => file[b] = b

\* How far a worker is with its range.
WorkerInv(w) ==
  /\ wpc[w] \in {"idle", "seek", "get", "relink"} => written[w] = 0
  /\ wpc[w] = "get" => fpos[w] = Lo(w)
  /\ wpc[w] = "copy" => /\ Lo(w) < RemoteSize
                        /\ written[w] <= BodySize(w)
                        /\ fpos[w] = Lo(w) + written[w]
                        /\ Arrived(Lo(w), fpos[w] - 1)
  /\ wpc[w] = "ok" => written[w] = BodySize(w) /\ Arrived(Lo(w), Hi(w))

\* No link is younger than the last expiry, and a refused one is older.
LinkInv ==
  /\ contentURL <= expiries
  /\ \A w \in Worker : /\ url[w] <= expiries
                       /\ wpc[w] = "relink" => url[w] < expiries

IInv ==
  /\ TypeOK
  /\ CallInv
  /\ \A w \in Worker : WorkerInv(w)
  /\ LinkInv
  /\ NoMisplacedBytes

USE RemoteSizeAssumption, NumHunksAssumption, DiskAssumption,
    ErrorLengthsAssumption

-----------------------------------------------------------------------------

LEMMA WorkerNumbers == Worker \subseteq Nat \ {0}
BY DEF Worker

\* The range of a worker that was started, and the body it is served.
LEMMA StartedRange ==
  ASSUME TypeOK, CallInv, NEW w \in Worker, wpc[w] # "idle"
  PROVE  /\ Lo(w) \in Nat
         /\ Hi(w) \in Nat
         /\ Lo(w) <= Hi(w)
         /\ Lo(w) < RemoteSize =>
              /\ BodySize(w) \in Nat \ {0}
              /\ Lo(w) + BodySize(w) <= RemoteSize
              /\ Lo(w) + BodySize(w) \in {Hi(w) + 1, RemoteSize}
<1>1. w \in Nat \ {0} /\ w < next /\ next \in Nat
  BY WorkerNumbers DEF CallInv, TypeOK
<1>2. length \in Nat \ {0} /\ next <= Count + 1
  BY <1>1 DEF CallInv
<1>3. Count \in Nat
  BY <1>2, HunkFacts DEF Count
<1>4. w \in 1 .. Iterations(length, NumHunks)
  BY <1>1, <1>2, <1>3 DEF Count
<1>5. Lo(w) \in Nat /\ Hi(w) \in Nat /\ Lo(w) <= Hi(w)
  BY <1>2, <1>4, RangeWithinFile DEF Lo, Hi
<1> QED
  BY <1>5 DEF BodySize

\* A step that leaves a worker alone and loses no byte keeps its invariant.
LEMMA WorkerFrame ==
  ASSUME NEW v \in Worker, WorkerInv(v), length' = length,
         wpc'[v] = wpc[v], fpos'[v] = fpos[v], written'[v] = written[v],
         \A b \in RemoteBytes : file[b] = b => file'[b] = b
  PROVE  WorkerInv(v)'
<1>1. Lo(v)' = Lo(v) /\ Hi(v)' = Hi(v) /\ BodySize(v)' = BodySize(v)
  BY DEF Lo, Hi, BodySize
<1> QED
  BY <1>1 DEF WorkerInv, Arrived

LEMMA InitInv == Init => IInv
<1> SUFFICES ASSUME Init PROVE IInv
  OBVIOUS
<1> USE DEF Init
<1>1. TypeOK
  BY DEF TypeOK, MainStates, WorkerStates, ContentLength, UnknownLength,
         Positions, RemoteBytes, Absent, Old
<1>2. CallInv
  BY WorkerNumbers DEF CallInv
<1>3. \A w \in Worker : WorkerInv(w)
  BY DEF WorkerInv
<1>4. LinkInv
  BY DEF LinkInv
<1>5. NoMisplacedBytes
  BY DEF NoMisplacedBytes
<1> QED
  BY <1>1, <1>2, <1>3, <1>4, <1>5 DEF IInv

-----------------------------------------------------------------------------
(* The steps of the call *)

LEMMA MainStep == IInv /\ Main => IInv'
<1> SUFFICES ASSUME IInv, Main PROVE IInv'
  OBVIOUS
<1> USE DEF IInv
<1>1. CASE FetchLink
  <2> USE <1>1 DEF FetchLink, mainVars, workerVars, envVars
  <2>1. TypeOK'
    BY DEF TypeOK, MainStates
  <2>2. CallInv'
    <3>1. \A w \in Worker : wpc'[w] = "idle"
      BY WorkerNumbers DEF CallInv
    <3> QED
      BY <3>1 DEF CallInv, Running
  <2>3. \A w \in Worker : WorkerInv(w)'
    BY DEF WorkerInv, Arrived, Lo, Hi, BodySize
  <2>4. LinkInv'
    BY DEF LinkInv, TypeOK
  <2>5. NoMisplacedBytes'
    BY DEF NoMisplacedBytes
  <2> QED
    BY <2>1, <2>2, <2>3, <2>4, <2>5
<1>2. CASE HeadRequest
  <2> USE <1>2 DEF HeadRequest, mainVars, workerVars, envVars
  <2>1. TypeOK'
    BY DEF TypeOK, MainStates, HeadLengths, ContentLength
  <2>2. CallInv'
    <3>1. \A w \in Worker : wpc'[w] = "idle"
      BY WorkerNumbers DEF CallInv
    <3> QED
      BY <3>1 DEF CallInv, Running
  <2>3. \A w \in Worker : WorkerInv(w)'
    <3>1. \A w \in Worker : wpc[w] = "idle"
      BY WorkerNumbers DEF CallInv
    <3> QED
      BY <3>1 DEF WorkerInv
  <2>4. LinkInv'
    BY DEF LinkInv
  <2>5. NoMisplacedBytes'
    BY DEF NoMisplacedBytes
  <2> QED
    BY <2>1, <2>2, <2>3, <2>4, <2>5
<1>3. CASE Prepare
  <2> USE <1>3 DEF Prepare, mainVars, workerVars, envVars
  <2>1. TypeOK'
    BY DEF TypeOK, MainStates
  <2>2. CallInv'
    <3>1. pc' = "open" => length' \in Nat \ {0}
      BY DEF TypeOK, BuildRangeFails, TooBig, ContentLength, UnknownLength
    <3>2. \A w \in Worker : wpc'[w] = "idle"
      BY WorkerNumbers DEF CallInv
    <3> QED
      BY <3>1, <3>2 DEF CallInv, Count, Running
  <2>3. \A w \in Worker : WorkerInv(w)'
    BY DEF WorkerInv, Arrived, Lo, Hi, BodySize
  <2>4. LinkInv'
    BY DEF LinkInv
  <2>5. NoMisplacedBytes'
    BY DEF NoMisplacedBytes
  <2> QED
    BY <2>1, <2>2, <2>3, <2>4, <2>5
<1>4. CASE SpawnWorker
  <2> USE <1>4 DEF SpawnWorker, mainVars, workerVars, envVars
  <2>0. length \in Nat \ {0} /\ Count \in Nat /\ next \in Worker
    <3>1. length \in Nat \ {0} /\ next \in Nat \ {0}
      BY DEF CallInv, TypeOK
    <3>2. Count \in Nat /\ Count <= 2 * NumHunks - 1
      BY <3>1, HunkFacts, FewerRangesThanWorkers DEF Count
    <3> QED
      BY <3>1, <3>2 DEF Worker
  <2>1. TypeOK'
    BY <2>0 DEF TypeOK, WorkerStates
  <2>2. CallInv'
    BY <2>0, WorkerNumbers DEF CallInv, TypeOK, Count
  <2>3. ASSUME NEW w \in Worker PROVE WorkerInv(w)'
    <3>1. CASE w = next
      <4>1. wpc[w] = "idle"
        BY <2>0, <3>1 DEF CallInv, TypeOK
      <4> QED
        BY <3>1, <4>1 DEF WorkerInv, Arrived, TypeOK
    <3>2. CASE w # next
      BY <3>2 DEF WorkerInv, Arrived, Lo, Hi, BodySize, TypeOK
    <3> QED
      BY <3>1, <3>2
  <2>4. LinkInv'
    BY <2>0 DEF LinkInv, TypeOK
  <2>5. NoMisplacedBytes'
    BY DEF NoMisplacedBytes
  <2> QED
    BY <2>1, <2>2, <2>3, <2>4, <2>5
<1>5. CASE OpenFails
  <2> USE <1>5 DEF OpenFails, mainVars, workerVars, envVars
  <2>1. TypeOK'
    BY DEF TypeOK, MainStates
  <2>2. CallInv'
    BY DEF CallInv, Count
  <2>3. \A w \in Worker : WorkerInv(w)'
    BY DEF WorkerInv, Arrived, Lo, Hi, BodySize
  <2>4. LinkInv'
    BY DEF LinkInv
  <2>5. NoMisplacedBytes'
    BY DEF NoMisplacedBytes
  <2> QED
    BY <2>1, <2>2, <2>3, <2>4, <2>5
<1>6. CASE Wait
  <2> USE <1>6 DEF Wait, mainVars, workerVars, envVars
  <2>1. TypeOK'
    BY DEF TypeOK, MainStates, WaitResult
  <2>2. CallInv'
    <3>1. \A w \in Worker : wpc[w] \in {"idle", "ok", "failed"}
      BY DEF Joined, Running, TypeOK, WorkerStates
    <3>2. pc' = "ok" => \A w \in Worker : wpc'[w] \in {"idle", "ok"}
      BY <3>1 DEF WaitResult
    <3>3. pc' \in {"ok", "err"}
      BY DEF WaitResult
    <3> QED
      BY <3>1, <3>2, <3>3 DEF CallInv, Joined, Count, Running
  <2>3. \A w \in Worker : WorkerInv(w)'
    BY DEF WorkerInv, Arrived, Lo, Hi, BodySize
  <2>4. LinkInv'
    BY DEF LinkInv
  <2>5. NoMisplacedBytes'
    BY DEF NoMisplacedBytes
  <2> QED
    BY <2>1, <2>2, <2>3, <2>4, <2>5
<1> QED
  BY <1>1, <1>2, <1>3, <1>4, <1>5, <1>6 DEF Main

-----------------------------------------------------------------------------
(* The steps of a worker *)

\* What CopyChunk does when the file offset agrees with the place in the body.
ChunkOf(w, n) ==
  /\ written[w] + n <= BodySize(w)
  /\ file' = [p \in Positions |-> file'[p]]
  /\ \A p \in Positions :
       file'[p] = IF p \in fpos[w] .. fpos[w] + n - 1 THEN p ELSE file[p]
  /\ fpos' = [fpos EXCEPT ![w] = @ + n]
  /\ written' = [written EXCEPT ![w] = @ + n]
  /\ bar' = bar + n

\* A chunk lands on the positions of its own bytes and nowhere else.
LEMMA ChunkInPlace ==
  ASSUME IInv, NEW w \in Worker, CopyChunk(w)
  PROVE  \E n \in Nat \ {0} : ChunkOf(w, n)
<1>1. /\ Lo(w) \in Nat /\ BodySize(w) \in Nat \ {0} /\ written[w] \in Nat
      /\ fpos[w] = Lo(w) + written[w]
  BY StartedRange DEF IInv, WorkerInv, TypeOK, CopyChunk, At
<1>2. PICK n \in 1 .. BodySize(w) - written[w] :
        /\ file' = [p \in Positions |->
                      IF p \in fpos[w] .. fpos[w] + n - 1
                        THEN Lo(w) + written[w] + (p - fpos[w])
                        ELSE file[p]]
        /\ fpos' = [fpos EXCEPT ![w] = @ + n]
        /\ written' = [written EXCEPT ![w] = @ + n]
        /\ bar' = bar + n
  BY DEF CopyChunk
<1>3. n \in Nat \ {0} /\ written[w] + n <= BodySize(w)
  BY <1>1
<1>4. ASSUME NEW p \in fpos[w] .. fpos[w] + n - 1
      PROVE  Lo(w) + written[w] + (p - fpos[w]) = p
  BY <1>1, <1>3
<1>5. \A p \in Positions :
        file'[p] = IF p \in fpos[w] .. fpos[w] + n - 1 THEN p ELSE file[p]
  BY <1>2, <1>4
<1>6. file' = [p \in Positions |-> file'[p]]
  BY <1>2
<1> QED
  BY <1>2, <1>3, <1>5, <1>6 DEF ChunkOf

\* Every step of a worker w keeps the invariant of w, of the others, and of
\* the call.
LEMMA WorkStep ==
  ASSUME IInv, NEW w \in Worker, Work(w)
  PROVE  IInv'
<1> USE DEF IInv, mainVars, workerVars, envVars, At, Goto
<1> DEFINE Others == \A v \in Worker \ {w} : WorkerInv(v)'
<1>2. ASSUME length' = length,
             \A b \in RemoteBytes : file[b] = b => file'[b] = b,
             \A v \in Worker \ {w} :
               wpc'[v] = wpc[v] /\ fpos'[v] = fpos[v] /\ written'[v] = written[v]
      PROVE  Others
  BY <1>2, WorkerFrame
<1>3. wpc[w] # "idle" => /\ Lo(w)' = Lo(w) /\ Hi(w)' = Hi(w)
                         /\ BodySize(w)' = BodySize(w)
  BY DEF Work, Seek, TemporaryError, RequestFails, LinkRefused, UnexpectedStatus,
         PartialContent, Relink, CopyChunk, CopyDone, CopyBroken, CopyFails,
         CopyPanics, Lo, Hi, BodySize
<1>4. ASSUME UNCHANGED mainVars, wpc[w] \in {"seek", "get", "relink", "copy"},
             NEW state \in WorkerStates \ {"idle"}, Goto(w, state)
      PROVE  CallInv'
  BY <1>4 DEF CallInv, Count, Running, TypeOK
<1>5. CASE Seek(w)
  <2> USE <1>5 DEF Seek, SeekTo
  <2>0. Lo(w) \in Nat
    BY StartedRange
  <2>1. TypeOK'
    BY <2>0 DEF TypeOK, WorkerStates
  <2>2. CallInv'
    BY <1>4 DEF WorkerStates
  <2>3. WorkerInv(w)'
    BY <1>3 DEF WorkerInv, Arrived, TypeOK
  <2>4. Others
    BY <1>2 DEF TypeOK
  <2>5. LinkInv'
    BY DEF LinkInv, TypeOK
  <2>6. NoMisplacedBytes'
    BY DEF NoMisplacedBytes
  <2> QED
    BY <2>1, <2>2, <2>3, <2>4, <2>5, <2>6
<1>6. CASE TemporaryError(w)
  <2> USE <1>6 DEF TemporaryError
  <2>1. TypeOK'
    BY DEF TypeOK, WorkerStates
  <2>2. CallInv'
    BY <1>4 DEF WorkerStates
  <2>3. WorkerInv(w)'
    BY <1>3 DEF WorkerInv, Arrived, TypeOK
  <2>4. Others
    BY <1>2 DEF TypeOK
  <2>5. LinkInv'
    BY DEF LinkInv, TypeOK
  <2>6. NoMisplacedBytes'
    BY DEF NoMisplacedBytes
  <2> QED
    BY <2>1, <2>2, <2>3, <2>4, <2>5, <2>6
<1>7. CASE RequestFails(w)
  <2> USE <1>7 DEF RequestFails
  <2>1. TypeOK'
    BY DEF TypeOK, WorkerStates
  <2>2. CallInv'
    BY <1>4 DEF WorkerStates
  <2>3. WorkerInv(w)'
    BY <1>3 DEF WorkerInv, Arrived, TypeOK
  <2>4. Others
    BY <1>2 DEF TypeOK
  <2>5. LinkInv'
    BY DEF LinkInv, TypeOK
  <2>6. NoMisplacedBytes'
    BY DEF NoMisplacedBytes
  <2> QED
    BY <2>1, <2>2, <2>3, <2>4, <2>5, <2>6
<1>8. CASE LinkRefused(w)
  <2> USE <1>8 DEF LinkRefused
  <2>1. TypeOK'
    BY DEF TypeOK, WorkerStates
  <2>2. CallInv'
    BY <1>4 DEF WorkerStates
  <2>3. WorkerInv(w)'
    BY <1>3 DEF WorkerInv, Arrived, TypeOK
  <2>4. Others
    BY <1>2 DEF TypeOK
  <2>5. LinkInv'
    BY DEF LinkInv, TypeOK
  <2>6. NoMisplacedBytes'
    BY DEF NoMisplacedBytes
  <2> QED
    BY <2>1, <2>2, <2>3, <2>4, <2>5, <2>6
<1>9. CASE UnexpectedStatus(w)
  <2> USE <1>9 DEF UnexpectedStatus
  <2>1. TypeOK'
    BY DEF TypeOK, WorkerStates
  <2>2. CallInv'
    BY <1>4 DEF WorkerStates
  <2>3. WorkerInv(w)'
    BY <1>3 DEF WorkerInv, Arrived, TypeOK
  <2>4. Others
    BY <1>2 DEF TypeOK
  <2>5. LinkInv'
    BY DEF LinkInv, TypeOK
  <2>6. NoMisplacedBytes'
    BY DEF NoMisplacedBytes
  <2> QED
    BY <2>1, <2>2, <2>3, <2>4, <2>5, <2>6
<1>10. CASE PartialContent(w)
  <2> USE <1>10 DEF PartialContent
  <2>0. Lo(w) \in Nat /\ BodySize(w) \in Nat
    BY StartedRange
  <2>1. TypeOK'
    BY DEF TypeOK, WorkerStates
  <2>2. CallInv'
    BY <1>4 DEF WorkerStates
  <2>3. WorkerInv(w)'
    <3>1. written[w] = 0 /\ fpos[w] = Lo(w)
      BY DEF WorkerInv
    <3>2. Arrived(Lo(w), fpos[w] - 1)
      BY <2>0, <3>1 DEF Arrived, RemoteBytes
    <3> QED
      BY <1>3, <2>0, <3>1, <3>2 DEF WorkerInv, Arrived, TypeOK
  <2>4. Others
    BY <1>2 DEF TypeOK
  <2>5. LinkInv'
    BY DEF LinkInv, TypeOK
  <2>6. NoMisplacedBytes'
    BY DEF NoMisplacedBytes
  <2> QED
    BY <2>1, <2>2, <2>3, <2>4, <2>5, <2>6
<1>11. CASE Relink(w)
  <2> USE <1>11 DEF Relink, FreshURL
  <2>1. TypeOK'
    BY DEF TypeOK, WorkerStates
  <2>2. CallInv'
    BY <1>4 DEF WorkerStates
  <2>3. WorkerInv(w)'
    BY <1>3 DEF WorkerInv, Arrived, TypeOK
  <2>4. Others
    BY <1>2 DEF TypeOK
  <2>5. LinkInv'
    BY DEF LinkInv, TypeOK
  <2>6. NoMisplacedBytes'
    BY DEF NoMisplacedBytes
  <2> QED
    BY <2>1, <2>2, <2>3, <2>4, <2>5, <2>6
<1>12. CASE CopyChunk(w)
  <2> USE <1>12 DEF CopyChunk
  <2>0. /\ Lo(w) \in Nat /\ BodySize(w) \in Nat \ {0}
        /\ Lo(w) + BodySize(w) <= RemoteSize
        /\ written[w] \in Nat /\ fpos[w] = Lo(w) + written[w]
        /\ Arrived(Lo(w), fpos[w] - 1)
    BY StartedRange DEF WorkerInv, TypeOK
  <2>a. PICK n \in Nat \ {0} : ChunkOf(w, n)
    BY ChunkInPlace
  <2>b. \A p \in Positions :
          file'[p] = IF p \in fpos[w] .. fpos[w] + n - 1 THEN p ELSE file[p]
    BY <2>a DEF ChunkOf
  <2>p. /\ written[w] + n <= BodySize(w)
        /\ DOMAIN file' = Positions /\ file' = [p \in Positions |-> file'[p]]
        /\ fpos' = [fpos EXCEPT ![w] = @ + n]
        /\ written' = [written EXCEPT ![w] = @ + n]
        /\ bar' = bar + n
    BY <2>a DEF ChunkOf
  <2>c. RemoteBytes \subseteq Positions /\ DOMAIN file = Positions
    BY DEF RemoteBytes, Positions, TypeOK
  <2>1. TypeOK'
    <3>1. \A p \in Positions : file'[p] \in RemoteBytes \cup {Absent, Old}
      BY <2>0, <2>a, <2>b DEF TypeOK, RemoteBytes
    <3> QED
      BY <2>a, <2>p, <3>1 DEF TypeOK
  <2>2. CallInv'
    BY DEF CallInv, Count, Running
  <2>3. WorkerInv(w)'
    <3>1. fpos'[w] = fpos[w] + n /\ written'[w] = written[w] + n
      BY <2>p DEF TypeOK
    <3>2. ASSUME NEW b \in RemoteBytes, Lo(w) <= b, b <= fpos[w] + n - 1
          PROVE  file'[b] = b
      BY <2>0, <2>a, <2>b, <2>c, <3>2 DEF RemoteBytes, Arrived
    <3> QED
      BY <1>3, <2>0, <2>a, <3>1, <3>2 DEF WorkerInv, Arrived
  <2>4. Others
    <3>1. \A b \in RemoteBytes : file[b] = b => file'[b] = b
      BY <2>b, <2>c
    <3> QED
      BY <1>2, <2>p, <3>1 DEF TypeOK
  <2>5. LinkInv'
    BY DEF LinkInv
  <2>6. NoMisplacedBytes'
    BY <2>b DEF NoMisplacedBytes
  <2> QED
    BY <2>1, <2>2, <2>3, <2>4, <2>5, <2>6
<1>13. CASE CopyDone(w)
  <2> USE <1>13 DEF CopyDone
  <2>1. TypeOK'
    BY DEF TypeOK, WorkerStates
  <2>2. CallInv'
    BY <1>4 DEF WorkerStates
  <2>3. WorkerInv(w)'
    <3>1. /\ Lo(w) \in Nat /\ Hi(w) \in Nat
          /\ Lo(w) + BodySize(w) \in {Hi(w) + 1, RemoteSize}
          /\ fpos[w] = Lo(w) + BodySize(w)
          /\ Arrived(Lo(w), fpos[w] - 1)
      BY StartedRange DEF WorkerInv, TypeOK
    <3>2. Arrived(Lo(w), Hi(w))
      BY <3>1 DEF Arrived, RemoteBytes
    <3> QED
      BY <1>3, <3>2 DEF WorkerInv, Arrived, TypeOK
  <2>4. Others
    BY <1>2 DEF TypeOK
  <2>5. LinkInv'
    BY DEF LinkInv, TypeOK
  <2>6. NoMisplacedBytes'
    BY DEF NoMisplacedBytes
  <2> QED
    BY <2>1, <2>2, <2>3, <2>4, <2>5, <2>6
<1>14. CASE CopyBroken(w)
  <2> USE <1>14 DEF CopyBroken, BarAfterBreak, AfterBreak
  <2>1. TypeOK'
    BY DEF TypeOK, WorkerStates
  <2>2. CallInv'
    BY <1>4 DEF WorkerStates
  <2>3. WorkerInv(w)'
    BY <1>3 DEF WorkerInv, Arrived, TypeOK
  <2>4. Others
    BY <1>2 DEF TypeOK
  <2>5. LinkInv'
    BY DEF LinkInv, TypeOK
  <2>6. NoMisplacedBytes'
    BY DEF NoMisplacedBytes
  <2> QED
    BY <2>1, <2>2, <2>3, <2>4, <2>5, <2>6
<1>15. CASE CopyFails(w)
  <2> USE <1>15 DEF CopyFails
  <2>1. TypeOK'
    BY DEF TypeOK, WorkerStates
  <2>2. CallInv'
    BY <1>4 DEF WorkerStates
  <2>3. WorkerInv(w)'
    BY <1>3 DEF WorkerInv, Arrived, TypeOK
  <2>4. Others
    BY <1>2 DEF TypeOK
  <2>5. LinkInv'
    BY DEF LinkInv, TypeOK
  <2>6. NoMisplacedBytes'
    BY DEF NoMisplacedBytes
  <2> QED
    BY <2>1, <2>2, <2>3, <2>4, <2>5, <2>6
<1>16. CASE CopyPanics(w)
  <2> USE <1>16 DEF CopyPanics
  <2>1. TypeOK'
    BY DEF TypeOK, MainStates
  <2>2. CallInv'
    BY DEF CallInv, Count
  <2>3. \A v \in Worker : WorkerInv(v)'
    BY DEF WorkerInv, Arrived, Lo, Hi, BodySize
  <2>4. LinkInv'
    BY DEF LinkInv
  <2>5. NoMisplacedBytes'
    BY DEF NoMisplacedBytes
  <2> QED
    BY <2>1, <2>2, <2>3, <2>4, <2>5
<1> QED
  BY <1>5, <1>6, <1>7, <1>8, <1>9, <1>10, <1>11, <1>12, <1>13, <1>14, <1>15, <1>16 DEF Work

\* Links only expire further, so that refused ones stay refused.
LEMMA ExpireStep == IInv /\ ExpireLinks => IInv'
<1> SUFFICES ASSUME IInv, ExpireLinks PROVE IInv'
  OBVIOUS
<1> USE DEF IInv, ExpireLinks, mainVars, workerVars
<1>1. TypeOK'
  BY DEF TypeOK
<1>2. CallInv'
  BY DEF CallInv, Count, Running
<1>3. \A w \in Worker : WorkerInv(w)'
  BY DEF WorkerInv, Arrived, Lo, Hi, BodySize
<1>4. LinkInv'
  BY DEF LinkInv, TypeOK
<1>5. NoMisplacedBytes'
  BY DEF NoMisplacedBytes
<1> QED
  BY <1>1, <1>2, <1>3, <1>4, <1>5

LEMMA StutterStep == IInv /\ UNCHANGED vars => IInv'
<1> SUFFICES ASSUME IInv, UNCHANGED vars PROVE IInv'
  OBVIOUS
<1> USE DEF IInv, vars, mainVars, workerVars, envVars
<1>1. TypeOK'
  BY DEF TypeOK
<1>2. CallInv'
  BY DEF CallInv, Count, Running
<1>3. \A w \in Worker : WorkerInv(w)'
  BY DEF WorkerInv, Arrived, Lo, Hi, BodySize
<1>4. LinkInv'
  BY DEF LinkInv
<1>5. NoMisplacedBytes'
  BY DEF NoMisplacedBytes
<1> QED
  BY <1>1, <1>2, <1>3, <1>4, <1>5

\* Every state of a download satisfies the inductive invariant.
THEOREM Invariance == Spec => []IInv
<1>1. IInv /\ [Next]_vars => IInv'
  BY MainStep, WorkStep, ExpireStep, StutterStep DEF Next
<1> QED
  BY InitInv, <1>1, PTL DEF Spec

-----------------------------------------------------------------------------
(* What the invariant is for *)

\* Types are kept: above all, no worker number beyond the last range, no negative
\* offset and no byte from outside of the remote file ever comes up.
THEOREM TypeCorrect == Spec => []TypeOK
<1>1. IInv => TypeOK
  BY DEF IInv
<1> QED
  BY Invariance, <1>1, PTL

\* A nil from Get means that every byte below the announced length is in its
\* place, for every file, number of hunks and mixture of faults.
THEOREM OkMeansWholeFileAlways == Spec => []OkMeansWholeFile
<1>1. IInv => OkMeansWholeFile
  <2> SUFFICES ASSUME IInv, pc = "ok", length >= 2,
                      NEW b \in RemoteBytes, b < length
               PROVE  file[b] = b
    BY DEF OkMeansWholeFile
  <2>1. length \in Nat \ {0} /\ next > Count /\ next \in Nat
    BY DEF IInv, CallInv, TypeOK
  <2>2. PICK w \in 1 .. Count : b \in Lo(w) .. Hi(w)
    <3>1. length \in Nat /\ b \in 0 .. length - 1
      BY <2>1 DEF RemoteBytes
    <3> QED
      BY <3>1, EveryByteInSomeRange DEF Count, Lo, Hi
  <2>3. w \in Worker /\ w < next
    <3>1. Count \in Nat /\ Count <= 2 * NumHunks - 1
      BY <2>1, HunkFacts, FewerRangesThanWorkers DEF Count
    <3> QED
      BY <2>1, <3>1 DEF Worker
  <2>4. wpc[w] = "ok"
    BY <2>1, <2>3, WorkerNumbers DEF IInv, CallInv
  <2>5. Arrived(Lo(w), Hi(w))
    BY <2>3, <2>4 DEF IInv, WorkerInv
  <2>6. Lo(w) <= b /\ b <= Hi(w)
    <3>1. Lo(w) \in Nat /\ Hi(w) \in Nat
      BY <2>3, <2>4, StartedRange DEF IInv
    <3> QED
      BY <2>2, <3>1
  <2> QED
    BY <2>5, <2>6 DEF Arrived
<1> QED
  BY Invariance, <1>1, PTL

\* No byte is ever put where it does not belong.
THEOREM NoMisplacedBytesAlways == Spec => []NoMisplacedBytes
<1>1. IInv => NoMisplacedBytes
  BY DEF IInv
<1> QED
  BY Invariance, <1>1, PTL

\* Only a failed OpenFile lets Get return while a worker still runs.
THEOREM NoWorkerOutlivesTheCallAlways == Spec => []NoWorkerOutlivesTheCall
<1>1. IInv => NoWorkerOutlivesTheCall
  BY DEF IInv, CallInv, NoWorkerOutlivesTheCall, Running
<1> QED
  BY Invariance, <1>1, PTL

\* After a refusal a worker comes back with a younger link, every time.
THEOREM RetriesUseFreshLinks == Spec => RetryUsesFreshLink
<1>1. ASSUME IInv, [Next]_vars, NEW w \in Worker, wpc[w] = "relink", wpc'[w] = "seek"
      PROVE  url'[w] > url[w]
  <2>1. url[w] < expiries /\ url \in [Worker -> Nat] /\ expiries \in Nat
    BY <1>1 DEF IInv, LinkInv, TypeOK
  <2>2. ~UNCHANGED vars /\ ~Main /\ ~ExpireLinks
    <3>1. wpc'[w] # wpc[w] /\ w # next
      BY <1>1, WorkerNumbers DEF IInv, CallInv, TypeOK
    <3> QED
      BY <1>1, <3>1 DEF vars, workerVars, Main, FetchLink, HeadRequest, Prepare, SpawnWorker,
                        OpenFails, Wait, ExpireLinks, IInv, TypeOK
  <2>3. PICK v \in Worker : Work(v)
    BY <1>1, <2>2 DEF Next
  <2>4. v = w /\ Relink(w)
    BY <1>1, <2>3 DEF IInv, TypeOK, Work, Seek, TemporaryError, RequestFails,
                      LinkRefused, UnexpectedStatus, PartialContent, Relink, CopyChunk,
                      CopyDone, CopyBroken, CopyFails, CopyPanics, At, Goto,
                      workerVars, AfterBreak
  <2>5. url'[w] = expiries
    BY <1>1, <2>1, <2>4 DEF Relink, Goto, FreshURL, IInv, TypeOK
  <2> QED
    BY <2>1, <2>5
<1>2. IInv /\ [Next]_vars =>
        [\A w \in Worker :
           (wpc[w] = "relink" /\ wpc'[w] = "seek") => url'[w] > url[w]]_vars
  BY <1>1
<1> QED
  BY Invariance, <1>2, PTL DEF Spec, RetryUsesFreshLink

-----------------------------------------------------------------------------
(* The progress bar *)

\* What a step may do to the bar: add the bytes of a chunk, or take back those
\* of the attempt that broke.
LEMMA BarMoves ==
  ASSUME TypeOK, [Next]_vars
  PROVE  \/ UNCHANGED <<bar, written>>
         \/ \E w \in Worker, n \in Nat :
              written' = [written EXCEPT ![w] = n] /\ bar' = bar + n - written[w]
<1>1. CASE Main \/ ExpireLinks \/ UNCHANGED vars
  BY <1>1 DEF Main, FetchLink, HeadRequest, Prepare, SpawnWorker, OpenFails, Wait, ExpireLinks,
              vars, workerVars
<1>2. ASSUME NEW w \in Worker, Work(w), ~CopyChunk(w), ~CopyBroken(w)
      PROVE  UNCHANGED <<bar, written>>
  BY <1>2 DEF Work, Seek, TemporaryError, RequestFails, LinkRefused, UnexpectedStatus,
              PartialContent, Relink, CopyDone, CopyFails, CopyPanics, workerVars
<1>3. ASSUME NEW w \in Worker, CopyChunk(w)
      PROVE  \E n \in Nat : written' = [written EXCEPT ![w] = n] /\ bar' = bar + n - written[w]
  <2>1. PICK n \in 1 .. BodySize(w) - written[w] :
          bar' = bar + n /\ written' = [written EXCEPT ![w] = @ + n]
    BY <1>3 DEF CopyChunk
  <2>2. written[w] \in Nat /\ bar \in Int /\ n \in Nat
    BY DEF TypeOK
  <2>3. /\ written' = [written EXCEPT ![w] = written[w] + n]
        /\ bar' = bar + (written[w] + n) - written[w]
    BY <2>1, <2>2
  <2>4. written[w] + n \in Nat
    BY <2>2
  <2> QED
    BY <2>3, <2>4
<1>4. ASSUME NEW w \in Worker, CopyBroken(w)
      PROVE  written' = [written EXCEPT ![w] = 0] /\ bar' = bar + 0 - written[w]
  BY <1>4 DEF CopyBroken, BarAfterBreak, TypeOK
<1> QED
  BY <1>1, <1>2, <1>3, <1>4 DEF Next

BarInv == bar = SumFunction(written)

LEMMA BarStep == TypeOK /\ BarInv /\ [Next]_vars => BarInv'
<1> SUFFICES ASSUME TypeOK, BarInv, [Next]_vars PROVE BarInv'
  OBVIOUS
<1>1. CASE UNCHANGED <<bar, written>>
  BY <1>1 DEF BarInv
<1>2. ASSUME NEW w \in Worker, NEW n \in Nat,
             written' = [written EXCEPT ![w] = n], bar' = bar + n - written[w]
      PROVE  BarInv'
  <2>1. IsFiniteSet(Worker) /\ written \in [Worker -> Int] /\ n \in Int
    BY FS_Interval DEF Worker, TypeOK
  <2>2. SumFunctionOnSet(written', Worker) = SumFunctionOnSet(written, Worker) - written[w] + n
    <3>1. /\ written' \in [Worker -> Int] /\ written'[w] = n
          /\ Agree(written, written', Worker \ {w})
      BY <1>2, <2>1 DEF Agree
    <3>2. SumFunctionOnSet(written', Worker)
            = SumFunctionOnSet(written, Worker) - written[w] + written'[w]
      BY <2>1, <3>1, SumChanges
    <3> QED
      BY <3>1, <3>2
  <2>3. DOMAIN written = Worker /\ DOMAIN written' = Worker
    BY <1>2, <2>1
  <2>4. bar \in Int /\ written[w] \in Int
    BY DEF TypeOK
  <2> QED
    BY <1>2, <2>2, <2>3, <2>4 DEF BarInv, SumFunction
<1> QED
  BY <1>1, <1>2, BarMoves

\* When Get returns nil every worker has written the whole of its range.
LEMMA BarWhenDone ==
  ASSUME IInv, pc = "ok", length \in 2 .. RemoteSize
  PROVE  SumFunction(written) = length
<1>1. /\ length \in Nat \ {0} /\ length >= 2 /\ length <= RemoteSize
      /\ next \in Nat /\ next > Count
      /\ Count \in Nat /\ Count <= 2 * NumHunks - 1
  <2>1. length \in Nat \ {0} /\ next \in Nat /\ next > Count
    BY DEF IInv, CallInv, TypeOK
  <2> QED
    BY <2>1, HunkFacts, FewerRangesThanWorkers DEF Count
<1>2. Count >= 1
  BY <1>1, SomeRange DEF Count
<1>3. next = Count + 1
  BY <1>1, <1>2 DEF IInv, CallInv
<1>4. ASSUME NEW w \in Worker
      PROVE  written[w] = IF w <= Count THEN RangeLength(length, NumHunks, w) ELSE 0
  <2>1. w \in Nat \ {0}
    BY WorkerNumbers
  <2>2. CASE w <= Count
    <3>1. wpc[w] = "ok"
      BY <1>1, <1>3, <2>1, <2>2 DEF IInv, CallInv
    <3>2. written[w] = BodySize(w)
      BY <3>1 DEF IInv, WorkerInv
    <3>3. Lo(w) \in Nat /\ Hi(w) \in Nat /\ Hi(w) < length
      <4>1. w \in 1 .. Iterations(length, NumHunks)
        BY <1>1, <2>1, <2>2 DEF Count
      <4> QED
        BY <1>1, <4>1, RangeWithinFile DEF Lo, Hi
    <3> QED
      BY <1>1, <2>2, <3>2, <3>3 DEF BodySize, RangeLength, Lo, Hi
  <2>3. CASE w > Count
    <3>1. wpc[w] = "idle"
      BY <1>1, <1>3, <2>1, <2>3 DEF IInv, CallInv
    <3> QED
      BY <1>1, <2>1, <2>3, <3>1 DEF IInv, WorkerInv
  <2> QED
    BY <1>1, <2>1, <2>2, <2>3
<1>5. written \in [1 .. 2 * NumHunks - 1 -> Int] /\ 2 * NumHunks - 1 \in Nat
  BY DEF IInv, TypeOK, Worker
<1> QED
  BY <1>1, <1>4, <1>5, RangesAddUp DEF Count, Worker

\* The bar counts the bytes of the attempts that were not broken off, however
\* many attempts there are (downloader.go:169-179), and is full when Get returns
\* nil, for every file and number of hunks.
THEOREM BarCountsTheBytesAlways == Spec => []BarCountsTheBytes
<1>1. Init => BarInv
  <2>1. SumFunctionOnSet([w \in Worker |-> 0], Worker) = 0
    BY FS_Interval, SumOfZeros DEF Worker
  <2> QED
    BY <2>1 DEF Init, BarInv, SumFunction
<1>2. IInv /\ BarInv => BarCountsTheBytes
  BY BarWhenDone DEF BarInv, BarCountsTheBytes
<1> QED
  BY TypeCorrect, Invariance, BarStep, <1>1, <1>2, PTL DEF Spec

-----------------------------------------------------------------------------
(* Progress *)

LEMMA BodyLeft ==
  ASSUME IInv, NEW w \in Worker, wpc[w] = "copy"
  PROVE  /\ BodySize(w) \in Nat /\ written[w] \in Nat
         /\ BodySize(w) <= RemoteSize /\ written[w] <= BodySize(w)
BY StartedRange DEF IInv, TypeOK, WorkerInv

LeftTyped ==
  /\ CallLeft \in Nat
  /\ \A w \in Worker : WorkerLeft(w) \in Nat

LEMMA LeftIsTyped == IInv => LeftTyped
<1> SUFFICES ASSUME IInv PROVE LeftTyped
  OBVIOUS
<1>1. CallLeft \in Nat
  BY DEF CallLeft
<1>2. ASSUME NEW w \in Worker PROVE WorkerLeft(w) \in Nat
  BY BodyLeft DEF WorkerLeft
<1> QED
  BY <1>1, <1>2 DEF LeftTyped

\* Nobody's work grows while no link expires but his whose step it is.
LEMMA LeftFrame ==
  ASSUME NEW v \in Worker, length' = length, expiries' = expiries,
         wpc'[v] = wpc[v], url'[v] = url[v], written'[v] = written[v]
  PROVE  WorkerLeft(v)' = WorkerLeft(v)
<1>1. BodySize(v)' = BodySize(v)
  BY DEF BodySize, Lo, Hi
<1> QED
  BY <1>1 DEF WorkerLeft

LEMMA CallMoves ==
  ASSUME LeftTyped, LeftTyped', CallLeft' < CallLeft,
         \A v \in Worker : WorkerLeft(v)' = WorkerLeft(v)
  PROVE  StepsLeft' \in 0 .. StepsLeft - 1
<1> DEFINE left == [w \in Worker |-> WorkerLeft(w)]
<1>1. left' = left
  OBVIOUS
<1>2. SumFunction(left) \in Nat
  <2>1. left \in [Worker -> Nat] /\ DOMAIN left = Worker
    BY DEF LeftTyped
  <2>2. IsFiniteSet(Worker)
    BY FS_Interval DEF Worker
  <2> HIDE DEF left
  <2> QED
    BY <2>1, <2>2, SumOfNaturals DEF SumFunction
<1>3. StepsLeft = CallLeft + SumFunction(left) /\ StepsLeft' = CallLeft' + SumFunction(left')
  BY DEF StepsLeft
<1>4. CallLeft \in Nat /\ CallLeft' \in Nat
  BY DEF LeftTyped
<1> HIDE DEF left
<1> QED
  BY <1>1, <1>2, <1>3, <1>4

LEMMA WorkerMoves ==
  ASSUME LeftTyped, LeftTyped', NEW w \in Worker, CallLeft' = CallLeft, WorkerLeft(w)' < WorkerLeft(w),
         \A v \in Worker \ {w} : WorkerLeft(v)' = WorkerLeft(v)
  PROVE  StepsLeft' \in 0 .. StepsLeft - 1
<1> DEFINE left == [v \in Worker |-> WorkerLeft(v)]
<1>1. /\ left \in [Worker -> Nat] /\ left' \in [Worker -> Nat]
      /\ Agree(left, left', Worker \ {w}) /\ left'[w] < left[w]
  BY DEF Agree, LeftTyped
<1>2. StepsLeft = CallLeft + SumFunction(left) /\ StepsLeft' = CallLeft' + SumFunction(left')
  BY DEF StepsLeft
<1>3. IsFiniteSet(Worker)
  BY FS_Interval DEF Worker
<1>4. CallLeft \in Nat
  BY DEF LeftTyped
<1> HIDE DEF left
<1>5. SumFunction(left) \in Nat /\ SumFunction(left') \in Nat
  BY <1>1, <1>3, SumOfNaturals DEF SumFunction
<1>6. SumFunction(left') = SumFunction(left) - left[w] + left'[w]
  <2>1. left \in [Worker -> Int] /\ left' \in [Worker -> Int]
    BY <1>1
  <2> QED
    BY <1>1, <1>3, <2>1, SumChanges DEF SumFunction
<1> QED
  BY <1>1, <1>2, <1>4, <1>5, <1>6

LEMMA StepIsProgress ==
  ASSUME IInv, LeftTyped, LeftTyped', [Next]_vars, vars' # vars
  PROVE  \/ retries' + expiries' > retries + expiries
         \/ StepsLeft' \in 0 .. StepsLeft - 1
<1>0. /\ retries \in Nat /\ expiries \in Nat /\ TypeOK /\ CallInv
      /\ wpc \in [Worker -> WorkerStates] /\ url \in [Worker -> Nat] /\ written \in [Worker -> Nat]
  BY DEF IInv, TypeOK
<1>1. ASSUME FetchLink \/ Prepare \/ OpenFails \/ Wait
      PROVE  StepsLeft' \in 0 .. StepsLeft - 1
  <2>1. \A v \in Worker : WorkerLeft(v)' = WorkerLeft(v)
    BY <1>1, LeftFrame DEF FetchLink, Prepare, OpenFails, Wait, workerVars, envVars
  <2>2. CallLeft' < CallLeft
    BY <1>1 DEF FetchLink, Prepare, OpenFails, Wait, WaitResult, CallLeft
  <2> QED
    BY <2>1, <2>2, CallMoves
<1>2. ASSUME HeadRequest
      PROVE  StepsLeft' \in 0 .. StepsLeft - 1
  <2>1. ASSUME NEW v \in Worker PROVE WorkerLeft(v)' = WorkerLeft(v)
    <3>1. wpc[v] = "idle" /\ wpc' = wpc
      BY <1>0, <1>2, WorkerNumbers DEF HeadRequest, workerVars, CallInv
    <3> QED
      BY <3>1 DEF WorkerLeft
  <2>2. CallLeft' < CallLeft
    BY <1>2 DEF HeadRequest, CallLeft
  <2> QED
    BY <2>1, <2>2, CallMoves
<1>3. ASSUME NEW w \in Worker, UNCHANGED <<pc, length, expiries>>,
             \A v \in Worker \ {w} :
               wpc'[v] = wpc[v] /\ url'[v] = url[v] /\ written'[v] = written[v],
             WorkerLeft(w)' < WorkerLeft(w)
      PROVE  StepsLeft' \in 0 .. StepsLeft - 1
  <2>1. \A v \in Worker \ {w} : WorkerLeft(v)' = WorkerLeft(v)
    BY <1>3, LeftFrame
  <2>2. CallLeft' = CallLeft
    BY <1>3 DEF CallLeft
  <2> QED
    BY <1>3, <2>1, <2>2, WorkerMoves
<1>4. ASSUME SpawnWorker
      PROVE  StepsLeft' \in 0 .. StepsLeft - 1
  <2>1. PICK w \in Worker : w = next /\ wpc[w] = "idle"
    <3>1. length \in Nat \ {0} /\ next \in Nat \ {0} /\ next <= Count
      BY <1>0, <1>4 DEF SpawnWorker, CallInv, TypeOK
    <3>2. Count \in Nat /\ Count <= 2 * NumHunks - 1
      BY <3>1, HunkFacts, FewerRangesThanWorkers DEF Count
    <3>3. next \in Worker
      BY <3>1, <3>2 DEF Worker
    <3> QED
      BY <1>0, <3>1, <3>3 DEF CallInv
  <2>2. /\ UNCHANGED <<pc, length, expiries>> /\ wpc'[w] = "seek"
        /\ \A v \in Worker \ {w} :
             wpc'[v] = wpc[v] /\ url'[v] = url[v] /\ written'[v] = written[v]
    BY <1>0, <1>4, <2>1 DEF SpawnWorker, envVars
  <2>3. WorkerLeft(w)' < WorkerLeft(w)
    BY <2>1, <2>2 DEF WorkerLeft
  <2> QED
    BY <1>3, <2>1, <2>2, <2>3
<1>5. ASSUME NEW w \in Worker, Work(w), ~TemporaryError(w), ~CopyBroken(w), ~CopyPanics(w)
      PROVE  StepsLeft' \in 0 .. StepsLeft - 1
  <2> USE DEF At, Goto, mainVars, envVars
  <2>1. /\ UNCHANGED <<pc, length, expiries>>
        /\ \A v \in Worker \ {w} :
             wpc'[v] = wpc[v] /\ url'[v] = url[v] /\ written'[v] = written[v]
    BY <1>0, <1>5 DEF Work, Seek, RequestFails, LinkRefused, UnexpectedStatus, PartialContent,
                      Relink, CopyChunk, CopyDone, CopyFails
  <2>2. CASE Seek(w) \/ RequestFails(w) \/ LinkRefused(w) \/ UnexpectedStatus(w)
    <3>1. /\ \/ wpc[w] = "seek" /\ wpc'[w] \in {"get", "failed"}
             \/ wpc[w] = "get" /\ wpc'[w] = "failed"
             \/ wpc[w] = "get" /\ wpc'[w] = "relink" /\ url[w] # expiries
          /\ url' = url
      BY <1>0, <2>2 DEF Seek, RequestFails, LinkRefused, UnexpectedStatus
    <3>2. WorkerLeft(w)' < WorkerLeft(w)
      BY <2>1, <3>1 DEF WorkerLeft
    <3> QED
      BY <1>3, <2>1, <3>2
  <2>3. CASE PartialContent(w)
    <3>1. /\ wpc[w] = "get" /\ url[w] = expiries /\ wpc'[w] = "copy" /\ written' = written
      BY <1>0, <2>3 DEF PartialContent
    <3>2. written[w] = 0 /\ BodySize(w) \in Nat /\ BodySize(w) <= RemoteSize
      <4>1. Lo(w) \in Nat /\ Lo(w) < RemoteSize
        BY <1>0, <2>3, <3>1, StartedRange DEF PartialContent
      <4> QED
        BY <1>0, <3>1, <4>1, StartedRange DEF IInv, WorkerInv
    <3>3. BodySize(w)' = BodySize(w)
      BY <2>1 DEF BodySize, Lo, Hi
    <3>4. WorkerLeft(w)' < WorkerLeft(w)
      BY <2>1, <3>1, <3>2, <3>3 DEF WorkerLeft
    <3> QED
      BY <1>3, <2>1, <3>4
  <2>4. CASE Relink(w)
    <3>1. /\ wpc[w] = "relink"
          /\ \/ wpc'[w] = "failed"
             \/ wpc'[w] = "seek" /\ url'[w] = expiries
      BY <1>0, <2>4 DEF Relink, FreshURL
    <3>2. WorkerLeft(w)' < WorkerLeft(w)
      BY <2>1, <3>1 DEF WorkerLeft
    <3> QED
      BY <1>3, <2>1, <3>2
  <2>5. CASE CopyChunk(w) \/ CopyDone(w) \/ CopyFails(w)
    <3>1. /\ wpc[w] = "copy"
          /\ \/ wpc'[w] = "copy" /\ written'[w] > written[w] /\ written'[w] \in Nat
             \/ wpc'[w] \in {"ok", "failed"}
      <4>1. ASSUME CopyChunk(w)
            PROVE  wpc'[w] = "copy" /\ written'[w] > written[w] /\ written'[w] \in Nat
        <5>1. PICK n \in Nat \ {0} : ChunkOf(w, n)
          BY <4>1, ChunkInPlace
        <5>2. written' = [written EXCEPT ![w] = @ + n] /\ written[w] \in Nat
          BY <1>0, <5>1 DEF ChunkOf
        <5> QED
          BY <1>0, <4>1, <5>1, <5>2 DEF CopyChunk
      <4> QED
        BY <1>0, <2>5, <4>1 DEF CopyChunk, CopyDone, CopyFails
    <3>2. /\ BodySize(w) \in Nat /\ written[w] \in Nat /\ written[w] <= BodySize(w)
          /\ BodySize(w)' = BodySize(w)
      BY <2>1, <3>1, BodyLeft DEF BodySize, Lo, Hi
    <3>3. WorkerLeft(w)' < WorkerLeft(w)
      BY <2>1, <3>1, <3>2 DEF WorkerLeft
    <3> QED
      BY <1>3, <2>1, <3>3
  <2> QED
    BY <1>5, <2>2, <2>3, <2>4, <2>5 DEF Work
<1>6. ASSUME NEW w \in Worker, CopyPanics(w)
      PROVE  StepsLeft' \in 0 .. StepsLeft - 1
  <2>1. pc \in {"open", "openErr"} /\ pc' = "crashed" /\ UNCHANGED <<length, workerVars, envVars>>
    <3>1. wpc[w] = "copy" /\ pc \in MainStates /\ pc # "crashed"
      BY <1>0, <1>6 DEF CopyPanics, At, TypeOK
    <3>2. w \in Nat \ {0} /\ w < next
      BY <1>0, <3>1, WorkerNumbers DEF CallInv, TypeOK
    <3>3. pc \notin {"link", "head", "prepare", "ok", "err"}
      BY <1>0, <3>1, <3>2 DEF CallInv, Running
    <3> QED
      BY <1>6, <3>1, <3>3 DEF CopyPanics, MainStates
  <2>2. \A v \in Worker : WorkerLeft(v)' = WorkerLeft(v)
    BY <2>1, LeftFrame DEF workerVars, envVars
  <2>3. CallLeft' < CallLeft
    BY <2>1 DEF CallLeft
  <2> QED
    BY <2>2, <2>3, CallMoves
<1>7. ASSUME NEW w \in Worker, TemporaryError(w) \/ CopyBroken(w)
      PROVE  retries' + expiries' > retries + expiries
  BY <1>0, <1>7 DEF TemporaryError, CopyBroken
<1>8. ASSUME ExpireLinks
      PROVE  retries' + expiries' > retries + expiries
  BY <1>0, <1>8 DEF ExpireLinks
<1> QED
  BY <1>1, <1>2, <1>4, <1>5, <1>6, <1>7, <1>8 DEF Next, Main

\* Between two disturbances the call and its workers make at most StepsLeft steps,
\* in whatever order, for every file and number of hunks: nothing they do keeps
\* them busy for ever, but a network that goes on disturbing them.
THEOREM EveryStepAlwaysProgresses == Spec => EveryStepIsProgress
<1>1. Spec => [](IInv /\ LeftTyped)
  BY Invariance, LeftIsTyped, PTL
<1>2. IInv /\ LeftTyped /\ LeftTyped' /\ [Next]_vars =>
        [\/ retries' + expiries' > retries + expiries
         \/ StepsLeft' \in 0 .. StepsLeft - 1]_vars
  BY StepIsProgress
<1> QED
  BY <1>1, <1>2, PTL DEF Spec, EveryStepIsProgress

-----------------------------------------------------------------------------
(* Downloader implements Download *)

HonestLength == length \in {0, UnknownLength, RemoteSize}

LEMMA LengthStaysHonest ==
  ASSUME ErrorLengths \subseteq {UnknownLength, 0}
  PROVE  Spec => []HonestLength
<1>1. Init => HonestLength
  BY DEF Init, HonestLength
<1>2. HonestLength /\ [Next]_vars => HonestLength'
  BY DEF HonestLength, vars, mainVars, workerVars, Next, Main, FetchLink, HeadRequest,
         HeadLengths, Prepare, SpawnWorker, OpenFails, Wait, ExpireLinks, Work, Seek,
         TemporaryError, RequestFails, LinkRefused, UnexpectedStatus, PartialContent,
         Relink, CopyChunk, CopyDone, CopyBroken, CopyFails, CopyPanics
<1> QED
  BY <1>1, <1>2, PTL DEF Spec

\* The bytes that are in their places, the abstract have.
InPlace == {b \in RemoteBytes : file[b] = b}

\* Each step of the download is a step of Download or changes nothing there.
LEMMA StepImplementsDownload ==
  ASSUME RemoteSize >= 2, IInv, IInv', HonestLength', OkMeansWholeFile', [Next]_vars
  PROVE  [D!Next]_(D!vars)
<1> USE DEF D!Next, D!Receive, D!Succeed, D!Fail, D!Crash, D!vars, D!RemoteBytes
<1>1. ASSUME file' = file, outcome' = outcome
      PROVE  UNCHANGED D!vars
  BY <1>1 DEF RemoteBytes
<1>2. ASSUME UNCHANGED vars PROVE UNCHANGED D!vars
  BY <1>1, <1>2 DEF vars, mainVars, outcome
<1>3. CASE FetchLink
  BY <1>1, <1>3 DEF FetchLink, outcome, RemoteBytes
<1>4. CASE HeadRequest
  BY <1>1, <1>4 DEF HeadRequest, outcome, RemoteBytes
<1>5. CASE Prepare
  BY <1>1, <1>5 DEF Prepare, outcome, RemoteBytes
<1>6. CASE SpawnWorker
  BY <1>1, <1>6 DEF SpawnWorker, outcome
<1>7. CASE OpenFails
  BY <1>7 DEF OpenFails, outcome, RemoteBytes
<1>8. CASE Wait
  <2> USE <1>8 DEF Wait, WaitResult
  <2>1. CASE pc' = "err"
    BY <2>1 DEF outcome, RemoteBytes
  <2>2. CASE pc' = "ok"
    <3>1. length' = RemoteSize
      BY <2>2 DEF HonestLength, IInv, CallInv, UnknownLength
    <3>2. \A b \in RemoteBytes : file[b] = b
      BY <2>2, <3>1 DEF OkMeansWholeFile, RemoteBytes
    <3> QED
      BY <2>2, <3>2 DEF outcome, RemoteBytes
  <2> QED
    BY <2>1, <2>2
<1>9. ASSUME NEW w \in Worker, Work(w)
      PROVE  [D!Next]_(D!vars)
  <2>1. CASE CopyChunk(w)
    <3>1. outcome \in {"pending", "err"} /\ outcome' = outcome
      BY <2>1 DEF CopyChunk, At, mainVars, IInv, TypeOK, MainStates, CallInv, Running,
                  outcome
    <3>2. \A b \in RemoteBytes : file[b] = b => file'[b] = b
      BY <2>1, ChunkInPlace DEF ChunkOf, RemoteBytes, Positions
    <3>3. InPlace' = InPlace \cup InPlace' /\ InPlace' \in SUBSET RemoteBytes
      BY <3>2 DEF InPlace
    <3> QED
      BY <3>1, <3>3 DEF InPlace, RemoteBytes
  <2>2. CASE CopyPanics(w)
    BY <2>2 DEF CopyPanics, At, IInv, TypeOK, MainStates, CallInv, Running, outcome
  <2>3. CASE ~CopyChunk(w) /\ ~CopyPanics(w)
    <3>1. file' = file /\ pc' = pc
      BY <1>9, <2>3 DEF Work, Seek, TemporaryError, RequestFails, LinkRefused,
                        UnexpectedStatus, PartialContent, Relink, CopyDone,
                        CopyBroken, CopyFails, mainVars
    <3> QED
      BY <1>1, <3>1 DEF outcome
  <2> QED
    BY <2>1, <2>2, <2>3
<1>10. CASE ExpireLinks
  BY <1>1, <1>10 DEF ExpireLinks, mainVars, outcome
<1> QED
  BY <1>2, <1>3, <1>4, <1>5, <1>6, <1>7, <1>8, <1>9, <1>10 DEF Next, Main

\* A download of two bytes or more whose HEAD request announces the length of
\* the file, none, or zero, does what Download promises.
THEOREM ImplementsDownload ==
  ASSUME RemoteSize >= 2, ErrorLengths \subseteq {UnknownLength, 0}
  PROVE  Spec => KeepsItsPromise
<1>1. Init => D!Init
  BY DEF Init, D!Init, outcome, RemoteBytes, Positions, Absent, Old
<1>2. Spec => [](IInv /\ HonestLength /\ OkMeansWholeFile)
  BY Invariance, LengthStaysHonest, OkMeansWholeFileAlways, PTL
<1>3. (IInv /\ HonestLength /\ OkMeansWholeFile)
      /\ (IInv /\ HonestLength /\ OkMeansWholeFile)' /\ [Next]_vars
        => [D!Next]_(D!vars)
  BY StepImplementsDownload
<1> QED
  BY <1>1, <1>2, <1>3, PTL DEF Spec, KeepsItsPromise, D!Spec

-----------------------------------------------------------------------------
(* What the tests say, and when it is true *)

\* The only way to the crash is an error of io.Copy that is no *net.OpError
\* (downloader.go:176): where no other can come up, each failure is returned.
THEOREM FailuresAreReturnedWithoutOtherErrors ==
  ASSUME "copyerror" \notin Faults
  PROVE  Spec => []FailuresAreReturned
<1>1. Init => FailuresAreReturned
  BY DEF Init, FailuresAreReturned
<1>2. FailuresAreReturned /\ [Next]_vars => FailuresAreReturned'
  BY DEF FailuresAreReturned, vars, mainVars, Next, Main, FetchLink, HeadRequest, Prepare,
         SpawnWorker, OpenFails, Wait, WaitResult, ExpireLinks, Work, Seek, TemporaryError,
         RequestFails, LinkRefused, UnexpectedStatus, PartialContent, Relink, CopyChunk,
         CopyDone, CopyBroken, CopyFails, CopyPanics
<1> QED
  BY <1>1, <1>2, PTL DEF Spec

\* When the refusals of the HEAD request, whose status the code does not look at
\* (downloader.go:66-71), announce no length, or zero, a nil from Get means the
\* whole product, if it has more than one byte.
THEOREM WritesTheProductWhenLengthIsHonest ==
  ASSUME RemoteSize >= 2, ErrorLengths \subseteq {UnknownLength, 0}
  PROVE  Spec => []WritesTheProduct
<1>1. IInv /\ HonestLength /\ OkMeansWholeFile => WritesTheProduct
  <2> SUFFICES ASSUME IInv, HonestLength, OkMeansWholeFile, pc = "ok",
                      NEW b \in RemoteBytes
               PROVE  file[b] = b
    BY DEF WritesTheProduct
  <2>1. length = RemoteSize
    BY DEF HonestLength, IInv, CallInv, UnknownLength
  <2> QED
    BY <2>1 DEF OkMeansWholeFile, RemoteBytes
<1> QED
  BY Invariance, LengthStaysHonest, OkMeansWholeFileAlways, <1>1, PTL

=============================================================================
