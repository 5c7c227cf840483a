------------------------- MODULE PageDownloadProofs -------------------------
(***************************************************************************)
(* Proofs about PageDownload for every page size, file length, chunk size  *)
(* and way to write: the transfer resumes where it stopped, and the output *)
(* is a prefix of the plain text as long as the disk does not fail.        *)
(***************************************************************************)
EXTENDS PageDownload, TLAPS

\* Where page p of the file begins.
Start(p) == p * PageUnits

\* The pages cover the file, and only the last one goes past its end.
LEMMA LastPage ==
  /\ PageCount \in Nat \ {0}
  /\ PageCount * PageUnits < Length + PageUnits
  /\ Length <= PageCount * PageUnits
<1> DEFINE n == Length + PageUnits - 1
           d == n \div PageUnits
<1>1. n \in Nat /\ d \in Nat /\ d * PageUnits <= n
  BY SizeAssumption, Z3
<1>2. n < d * PageUnits + PageUnits
  BY SizeAssumption, Z3
<1>3. d # 0
  BY <1>1, <1>2, SizeAssumption
<1>4. d = PageCount
  BY DEF PageCount
<1> HIDE DEF d
<1>5. QED
  BY <1>1, <1>2, <1>3, <1>4, SizeAssumption

LEMMA StartMonotonic ==
  ASSUME NEW p \in Nat, NEW q \in Nat, p <= q
  PROVE  Start(p) <= Start(q)
BY SizeAssumption, Z3 DEF Start

LEMMA StartFacts ==
  /\ Start(0) = 0 /\ Start(PageCount) = PageLength
  /\ PageLength \in Nat /\ Length <= PageLength
  /\ \A p \in 0 .. PageCount : Start(p) \in 0 .. PageLength
  /\ \A p \in 0 .. PageCount - 1 :
       /\ p + 1 \in 0 .. PageCount
       /\ Start(p + 1) = Start(p) + PageUnits
       /\ Start(p) < Length
<1>1. Start(0) = 0 /\ Start(PageCount) = PageLength /\ PageLength \in Nat /\ Length <= PageLength
  BY LastPage, SizeAssumption DEF Start, PageLength
<1>2. ASSUME NEW p \in 0 .. PageCount PROVE Start(p) \in 0 .. PageLength
  <2>1. Start(p) \in Nat
    BY SizeAssumption, LastPage DEF Start
  <2>2. QED
    BY <1>1, <2>1, StartMonotonic, LastPage
<1>3. ASSUME NEW p \in Nat PROVE Start(p + 1) = Start(p) + PageUnits
  BY SizeAssumption, Z3 DEF Start
<1>4. ASSUME NEW p \in 0 .. PageCount - 1 PROVE Start(p) < Length
  <2>1. Start(p + 1) <= PageLength /\ Start(p + 1) = Start(p) + PageUnits
    BY <1>1, <1>3, StartMonotonic, LastPage
  <2>2. PageLength < Length + PageUnits
    BY LastPage DEF PageLength
  <2>3. Start(p) \in Nat
    BY SizeAssumption, LastPage DEF Start
  <2>4. QED
    BY <1>1, <2>1, <2>2, <2>3, SizeAssumption
<1>5. QED
  BY <1>1, <1>2, <1>3, <1>4, LastPage
-----------------------------------------------------------------------------
\* The transfer; a page that can be written is the next one.
NetInv ==
  /\ mode \in Modes /\ units \in 0 .. PageCount
  /\ phase \in {"poll", "reopen", "write", "done", "failed"}
  /\ live \in BOOLEAN
  /\ wire \in 0 .. PageLength /\ have \in 0 .. PageLength
  /\ pending \in [src : 0 .. PageLength, n : 0 .. PageLength]
  /\ page \in 0 .. PageCount
  /\ pending.src = Start(page)
  /\ have = pending.src + pending.n
  /\ live => wire = have
  /\ remaining = Length - Min2(Length, Start(page))
  /\ phase = "done" => remaining = 0

LEMMA NetIsResuming == NetInv => ResumesWhereStopped
BY DEF NetInv, ResumesWhereStopped, Start

LEMMA NetInit == Init => NetInv
<1> SUFFICES ASSUME Init PROVE NetInv
  OBVIOUS
<1>1. 0 \in 0 .. PageCount /\ PageCount - 1 \in 0 .. PageCount /\ PageCount \in 0 .. PageCount
  BY LastPage
<1>2. QED
  BY <1>1, StartFacts, SizeAssumption DEF Init, NetInv, NoPage, Min2

\* A page that leaves pending.
LEMMA NetWritePage ==
  ASSUME NetInv, WritePage
  PROVE  /\ NetInv'
         /\ page \in 0 .. PageCount - 1 /\ remaining > 0 /\ Plain(pending.src, page) = Start(page)
<1>1. page \in 0 .. PageCount - 1 /\ remaining > 0 /\ pending.n >= PageUnits
  BY LastPage, SizeAssumption DEF NetInv, WritePage, PageReady, AtEnd, Min2
<1>2. Plain(pending.src, page) = Start(page)
  BY DEF NetInv, Plain, Start
<1>3. /\ Start(page) \in Nat /\ Start(page) < Length /\ Start(page + 1) = Start(page) + PageUnits
      /\ page + 1 \in 0 .. PageCount /\ Start(page + 1) \in 0 .. PageLength
  <2>1. page \in 0 .. PageCount
    BY DEF NetInv
  <2>2. page + 1 \in 0 .. PageCount
    BY <1>1, LastPage
  <2>3. QED
    BY <1>1, <2>1, <2>2, StartFacts
<1>4. pending' \in [src : 0 .. PageLength, n : 0 .. PageLength] /\ pending'.src = Start(page')
      /\ have = pending'.src + pending'.n
  BY <1>1, <1>3, SizeAssumption, StartFacts DEF NetInv, WritePage
<1>5. remaining' = Length - Min2(Length, Start(page'))
  BY <1>1, <1>3, SizeAssumption DEF NetInv, WritePage, ToWriteRemaining, Min2
<1>6. QED
  BY <1>1, <1>2, <1>3, <1>4, <1>5 DEF NetInv, WritePage, netVars, PageReady

LEMMA NetStep == NetInv /\ [Next]_vars => NetInv'
<1> SUFFICES ASSUME NetInv, [Next]_vars PROVE NetInv'
  OBVIOUS
<1> USE DEF NetInv, netVars
<1>1. CASE Finish
  BY <1>1, SizeAssumption, StartFacts DEF Finish, Min2
<1>2. ASSUME NEW n \in 1 .. ChunkMax, Receive(n) PROVE NetInv'
  <2>1. wire' \in 0 .. PageLength /\ have' = wire' /\ have' = have + n
    BY <1>2, SizeAssumption, StartFacts DEF Receive
  <2>2. pending' = [src |-> pending.src, n |-> pending.n + n]
    BY <1>2 DEF Receive
  <2>3. pending.n + n \in 0 .. PageLength
    BY <2>1, SizeAssumption, StartFacts
  <2>4. QED
    BY <1>2, <2>1, <2>2, <2>3, SizeAssumption, StartFacts DEF Receive
<1>3. CASE BodyEnds
  BY <1>3 DEF BodyEnds
<1>4. CASE BodyStalls
  BY <1>4 DEF BodyStalls
<1>5. CASE Reopen
  BY <1>5 DEF Reopen
<1>6. CASE ReopenFails
  BY <1>6 DEF ReopenFails
<1>7. CASE WritePage
  BY <1>7, NetWritePage
<1>8. CASE MissingDataUnit
  BY <1>8 DEF MissingDataUnit
<1>9. CASE WriteError
  BY <1>9 DEF WriteError
<1>10. CASE Drained
  BY <1>10 DEF Drained
<1>11. CASE WriteReachesFile \/ \E k \in 0 .. PageUnits - 1 : WriteFails(k)
  BY <1>11 DEF WriteReachesFile, WriteFails, PutInflight
<1>12. CASE UNCHANGED vars
  BY <1>12 DEF vars
<1>13. QED
  BY <1>1, <1>2, <1>3, <1>4, <1>5, <1>6, <1>7, <1>8, <1>9, <1>10, <1>11, <1>12 DEF Next

\* However often a body stalls, breaks off or is reopened, what was received,
\* written and asked for fits together, for every page size and file length.
THEOREM ResumeCorrect == Spec => []ResumesWhereStopped
BY NetInit, NetStep, NetIsResuming, PTL DEF Spec
-----------------------------------------------------------------------------
\* How much of the output the pages before p are.
Written(p) == IF mode = "keep" THEN Start(p) ELSE Min2(Length, Start(p))

\* The output: what is written or on its way is no more than the pages so far,
\* and the page on its way is the last of them.  While the disk has not failed
\* it is all of them, and the page on its way begins where the file ends.
DiskInv ==
  /\ file \in [0 .. PageLength - 1 -> 0 .. PageLength - 1 \cup {NoByte, Garbage}]
  /\ size \in Nat /\ write_failed \in BOOLEAN /\ disk_failed \in BOOLEAN
  /\ inflight \in [src : 0 .. PageLength, n : 0 .. PageUnits]
  /\ size + inflight.n <= Written(page)
  /\ inflight.n > 0 => inflight.src + PageUnits <= PageLength
  /\ ~disk_failed =>
       /\ ~write_failed
       /\ size + inflight.n = Written(page)
       /\ Holds(size)
       /\ inflight.n > 0 => inflight.src = size

IInv == NetInv /\ DiskInv

LEMMA WrittenBound ==
  ASSUME NetInv
  PROVE  Written(page) \in 0 .. PageLength
BY StartFacts, SizeAssumption DEF NetInv, Written, Min2

LEMMA DiskInit == Init => DiskInv
<1> SUFFICES ASSUME Init PROVE DiskInv
  OBVIOUS
<1>1. Written(page) = 0 /\ PageLength \in Nat
  BY StartFacts, SizeAssumption DEF Init, Written, Min2
<1>2. Holds(size)
  BY <1>1 DEF Init, Holds
<1>3. inflight \in [src : 0 .. PageLength, n : 0 .. PageUnits] /\ inflight.n = 0 /\ size = 0
  BY <1>1, SizeAssumption DEF Init, NoPage
<1>4. file \in [0 .. PageLength - 1 -> 0 .. PageLength - 1 \cup {NoByte, Garbage}]
  BY DEF Init
<1>5. ~write_failed /\ ~disk_failed /\ write_failed \in BOOLEAN /\ disk_failed \in BOOLEAN
  BY DEF Init
<1>6. QED
  BY <1>1, <1>2, <1>3, <1>4, <1>5 DEF DiskInv

\* A page is handed to the output where the pages before it end.
LEMMA DiskWritePage ==
  ASSUME IInv, WritePage
  PROVE  DiskInv'
<1>1. page \in 0 .. PageCount - 1 /\ remaining > 0 /\ Plain(pending.src, page) = Start(page)
  BY NetWritePage DEF IInv
<1>2. /\ Start(page) \in Nat /\ Start(page) < Length /\ Start(page + 1) = Start(page) + PageUnits
      /\ Start(page + 1) \in 0 .. PageLength /\ Length <= PageLength /\ PageLength \in Nat
  <2>1. page \in 0 .. PageCount /\ page + 1 \in 0 .. PageCount
    BY <1>1, LastPage
  <2>2. QED
    BY <1>1, <2>1, StartFacts
<1>3. remaining = Length - Start(page)
  BY <1>2, SizeAssumption DEF IInv, NetInv, Min2
<1>4. Written(page) = Start(page) /\ Written(page)' = Written(page) + ToWrite /\ ToWrite \in 1 .. PageUnits
  BY <1>2, <1>3, SizeAssumption DEF WritePage, Written, ToWrite, ToWriteRemaining, Min2
<1>5. /\ inflight' = [src |-> Start(page), n |-> ToWrite] /\ inflight.n = 0
      /\ UNCHANGED <<file, size, write_failed, disk_failed>>
  BY <1>1 DEF WritePage
<1>6. Holds(size) => Holds(size)'
  BY <1>5 DEF Holds
<1>7. inflight' \in [src : 0 .. PageLength, n : 0 .. PageUnits]
  BY <1>2, <1>4, <1>5, SizeAssumption
<1>8. QED
  BY <1>2, <1>4, <1>5, <1>6, <1>7, SizeAssumption DEF IInv, DiskInv

\* A part of the page on its way lands.
LEMMA DiskPut ==
  ASSUME IInv, NEW k \in 0 .. PageUnits, k <= inflight.n, PutInflight(k)
  PROVE  /\ file' \in [0 .. PageLength - 1 -> 0 .. PageLength - 1 \cup {NoByte, Garbage}]
         /\ size' = size + k /\ inflight' \in [src : 0 .. PageLength, n : 0 .. PageUnits]
         /\ inflight'.n = 0 /\ Written(page)' = Written(page)
         /\ ~disk_failed => Holds(size)'
<1>1. PageLength \in Nat
  BY StartFacts
<1>2. inflight.src # Garbage
  BY <1>1 DEF IInv, DiskInv, Garbage
<1>3. \A o \in 0 .. PageLength - 1 :
        file'[o] = IF o \in size .. size + k - 1 THEN inflight.src + (o - size) ELSE file[o]
  BY <1>2 DEF PutInflight
<1>4. ASSUME NEW o \in 0 .. PageLength - 1, o \in size .. size + k - 1
      PROVE  inflight.src + (o - size) \in 0 .. PageLength - 1
  BY <1>1, <1>4, SizeAssumption DEF IInv, DiskInv
<1>5. file' \in [0 .. PageLength - 1 -> 0 .. PageLength - 1 \cup {NoByte, Garbage}]
  <2>1. \A o \in 0 .. PageLength - 1 : file[o] \in 0 .. PageLength - 1 \cup {NoByte, Garbage}
    BY DEF IInv, DiskInv
  <2>2. QED
    BY <1>2, <1>4, <2>1 DEF PutInflight
<1>6. size' = size + k /\ inflight' = NoPage /\ Written(page)' = Written(page)
  BY DEF PutInflight, Written
<1>7. ASSUME ~disk_failed PROVE Holds(size)'
  <2>1. /\ size \in Nat /\ \A o \in 0 .. PageLength - 1 : file[o] = IF o < size THEN o ELSE NoByte
    BY <1>7 DEF IInv, DiskInv, Holds
  <2>2. k > 0 => inflight.src = size
    BY <1>7 DEF IInv, DiskInv
  <2>3. ASSUME NEW o \in 0 .. PageLength - 1
        PROVE  file'[o] = IF o < size' THEN o ELSE NoByte
    BY <1>1, <1>3, <1>6, <2>1, <2>2
  <2>4. QED
    BY <2>3 DEF Holds
<1>8. QED
  BY <1>1, <1>5, <1>6, <1>7, SizeAssumption DEF NoPage

LEMMA DiskStep == IInv /\ [Next]_vars => DiskInv'
<1> SUFFICES ASSUME IInv, [Next]_vars PROVE DiskInv'
  OBVIOUS
<1>1. ASSUME UNCHANGED <<mode, page, diskVars>> PROVE DiskInv'
  BY <1>1 DEF IInv, DiskInv, Written, Holds, diskVars
<1>2. CASE WritePage
  BY <1>2, DiskWritePage
<1>3. CASE WriteReachesFile
  <2>1. inflight.n \in 0 .. PageUnits /\ PutInflight(inflight.n) /\ UNCHANGED <<write_failed, disk_failed>>
    BY <1>3 DEF WriteReachesFile, IInv, DiskInv
  <2>2. QED
    BY <2>1, DiskPut, SizeAssumption, WrittenBound DEF IInv, DiskInv
<1>4. ASSUME NEW k \in 0 .. PageUnits - 1, WriteFails(k) PROVE DiskInv'
  <2>1. k \in 0 .. PageUnits /\ k <= inflight.n /\ PutInflight(k) /\ write_failed' /\ disk_failed'
    BY <1>4, SizeAssumption DEF WriteFails, IInv, DiskInv
  <2>2. QED
    BY <1>4, <2>1, DiskPut, SizeAssumption, WrittenBound DEF WriteFails, IInv, DiskInv
<1>5. CASE WriteError
  BY <1>5 DEF WriteError, IInv, DiskInv, Written, Holds
<1>6. CASE \/ Finish \/ BodyEnds \/ BodyStalls \/ Reopen \/ ReopenFails \/ MissingDataUnit \/ Drained
           \/ \E n \in 1 .. ChunkMax : Receive(n)
  BY <1>6, <1>1 DEF Finish, BodyEnds, BodyStalls, Reopen, ReopenFails, MissingDataUnit, Drained, Receive
<1>7. CASE UNCHANGED vars
  BY <1>7, <1>1 DEF vars, diskVars
<1>8. QED
  BY <1>2, <1>3, <1>4, <1>5, <1>6, <1>7 DEF Next

LEMMA DownloadInv == Spec => []IInv
BY NetInit, DiskInit, NetStep, DiskStep, PTL DEF Spec, IInv

\* The offsets, the pages and the output stay in their ranges.
THEOREM TypeCorrect == Spec => []TypeOK
<1>1. IInv => TypeOK
  BY WrittenBound, StartFacts, SizeAssumption DEF IInv, NetInv, DiskInv, TypeOK, Min2
<1>2. QED
  BY DownloadInv, <1>1, PTL

\* While the disk does not fail, the output is a prefix of the plain text, and
\* the whole of it when the download is done, for every page size and length.
THEOREM PlainTextCorrect == Spec => []FileIsPlainText
<1>1. ASSUME IInv, ~disk_failed, phase = "done", inflight.n = 0 PROVE size = FinalSize
  <2>1. remaining = 0 /\ size = Written(page) /\ page \in 0 .. PageCount
    BY <1>1 DEF IInv, NetInv, DiskInv
  <2>2. Length <= Start(page) /\ Start(page) \in Nat
    <3>1. remaining = Length - Min2(Length, Start(page))
      BY <1>1 DEF IInv, NetInv
    <3>2. Start(page) \in 0 .. PageLength /\ PageLength \in Nat
      BY <2>1, StartFacts
    <3>3. QED
      BY <2>1, <3>1, <3>2, SizeAssumption DEF Min2
  <2>3. page = PageCount
    BY <2>1, <2>2, StartFacts, LastPage, SizeAssumption
  <2>4. QED
    BY <2>1, <2>2, <2>3, StartFacts, SizeAssumption DEF Written, FinalSize, Min2
<1>2. IInv => FileIsPlainText
  BY <1>1 DEF IInv, DiskInv, FileIsPlainText
<1>3. QED
  BY DownloadInv, <1>2, PTL

\* While the disk does not fail, the output file grows as the abstract reader of
\* the plain text is served: a write that lands appends the bytes that follow,
\* and no stall, reopened body or retry rewrites any.
THEOREM Refinement == Spec /\ []~disk_failed => Output!SequentialSpec
<1>1. Init => Output!Init
  BY DEF Init, Output!Init, Output!Offsets, Output!NoByte, NoByte
<1>2. IInv /\ [Next]_vars /\ ~disk_failed /\ ~disk_failed' => [Output!Deliver]_<<size, file>>
  <2> SUFFICES ASSUME IInv, [Next]_vars, ~disk_failed, ~disk_failed'
               PROVE  Output!Deliver \/ UNCHANGED <<size, file>>
    OBVIOUS
  <2>1. CASE WriteReachesFile
    <3>1. /\ inflight.n \in 1 .. PageUnits /\ inflight.src = size /\ size \in Nat /\ inflight.src # Garbage
          /\ size + inflight.n = Written(page)
      BY <2>1, SizeAssumption DEF WriteReachesFile, IInv, DiskInv, Garbage
    <3>2. inflight.n \in 1 .. PageLength - size
      <4>1. Written(page) \in 0 .. PageLength /\ PageLength \in Nat
        BY WrittenBound, StartFacts DEF IInv
      <4>2. QED
        BY <3>1, <4>1, SizeAssumption
    <3>3. /\ size' = size + inflight.n
          /\ file' = [o \in 0 .. PageLength - 1 |->
                        IF o \in size .. size + inflight.n - 1 THEN inflight.src + (o - size) ELSE file[o]]
      BY <2>1, <3>1 DEF WriteReachesFile, PutInflight
    <3>4. file' = [o \in 0 .. PageLength - 1 |->
                    IF o \in size .. size + inflight.n - 1 THEN o ELSE file[o]]
      BY <3>1, <3>3, StartFacts
    <3>5. QED
      BY <3>2, <3>3, <3>4 DEF Output!Deliver, Output!Offsets
  <2>2. CASE ~WriteReachesFile
    BY <2>2 DEF Next, vars, diskVars, Finish, BodyEnds, BodyStalls, Reopen, ReopenFails, MissingDataUnit,
      Drained, Receive, WritePage, WriteError, WriteFails
  <2>3. QED
    BY <2>1, <2>2
<1>3. QED
  BY <1>1, <1>2, DownloadInv, PTL DEF Spec, Output!SequentialSpec
=============================================================================
