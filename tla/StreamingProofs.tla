-------------------------- MODULE StreamingProofs --------------------------
(***************************************************************************)
(* Proofs about the three parts of a streaming installation: HttpRead,     *)
(* which reads the package over broken connections, HashTreeStream, which  *)
(* checks it page by page, and Installer, which decides what is written.   *)
(* Each part has an inductive invariant and theorems of its own.  They     *)
(* hold for every length of the file, every announced total and every      *)
(* bound on chunks; every page size, number of hashes and set of corrupt   *)
(* pages; every package history, number of files and of downloads, and     *)
(* runs cut short at any point.                                            *)
(***************************************************************************)
EXTENDS HttpRead, HashTreeStream, Installer, FiniteSetTheorems, TLAPS
-----------------------------------------------------------------------------
(* HttpRead.                                                               *)

\* What the steps preserve together: the bytes handed over are right because
\* the chunk starts at pos, and the chunk starts at pos because next_offset
\* counts the bytes of the response from where the request asked.
HttpIInv == HttpTypeOK /\ DeliveredInOrder /\ OffsetsAgree

LEMMA HttpInitIInv == HttpInit => HttpIInv
BY LengthAssumption, TotalsAssumption, HttpBounds
   DEF HttpInit, HttpIInv, HttpTypeOK, DeliveredInOrder, OffsetsAgree, Offsets, NoByte, NoChunk

\* An accepted response starts where the request asked.
LEMMA AcceptedStart ==
  ASSUME NEW start \in 0 .. FileLength, NEW r \in Responses(start), Accepts(start, r)
  PROVE  r.start = start /\ r.total \in 0 .. FileLength
BY LengthAssumption, TotalsAssumption DEF Responses, Accepts, Offsets

\* The chunk a read copies from holds the bytes from pos on, and ends inside
\* the file.
LEMMA ChunkAtPos ==
  ASSUME HttpIInv, chunk.n > 0
  PROVE  chunk.src = pos /\ pos + chunk.n <= FileLength
BY LengthAssumption DEF HttpIInv, HttpTypeOK, OffsetsAgree

LEMMA CopyIsDelivery ==
  ASSUME HttpIInv, CopyFromPendingChunk
  PROVE  \E k \in 1 .. FileLength - pos :
           /\ k <= chunk.n
           /\ pos' = pos + k
           /\ chunk' = [src |-> chunk.src + k, n |-> chunk.n - k]
           /\ out' = [o \in Offsets |-> IF o \in pos .. pos + k - 1 THEN o ELSE out[o]]
<1> DEFINE k == Min2(chunk.n, want)
<1>1. chunk.n \in Nat /\ want \in Nat /\ pos \in 0 .. FileLength /\ chunk.n > 0 /\ want > 0
  BY HttpBounds DEF HttpIInv, HttpTypeOK, CopyFromPendingChunk
<1>2. chunk.src = pos /\ pos + chunk.n <= FileLength
  BY <1>1, ChunkAtPos
<1>3. k \in 1 .. FileLength - pos /\ k <= chunk.n
  BY <1>1, <1>2, LengthAssumption DEF Min2
<1>4. /\ pos' = pos + k
      /\ chunk' = [src |-> chunk.src + k, n |-> chunk.n - k]
      /\ out' = [o \in Offsets |-> IF o \in pos .. pos + k - 1
                                   THEN chunk.src + (o - pos) ELSE out[o]]
  BY DEF CopyFromPendingChunk
<1>5. \A o \in Offsets : chunk.src + (o - pos) = o
  BY <1>1, <1>2, LengthAssumption DEF Offsets
<1>6. out' = [o \in Offsets |-> IF o \in pos .. pos + k - 1 THEN o ELSE out[o]]
  BY <1>4, <1>5
<1>7. QED
  BY <1>3, <1>4, <1>6

LEMMA HttpNextIInv == HttpIInv /\ [HttpNext]_httpVars => HttpIInv'
<1> SUFFICES ASSUME HttpIInv, [HttpNext]_httpVars PROVE HttpIInv'
  OBVIOUS
<1> USE LengthAssumption, TotalsAssumption, HttpBounds
<1>1. ASSUME NEW n \in 1 .. BufMax, BeginRead(n) PROVE HttpIInv'
  BY <1>1 DEF BeginRead, connVars, HttpIInv, HttpTypeOK, DeliveredInOrder, OffsetsAgree
<1>2. CASE CopyFromPendingChunk
  <2>1. PICK k \in 1 .. FileLength - pos :
           /\ k <= chunk.n
           /\ pos' = pos + k
           /\ chunk' = [src |-> chunk.src + k, n |-> chunk.n - k]
           /\ out' = [o \in Offsets |-> IF o \in pos .. pos + k - 1 THEN o ELSE out[o]]
    BY <1>2, CopyIsDelivery
  <2>2. want' = 0 /\ UNCHANGED connVars /\ chunk.n > 0
    BY <1>2 DEF CopyFromPendingChunk
  <2>3. chunk.src = pos
    BY <2>2, ChunkAtPos
  <2>4. HttpTypeOK'
    BY <2>1, <2>2 DEF HttpIInv, HttpTypeOK, connVars, Offsets, NoByte
  <2>5. DeliveredInOrder'
    BY <2>1 DEF HttpIInv, HttpTypeOK, DeliveredInOrder, Offsets, NoByte
  <2>6. OffsetsAgree'
    BY <2>1, <2>2, <2>3 DEF HttpIInv, HttpTypeOK, OffsetsAgree, connVars
  <2>7. QED
    BY <2>4, <2>5, <2>6 DEF HttpIInv
<1>3. CASE BeginOpenStream
  BY <1>3 DEF BeginOpenStream, HttpIInv, HttpTypeOK, DeliveredInOrder, OffsetsAgree
<1>4. CASE OpenSucceeds
  <2>1. PICK r \in Responses(req_start) :
          /\ Accepts(req_start, r)
          /\ len' = r.total
          /\ next_offset' = r.start
          /\ end_offset' = r.total
          /\ wire' = r.start
    BY <1>4 DEF OpenSucceeds
  <2>2. r.start = pos /\ r.total \in 0 .. FileLength /\ chunk.n = 0
    BY <1>4, <2>1, AcceptedStart DEF OpenSucceeds, HttpIInv, HttpTypeOK, OffsetsAgree
  <2>3. QED
    BY <1>4, <2>1, <2>2 DEF OpenSucceeds, HttpIInv, HttpTypeOK, DeliveredInOrder, OffsetsAgree
<1>5. CASE OpenFails
  BY <1>5 DEF OpenFails, HttpIInv, HttpTypeOK, DeliveredInOrder, OffsetsAgree
<1>6. ASSUME NEW n \in 1 .. ChunkMax, StreamChunk(n) PROVE HttpIInv'
  BY <1>6 DEF StreamChunk, WithinResponse, PollingBody, HttpIInv, HttpTypeOK,
     DeliveredInOrder, OffsetsAgree
<1>7. ASSUME NEW n \in 1 .. ChunkMax, StreamOverrun(n) PROVE HttpIInv'
  BY <1>7 DEF StreamOverrun, WithinResponse, PollingBody, HttpIInv, HttpTypeOK,
     DeliveredInOrder, OffsetsAgree
<1>8. CASE StreamError
  BY <1>8 DEF StreamError, PollingBody, HttpIInv, HttpTypeOK, DeliveredInOrder, OffsetsAgree
<1>9. CASE StreamEnd
  BY <1>9 DEF StreamEnd, PollingBody, HttpIInv, HttpTypeOK, DeliveredInOrder, OffsetsAgree
<1>10. CASE DropRead
  BY <1>10 DEF DropRead, connVars, HttpIInv, HttpTypeOK, DeliveredInOrder, OffsetsAgree
<1>11. CASE UNCHANGED httpVars
  BY <1>11 DEF httpVars, HttpIInv, HttpTypeOK, DeliveredInOrder, OffsetsAgree
<1>12. QED
  BY <1>1, <1>2, <1>3, <1>4, <1>5, <1>6, <1>7, <1>8, <1>9, <1>10, <1>11 DEF HttpNext

LEMMA HttpInvariance == HttpSpec => []HttpIInv
BY HttpInitIInv, HttpNextIInv, PTL DEF HttpSpec

\* The state of the reader stays within its types.
THEOREM HttpTypeCorrect == HttpSpec => []HttpTypeOK
<1>1. HttpIInv => HttpTypeOK
  BY DEF HttpIInv
<1>2. QED
  BY <1>1, HttpInvariance, PTL

\* The caller has been given the remote file's byte at every offset before pos
\* and at none after, whatever the network did.
THEOREM DeliveryCorrect == HttpSpec => []DeliveredInOrder
<1>1. HttpIInv => DeliveredInOrder
  BY DEF HttpIInv
<1>2. QED
  BY <1>1, HttpInvariance, PTL

\* HttpRead implements the sequential byte reader: poll_read's copy is a
\* delivery and every other step leaves what the caller sees unchanged.
THEOREM HttpRefinement == HttpSpec => ImplementsReader
<1>1. HttpInit => Reader!Init
  BY DEF HttpInit, Reader!Init, Offsets, NoByte, Reader!Offsets, Reader!NoByte
<1>2. HttpIInv /\ [HttpNext]_httpVars => [Reader!Deliver]_<<pos, out>>
  <2> SUFFICES ASSUME HttpIInv, [HttpNext]_httpVars PROVE [Reader!Deliver]_<<pos, out>>
    OBVIOUS
  <2>1. CASE CopyFromPendingChunk
    <3>1. Reader!Deliver
      BY <2>1, CopyIsDelivery DEF Reader!Deliver, Reader!Offsets, Offsets
    <3>2. QED
      BY <3>1
  <2>2. CASE ~CopyFromPendingChunk
    <3>1. UNCHANGED <<pos, out>>
      BY <2>2 DEF HttpNext, httpVars, connVars, BeginRead, BeginOpenStream, OpenSucceeds, OpenFails,
        StreamChunk, StreamOverrun, WithinResponse, StreamError, StreamEnd, DropRead
    <3>2. QED
      BY <3>1
  <2>3. QED
    BY <2>1, <2>2
<1>3. QED
  BY <1>1, <1>2, HttpInvariance, PTL DEF HttpSpec, ImplementsReader, Reader!SequentialSpec
-----------------------------------------------------------------------------
(* HashTreeStream.  The types hold however the stream is used; that only   *)
(* verified hashes are handed out, in order, needs a consumer that does    *)
(* not poll after an error.                                                *)

\* Division of an offset that is given as whole pages and a rest.
LEMMA DivMod ==
  ASSUME NEW q \in Nat, NEW e \in Nat \ {0}, NEW r \in 0 .. e - 1
  PROVE  (q * e + r) \div e = q /\ (q * e + r) % e = r
BY Z3

\* As many hashes as fit in p pages take no more than p pages.
LEMMA PagesBound ==
  ASSUME NEW p \in Nat, Hashes <= p * Entries
  PROVE  Pages <= p
<1> DEFINE n == Hashes + Entries - 1
           d == n \div Entries
<1>1. n \in Nat /\ d \in Nat /\ d * Entries <= n
  BY SizeAssumption, Z3
<1>2. d * Entries <= p * Entries + Entries - 1
  BY <1>1, SizeAssumption
<1>3. d < p + 1
  <2> SUFFICES ASSUME d >= p + 1 PROVE FALSE
    BY <1>1
  <2>1. d * Entries >= (p + 1) * Entries
    BY <1>1, SizeAssumption
  <2>2. (p + 1) * Entries = p * Entries + Entries
    BY SizeAssumption
  <2>3. QED
    BY <1>2, <2>1, <2>2, <1>1, SizeAssumption
<1>4. QED
  BY <1>1, <1>3 DEF Pages
-----------------------------------------------------------------------------
\* The stream stays within its types, also for a consumer that polls after an
\* error: no hash too many is handed out, no entry past the end of a page.
THEOREM TreeTypeCorrect == TreeSpec => []TreeTypeOK
<1>1. TreeInit => TreeTypeOK
  BY SizeAssumption DEF TreeInit, TreeTypeOK, NotYielded, Pages
<1>2. TreeTypeOK /\ [TreeNext]_treeVars => TreeTypeOK'
  <2> SUFFICES ASSUME TreeTypeOK, [TreeNext]_treeVars PROVE TreeTypeOK'
    OBVIOUS
  <2> USE SizeAssumption DEF TreeTypeOK
  <2>1. CASE End
    BY <2>1 DEF End, source
  <2>2. CASE YieldBuffered
    BY <2>2, SizeAssumption DEF YieldBuffered, Buffered, Yield, source
  <2>3. ASSUME NEW k \in 0 .. Parts - 1, ReadPart(k) PROVE TreeTypeOK'
    BY <2>3 DEF ReadPart, PartArrives, Unfinished, source
  <2>4. ASSUME NEW k \in 0 .. Parts - 1, ReaderFails(k) PROVE TreeTypeOK'
    BY <2>4 DEF ReaderFails, PartArrives, Unfinished, source
  <2>5. CASE CompletePage
    BY <2>5 DEF CompletePage, Reading, Yield, source
  <2>6. CASE RejectPage
    BY <2>6 DEF RejectPage, source
  <2>7. CASE UNCHANGED treeVars
    BY <2>7 DEF treeVars, source
  <2>8. QED
    BY <2>1, <2>2, <2>3, <2>4, <2>5, <2>6, <2>7 DEF TreeNext
<1>3. QED
  BY <1>1, <1>2, PTL DEF TreeSpec
-----------------------------------------------------------------------------
Given   == Hashes - remaining
Running == status \in {"item", "pending", "end"}

\* What a running stream knows: the pages read are the pages verified, and the
\* hashes given are those of the pages read, up to next_entry in the last one,
\* which is spent unless the buffer is full.
Progress ==
  /\ read_pages = current_page
  /\ \A p \in 0 .. read_pages - 1 : p \notin corrupt
  /\ read_pages = 0 => Given = 0 /\ filled < Parts
  /\ read_pages > 0 => /\ Given = (read_pages - 1) * Entries + next_entry
                       /\ next_entry \in 1 .. Entries
                       /\ filled < Parts => next_entry = Entries

TreeIInv ==
  /\ TreeTypeOK
  /\ Running => Progress
  /\ InOrder
  /\ OnlyVerifiedYielded
  /\ VerdictIsRight

LEMMA TreeInitIInv == TreeInit => TreeIInv
<1> SUFFICES ASSUME TreeInit PROVE TreeIInv
  OBVIOUS
<1>1. TreeTypeOK
  BY SizeAssumption DEF TreeInit, TreeTypeOK, NotYielded, Pages
<1>2. Progress /\ InOrder /\ VerdictIsRight
  BY SizeAssumption DEF TreeInit, Progress, Given, InOrder, VerdictIsRight
<1>3. OnlyVerifiedYielded
  BY SizeAssumption DEF TreeInit, OnlyVerifiedYielded, NotYielded
<1>4. QED
  BY <1>1, <1>2, <1>3 DEF TreeIInv

\* Handing out entry e of page p, the next in order and of a verified page,
\* preserves what the hashes given satisfy.
LEMMA YieldInOrder ==
  ASSUME TreeIInv, remaining > 0,
         NEW p \in Nat, NEW e \in 0 .. Entries - 1,
         Given = p * Entries + e, p \notin corrupt,
         Yield(p, e), UNCHANGED corrupt
  PROVE  InOrder' /\ OnlyVerifiedYielded'
<1>1. Given \div Entries = p /\ Given % Entries = e
  BY DivMod, SizeAssumption
<1>2. /\ Given \in 0 .. Hashes - 1
      /\ Hashes - remaining' = Given + 1
      /\ yielded' = [yielded EXCEPT ![Given] = [page |-> p, entry |-> e]]
  BY SizeAssumption DEF TreeIInv, TreeTypeOK, Yield, Given
<1>3. ASSUME NEW i \in 0 .. Hashes - 1
      PROVE  yielded'[i] = IF i = Given THEN [page |-> p, entry |-> e] ELSE yielded[i]
  BY <1>2, <1>3 DEF TreeIInv, TreeTypeOK
<1>4. InOrder'
  <2> SUFFICES ASSUME NEW i \in 0 .. Hashes - 1
               PROVE yielded'[i] = IF i < Hashes - remaining'
                                   THEN [page |-> i \div Entries, entry |-> i % Entries]
                                   ELSE NotYielded
    BY DEF InOrder, NotYielded
  <2>1. CASE i = Given
    BY <2>1, <1>1, <1>2, <1>3
  <2>2. CASE i # Given
    <3>1. yielded'[i] = yielded[i] /\ (i < Given + 1 <=> i < Given)
      BY <2>2, <1>2, <1>3
    <3>2. yielded[i] = IF i < Given THEN [page |-> i \div Entries, entry |-> i % Entries]
                       ELSE NotYielded
      BY DEF TreeIInv, InOrder, Given
    <3>3. QED
      BY <3>1, <3>2, <1>2
  <2>3. QED
    BY <2>1, <2>2
<1>5. OnlyVerifiedYielded'
  BY <1>3 DEF TreeIInv, OnlyVerifiedYielded
<1>6. QED
  BY <1>4, <1>5

LEMMA TreeNextIInv == ASSUME ~PollAfterError PROVE TreeIInv /\ [TreeNext]_treeVars => TreeIInv'
<1> SUFFICES ASSUME TreeIInv, [TreeNext]_treeVars PROVE TreeIInv'
  OBVIOUS
<1> USE SizeAssumption
<1>1. CASE End
  <2>1. Progress /\ remaining = 0 /\ status' = "end"
    BY <1>1 DEF End, Polls, TreeIInv, Running
  <2>2. UNCHANGED <<corrupt, avail, filled, read_pages, current_page, remaining, next_entry, yielded>>
    BY <1>1 DEF End, source
  <2>3. read_pages > 0 /\ Hashes = (read_pages - 1) * Entries + next_entry /\ next_entry <= Entries
    BY <2>1 DEF Progress, Given, TreeIInv, TreeTypeOK
  <2>4. Hashes <= read_pages * Entries
    BY <2>3 DEF TreeIInv, TreeTypeOK
  <2>5. Pages <= read_pages
    BY <2>4, PagesBound DEF TreeIInv, TreeTypeOK
  <2>6. corrupt = {}
    BY <2>1, <2>5 DEF Progress, TreeIInv, TreeTypeOK, Pages
  <2>7. QED
    BY <2>1, <2>2, <2>6 DEF TreeIInv, TreeTypeOK, Running, Progress, Given, InOrder,
       OnlyVerifiedYielded, VerdictIsRight
<1>2. CASE YieldBuffered
  <2>1. /\ Progress /\ remaining > 0 /\ filled = Parts /\ next_entry < Entries
        /\ Yield(read_pages - 1, next_entry)
        /\ UNCHANGED <<corrupt, avail, filled, read_pages, current_page>>
    BY <1>2 DEF YieldBuffered, Polls, Buffered, source, TreeIInv, Running
  <2>2. read_pages > 0 /\ read_pages - 1 \in Nat /\ next_entry \in 0 .. Entries - 1
    BY <2>1 DEF Progress, TreeIInv, TreeTypeOK
  <2>3. Given = (read_pages - 1) * Entries + next_entry /\ read_pages - 1 \notin corrupt
    BY <2>1, <2>2 DEF Progress, TreeIInv, TreeTypeOK
  <2>4. InOrder' /\ OnlyVerifiedYielded'
    BY <2>1, <2>2, <2>3, YieldInOrder
  <2>5. TreeTypeOK' /\ VerdictIsRight'
    BY <2>1, <2>2 DEF TreeIInv, TreeTypeOK, VerdictIsRight, Yield
  <2>6. Progress'
    BY <2>1, <2>2, <2>3 DEF Progress, Given, Yield, TreeIInv, TreeTypeOK
  <2>7. QED
    BY <2>4, <2>5, <2>6 DEF TreeIInv
<1>3. ASSUME NEW k \in 0 .. Parts - 1, ReadPart(k) PROVE TreeIInv'
  <2>1. Progress /\ UNCHANGED <<corrupt, avail, read_pages, current_page, remaining, next_entry, yielded>>
    BY <1>3 DEF ReadPart, Reading, Polls, source, TreeIInv, Running
  <2>2. filled' \in 0 .. Parts - 1 /\ status' = "pending" /\ ~Buffered
    BY <1>3 DEF ReadPart, Reading, PartArrives, Unfinished, TreeIInv, TreeTypeOK
  <2>3. QED
    <3>1. Progress'
      BY <2>1, <2>2 DEF TreeIInv, TreeTypeOK, Progress, Given, Buffered
    <3>2. TreeTypeOK'
      BY <2>1, <2>2 DEF TreeIInv, TreeTypeOK
    <3>3. InOrder' /\ OnlyVerifiedYielded' /\ VerdictIsRight'
      BY <2>1, <2>2 DEF TreeIInv, InOrder, OnlyVerifiedYielded, VerdictIsRight
    <3>4. QED
      BY <3>1, <3>2, <3>3 DEF TreeIInv
<1>4. ASSUME NEW k \in 0 .. Parts - 1, ReaderFails(k) PROVE TreeIInv'
  <2>1. filled' \in 0 .. Parts /\ status' = "io_error"
    BY <1>4 DEF ReaderFails, PartArrives, Unfinished, TreeIInv, TreeTypeOK
  <2>2. UNCHANGED <<corrupt, avail, read_pages, current_page, remaining, next_entry, yielded>>
    BY <1>4 DEF ReaderFails, source
  <2>3. QED
    BY <2>1, <2>2 DEF TreeIInv, TreeTypeOK, Running, InOrder, OnlyVerifiedYielded, VerdictIsRight
<1>5. CASE CompletePage
  <2>1. /\ Progress /\ remaining > 0 /\ ~Buffered
        /\ read_pages \notin corrupt
        /\ filled' = Parts /\ read_pages' = read_pages + 1 /\ current_page' = current_page + 1
        /\ Yield(read_pages, 0) /\ UNCHANGED <<corrupt, avail>>
    BY <1>5 DEF CompletePage, VerifyPage, Reading, Polls, source, TreeIInv, Running
  <2>2. Given = read_pages * Entries + 0
    BY <2>1 DEF Progress, Buffered, TreeIInv, TreeTypeOK, Given
  <2>3. InOrder' /\ OnlyVerifiedYielded'
    BY <2>1, <2>2, YieldInOrder DEF TreeIInv, TreeTypeOK
  <2>4. TreeTypeOK' /\ VerdictIsRight'
    BY <2>1 DEF TreeIInv, TreeTypeOK, VerdictIsRight, Yield
  <2>5. Progress'
    BY <2>1, <2>2 DEF Progress, Given, Yield, TreeIInv, TreeTypeOK
  <2>6. QED
    BY <2>3, <2>4, <2>5 DEF TreeIInv
<1>6. CASE RejectPage
  <2>1. Progress /\ read_pages \in corrupt
    BY <1>6 DEF RejectPage, VerifyPage, Reading, Polls, TreeIInv, Running, Progress
  <2>2. /\ read_pages' = read_pages + 1 /\ filled' = Parts /\ status' = "hash_mismatch"
        /\ UNCHANGED <<corrupt, avail, current_page, remaining, next_entry, yielded>>
    BY <1>6 DEF RejectPage, source
  <2>3. QED
    BY <2>1, <2>2 DEF TreeIInv, TreeTypeOK, Running, InOrder, OnlyVerifiedYielded, VerdictIsRight
<1>7. CASE UNCHANGED treeVars
  BY <1>7 DEF treeVars, source, TreeIInv, TreeTypeOK, Running, Progress, Given, InOrder,
     OnlyVerifiedYielded, VerdictIsRight
<1>8. QED
  BY <1>1, <1>2, <1>3, <1>4, <1>5, <1>6, <1>7 DEF TreeNext

LEMMA TreeInvariance == ASSUME ~PollAfterError PROVE TreeSpec => []TreeIInv
BY TreeInitIInv, TreeNextIInv, PTL DEF TreeSpec

\* poll_next never hands out an entry of a page that does not match its hash,
\* for a consumer that keeps the contract of poll_next_page.
THEOREM OnlyVerified == ASSUME ~PollAfterError PROVE TreeSpec => []OnlyVerifiedYielded
<1>1. TreeIInv => OnlyVerifiedYielded
  BY DEF TreeIInv
<1>2. QED
  BY <1>1, TreeInvariance, PTL

\* poll_next hands out the hashes of level 0 in order, without a gap at a page
\* boundary, however the reads split the pages.
THEOREM OrderCorrect == ASSUME ~PollAfterError PROVE TreeSpec => []InOrder
<1>1. TreeIInv => InOrder
  BY DEF TreeIInv
<1>2. QED
  BY <1>1, TreeInvariance, PTL

\* poll_next ends without an error only when every page of the level matches
\* its hash, and reports a mismatch only when one does not.
THEOREM VerdictCorrect == ASSUME ~PollAfterError PROVE TreeSpec => []VerdictIsRight
<1>1. TreeIInv => VerdictIsRight
  BY DEF TreeIInv
<1>2. QED
  BY <1>1, TreeInvariance, PTL
-----------------------------------------------------------------------------
\* A hash handed out by a running stream, the next in order and of a page that
\* matches, is one of the promise's.
LEMMA YieldIsGive ==
  ASSUME TreeIInv, Polls, ~PollAfterError, remaining > 0,
         NEW p \in Nat, NEW e \in 0 .. Entries - 1,
         Given = p * Entries + e, p \notin corrupt,
         Yield(p, e), UNCHANGED corrupt
  PROVE  Promise!Give
<1>1. Promise!PageOf(Given) = p /\ Promise!EntryOf(Given) = e
  BY DivMod, SizeAssumption DEF Promise!PageOf, Promise!EntryOf
<1>2. Verdict = "running" /\ Verdict' = "running"
  BY DEF Polls, Yield, Verdict
<1>3. Given < Hashes /\ Hashes - remaining' = Given + 1
  BY SizeAssumption DEF TreeIInv, TreeTypeOK, Yield, Given
<1>4. QED
  BY <1>1, <1>2, <1>3 DEF Promise!Give, Yield, Given

\* A running stream that has to read a page stands at its first hash.
LEMMA ReadsAtPage ==
  ASSUME TreeIInv, ~PollAfterError, Reading
  PROVE  /\ Given = read_pages * Entries + 0 /\ read_pages \in Nat
         /\ Promise!PageOf(Given) = read_pages /\ Promise!AtPage
<1>1. Progress /\ remaining > 0 /\ ~Buffered /\ read_pages \in Nat
  BY DEF Reading, Polls, TreeIInv, Running, TreeTypeOK
<1>2. Given = read_pages * Entries + 0
  BY <1>1, SizeAssumption DEF Progress, Buffered, TreeIInv, TreeTypeOK, Given
<1>3. Promise!PageOf(Given) = read_pages /\ Promise!EntryOf(Given) = 0
  BY <1>1, <1>2, DivMod, SizeAssumption DEF Promise!PageOf, Promise!EntryOf
<1>4. Verdict = "running" /\ Given < Hashes
  BY <1>1, SizeAssumption DEF Reading, Polls, Verdict, Given, TreeIInv, TreeTypeOK
<1>5. QED
  BY <1>1, <1>2, <1>3, <1>4 DEF Promise!AtPage, Given

\* HashTreeStream implements VerifiedStream: a poll that hands out a hash is a
\* Give, a poll that waits for a part of a page a stutter, and the errors come
\* where a page begins.
THEOREM TreeRefinement == ASSUME ~PollAfterError PROVE TreeSpec => ImplementsStream
<1>1. TreeInit => Promise!Init
  BY SizeAssumption DEF TreeInit, Promise!Init, Promise!NotYielded, NotYielded, Verdict
<1>2. TreeIInv /\ [TreeNext]_treeVars
        => [Promise!Give \/ Promise!End \/ Promise!Mismatch \/ Promise!Break]_
             <<corrupt, Hashes - remaining, yielded, Verdict>>
  <2> SUFFICES ASSUME TreeIInv, [TreeNext]_treeVars
               PROVE  \/ Promise!Give \/ Promise!End \/ Promise!Mismatch \/ Promise!Break
                      \/ UNCHANGED <<corrupt, Hashes - remaining, yielded, Verdict>>
    OBVIOUS
  <2> USE SizeAssumption
  <2>1. CASE End
    <3>1. Hashes - remaining = Hashes /\ Verdict = "running" /\ Verdict' = "end"
      BY <2>1 DEF End, Polls, Verdict
    <3>2. QED
      BY <2>1, <3>1 DEF End, source, Promise!End
  <2>2. CASE YieldBuffered
    <3>1. /\ Polls /\ Progress /\ remaining > 0 /\ filled = Parts /\ next_entry < Entries
          /\ Yield(read_pages - 1, next_entry) /\ UNCHANGED corrupt
      BY <2>2 DEF YieldBuffered, Polls, Buffered, source, TreeIInv, Running
    <3>2. read_pages > 0 /\ read_pages - 1 \in Nat /\ next_entry \in 0 .. Entries - 1
      BY <3>1 DEF Progress, TreeIInv, TreeTypeOK
    <3>3. Given = (read_pages - 1) * Entries + next_entry /\ read_pages - 1 \notin corrupt
      BY <3>1, <3>2 DEF Progress, TreeIInv, TreeTypeOK
    <3>4. QED
      BY <3>1, <3>2, <3>3, YieldIsGive
  <2>3. ASSUME NEW k \in 0 .. Parts - 1, ReadPart(k)
        PROVE  UNCHANGED <<corrupt, Hashes - remaining, yielded, Verdict>>
    BY <2>3 DEF ReadPart, Reading, Polls, Verdict, source
  <2>4. ASSUME NEW k \in 0 .. Parts - 1, ReaderFails(k) PROVE Promise!Break
    <3>1. Promise!AtPage /\ Verdict' = "broken"
      BY <2>4, ReadsAtPage DEF ReaderFails, Verdict
    <3>2. QED
      BY <2>4, <3>1 DEF ReaderFails, source, Promise!Break
  <2>5. CASE CompletePage
    <3>1. Polls /\ Progress /\ remaining > 0 /\ Yield(read_pages, 0) /\ UNCHANGED corrupt
      BY <2>5 DEF CompletePage, Reading, Polls, source, TreeIInv, Running
    <3>2. read_pages \notin corrupt
      BY <2>5 DEF CompletePage, VerifyPage
    <3>3. Given = read_pages * Entries + 0 /\ read_pages \in Nat /\ 0 \in 0 .. Entries - 1
      BY <2>5, ReadsAtPage DEF CompletePage
    <3>4. QED
      BY <3>1, <3>2, <3>3, YieldIsGive
  <2>6. CASE RejectPage
    <3>1. Promise!AtPage /\ Promise!PageOf(Given) = read_pages
      BY <2>6, ReadsAtPage DEF RejectPage
    <3>2. read_pages \in corrupt /\ Verdict' = "mismatch"
      BY <2>6 DEF RejectPage, Reading, Polls, VerifyPage, TreeIInv, Running, Progress, Verdict
    <3>3. QED
      BY <2>6, <3>1, <3>2 DEF RejectPage, source, Promise!Mismatch, Given
  <2>7. CASE UNCHANGED treeVars
    BY <2>7 DEF treeVars, source, Verdict
  <2>8. QED
    BY <2>1, <2>2, <2>3, <2>4, <2>5, <2>6, <2>7 DEF TreeNext
<1>3. QED
  BY <1>1, <1>2, TreeInvariance, PTL DEF TreeSpec, ImplementsStream, Promise!Spec
-----------------------------------------------------------------------------
(* Installer.                                                              *)

\* The control state of a run: what is planned is fixed by the two caches, and
\* the old cache is gone only when every download is done.
RunInv ==
  /\ phase \in {"idle", "parsing"} => plan = {}
  /\ phase # "idle" => target \in Versions
  /\ phase \in {"installing", "removed"} => tmp = target
  /\ phase = "installing" => plan = {f \in FilesOf(target) : ~SameAsInstalled(f)}
  /\ phase = "removed" => finished = plan /\ final = NoVersion

\* What a run has done to the files of its plan.
WorkInv ==
  /\ \A f \in active \cup finished : opened_for[f] = target
  /\ \A f \in finished : disk[f] = Content[target][f]

\* Between the removal of the old cache and the renaming of the new one no
\* cache describes the directory: what then holds of the target.
Reverted(f) == /\ opened_for[f] # NoVersion
               /\ Content[opened_for[f]][f] # Content[target][f]
GapInv ==
  phase = "removed" =>
    \A f \in FilesOf(target) :
      /\ f \notin Unhashed => disk[f] = Content[target][f] \/ Reverted(f)
      /\ crashes = 0 => disk[f] = Content[target][f]

\* While no run was cut short, only the files of the run's own plan may differ
\* from what the kept cache describes.
UncutInv == crashes = 0 => \A f \in Files \ (active \cup finished) : ~Stale(f)

InstallIInv == TypeOK /\ RunInv /\ WorkInv /\ GapInv /\ UncutInv /\ StaleOnlyIfReverted

LEMMA InstallInitIInv == Init => InstallIInv
<1> SUFFICES ASSUME Init PROVE InstallIInv
  OBVIOUS
<1>1. TypeOK
  BY ContentAssumption, BoundsAssumption, FS_EmptySet DEF Init, TypeOK
<1>2. QED
  BY <1>1 DEF Init, InstallIInv, RunInv, WorkInv, GapInv, UncutInv, Stale, StaleOnlyIfReverted

\* Starting and finishing a download keep the number of open files in bounds.
LEMMA InstallNextTypeOK == TypeOK /\ RunInv /\ [Next]_vars => TypeOK'
<1> SUFFICES ASSUME TypeOK, RunInv, [Next]_vars PROVE TypeOK'
  OBVIOUS
<1> USE ContentAssumption, BoundsAssumption DEF TypeOK
<1>0. IsFiniteSet(active)
  BY FS_Subset
<1>1. ASSUME NEW v \in Versions, Publish(v) PROVE TypeOK'
  BY <1>1 DEF Publish, runVars, dirVars
<1>2. CASE Start
  BY <1>2 DEF Start
<1>3. CASE Plan
  <2>1. plan' \subseteq Files /\ active = {} /\ finished = {} /\ target \in Versions
    BY <1>3 DEF Plan, FilesOf, RunInv
  <2>2. QED
    BY <1>3, <2>1 DEF Plan
<1>4. CASE Decline
  BY <1>4 DEF Decline, RunInv
<1>5. ASSUME NEW f \in Files, StartFile(f) PROVE TypeOK'
  <2>1. Cardinality(active \cup {f}) = Cardinality(active) + 1 /\ Cardinality(active) \in Nat
    BY <1>0, <1>5, FS_AddElement, FS_CardinalityType DEF StartFile, MayStart
  <2>2. Cardinality(active') <= Parallel
    BY <1>5, <2>1 DEF StartFile, MayStart
  <2>3. active' \subseteq plan' /\ finished' \subseteq plan' \ active'
    BY <1>5 DEF StartFile, MayStart
  <2>4. disk' \in [Files -> Contents \cup {Missing, Partial}]
    BY <1>5 DEF StartFile
  <2>5. opened_for' \in [Files -> Versions \cup {NoVersion}]
    BY <1>5 DEF StartFile
  <2>6. QED
    BY <1>5, <2>2, <2>3, <2>4, <2>5 DEF StartFile
<1>6. ASSUME NEW f \in Files, FinishFile(f) PROVE TypeOK'
  <2>1. Cardinality(active \ {f}) <= Cardinality(active) /\ Cardinality(active) \in Nat
        /\ Cardinality(active \ {f}) \in Nat
    BY <1>0, FS_RemoveElement, FS_CardinalityType, FS_Subset
  <2>2. Cardinality(active') <= Parallel
    BY <1>6, <2>1 DEF FinishFile
  <2>3. active' \subseteq plan' /\ finished' \subseteq plan' \ active'
    BY <1>6 DEF FinishFile
  <2>4. target \in Versions
    BY <1>6 DEF FinishFile, RunInv
  <2>5. disk' \in [Files -> Contents \cup {Missing, Partial}]
    BY <1>6, <2>4 DEF FinishFile
  <2>6. QED
    BY <1>6, <2>2, <2>3, <2>5 DEF FinishFile
<1>7. CASE RemoveFinal
  BY <1>7 DEF RemoveFinal
<1>8. CASE Rename
  BY <1>8, FS_EmptySet DEF Rename
<1>9. CASE Crash
  BY <1>9, FS_EmptySet DEF Crash, dirVars
<1>10. CASE UNCHANGED vars
  BY <1>10 DEF vars, runVars, dirVars
<1>11. QED
  BY <1>1, <1>2, <1>3, <1>4, <1>5, <1>6, <1>7, <1>8, <1>9, <1>10 DEF Next

LEMMA InstallNextIInv == InstallIInv /\ [Next]_vars => InstallIInv'
<1> SUFFICES ASSUME InstallIInv, [Next]_vars PROVE InstallIInv'
  OBVIOUS
<1> USE ContentAssumption DEF InstallIInv
<1>0. TypeOK'
  BY InstallNextTypeOK
<1>1. ASSUME NEW v \in Versions, Publish(v) PROVE InstallIInv'
  BY <1>0, <1>1 DEF Publish, runVars, dirVars, RunInv, WorkInv, GapInv, UncutInv, Stale,
     StaleOnlyIfReverted, Reverted, FilesOf, SameAsInstalled
<1>2. CASE Start
  <2>1. active = {} /\ finished = {} /\ plan = {}
    BY <1>2 DEF Start, RunInv, TypeOK
  <2>2. QED
    BY <1>0, <1>2, <2>1 DEF Start, RunInv, WorkInv, GapInv, UncutInv, Stale, StaleOnlyIfReverted,
       TypeOK
<1>3. CASE Plan
  <2>1. active = {} /\ finished = {} /\ target \in Versions
    BY <1>3 DEF Plan, RunInv, TypeOK
  <2>2. RunInv'
    BY <1>3, <2>1 DEF Plan, RunInv, SameAsInstalled, FilesOf
  <2>3. WorkInv' /\ GapInv' /\ UncutInv' /\ StaleOnlyIfReverted'
    BY <1>3, <2>1 DEF Plan, WorkInv, GapInv, UncutInv, Stale, StaleOnlyIfReverted
  <2>4. QED
    BY <1>0, <2>2, <2>3
<1>4. CASE Decline
  <2>1. active = {} /\ finished = {} /\ plan = {}
    BY <1>4 DEF Decline, RunInv, TypeOK
  <2>2. QED
    BY <1>0, <1>4, <2>1 DEF Decline, RunInv, WorkInv, GapInv, UncutInv, Stale, StaleOnlyIfReverted
<1>5. ASSUME NEW f \in Files, StartFile(f) PROVE InstallIInv'
  <2>1. /\ phase = "installing" /\ phase' = "installing"
        /\ f \in plan /\ f \notin finished
        /\ active' = active \cup {f}
        /\ disk' = [disk EXCEPT ![f] = Partial]
        /\ opened_for' = [opened_for EXCEPT ![f] = target]
        /\ UNCHANGED <<target, plan, finished, final, tmp, crashes>>
    BY <1>5 DEF StartFile, MayStart
  <2>2. target \in Versions /\ ~SameAsInstalled(f)
    BY <2>1 DEF RunInv
  <2>3. \A g \in Files : g # f => disk'[g] = disk[g] /\ opened_for'[g] = opened_for[g]
    BY <2>1 DEF TypeOK
  <2>4. opened_for'[f] = target
    BY <2>1 DEF TypeOK
  <2>5. RunInv'
    BY <2>1 DEF RunInv, FilesOf, SameAsInstalled
  <2>6. WorkInv'
    BY <2>1, <2>3, <2>4 DEF WorkInv, TypeOK
  <2>7. GapInv'
    BY <2>1 DEF GapInv
  <2>8. UncutInv'
    BY <2>1, <2>3 DEF UncutInv, Stale, FilesOf
  <2>9. StaleOnlyIfReverted'
    <3> SUFFICES ASSUME NEW g \in Files \ Unhashed, Stale(g)'
                 PROVE  opened_for'[g] # NoVersion /\ Content[opened_for'[g]][g] # Content[final'][g]
      BY DEF StaleOnlyIfReverted
    <3>1. CASE g = f
      BY <3>1, <2>1, <2>2, <2>4 DEF SameAsInstalled, Stale
    <3>2. CASE g # f
      BY <3>2, <2>1, <2>3 DEF StaleOnlyIfReverted, Stale, FilesOf
    <3>3. QED
      BY <3>1, <3>2
  <2>10. QED
    BY <1>0, <2>5, <2>6, <2>7, <2>8, <2>9
<1>6. ASSUME NEW f \in Files, FinishFile(f) PROVE InstallIInv'
  <2>1. /\ phase = "installing" /\ phase' = "installing"
        /\ f \in active /\ f \in plan
        /\ active' = active \ {f} /\ finished' = finished \cup {f}
        /\ disk' = [disk EXCEPT ![f] = Content[target][f]]
        /\ UNCHANGED <<target, plan, opened_for, final, tmp, crashes>>
    BY <1>6 DEF FinishFile, TypeOK
  <2>2. target \in Versions /\ ~SameAsInstalled(f) /\ opened_for[f] = target
    BY <2>1 DEF RunInv, WorkInv
  <2>3. \A g \in Files : g # f => disk'[g] = disk[g]
    BY <2>1 DEF TypeOK
  <2>4. disk'[f] = Content[target][f]
    BY <2>1 DEF TypeOK
  <2>5. RunInv'
    BY <2>1 DEF RunInv, FilesOf, SameAsInstalled
  <2>6. WorkInv'
    BY <2>1, <2>3, <2>4 DEF WorkInv, TypeOK
  <2>7. GapInv'
    BY <2>1 DEF GapInv
  <2>8. UncutInv'
    BY <2>1, <2>3 DEF UncutInv, Stale, FilesOf
  <2>9. StaleOnlyIfReverted'
    <3> SUFFICES ASSUME NEW g \in Files \ Unhashed, Stale(g)'
                 PROVE  opened_for'[g] # NoVersion /\ Content[opened_for'[g]][g] # Content[final'][g]
      BY DEF StaleOnlyIfReverted
    <3>1. CASE g = f
      BY <3>1, <2>1, <2>2 DEF SameAsInstalled, Stale
    <3>2. CASE g # f
      BY <3>2, <2>1, <2>3 DEF StaleOnlyIfReverted, Stale, FilesOf
    <3>3. QED
      BY <3>1, <3>2
  <2>10. QED
    BY <1>0, <2>5, <2>6, <2>7, <2>8, <2>9
<1>7. CASE RemoveFinal
  <2>1. /\ phase = "installing" /\ phase' = "removed" /\ finished = plan /\ final' = NoVersion
        /\ UNCHANGED <<target, plan, active, finished, disk, tmp, opened_for, crashes>>
    BY <1>7 DEF RemoveFinal, AllDone
  <2>2. RunInv' /\ WorkInv' /\ UncutInv' /\ StaleOnlyIfReverted'
    BY <2>1 DEF RunInv, WorkInv, UncutInv, StaleOnlyIfReverted, Stale
  <2>3. GapInv'
    <3> SUFFICES ASSUME NEW f \in FilesOf(target)
                 PROVE  /\ f \notin Unhashed => disk[f] = Content[target][f] \/ Reverted(f)
                        /\ crashes = 0 => disk[f] = Content[target][f]
      BY <2>1 DEF GapInv, Reverted, FilesOf
    <3>1. CASE f \in plan
      BY <3>1, <2>1 DEF WorkInv
    <3>2. CASE f \notin plan
      <4>1. SameAsInstalled(f) /\ f \in Files /\ f \notin active \cup finished
        BY <3>2, <2>1 DEF RunInv, FilesOf, TypeOK
      <4>2. Stale(f) \/ disk[f] = Content[target][f]
        BY <4>1 DEF SameAsInstalled, Stale, FilesOf
      <4>3. f \notin Unhashed /\ Stale(f) => Reverted(f)
        BY <4>1 DEF StaleOnlyIfReverted, Reverted, SameAsInstalled
      <4>4. crashes = 0 => ~Stale(f)
        BY <4>1 DEF UncutInv
      <4>5. QED
        BY <4>2, <4>3, <4>4, <4>1 DEF SameAsInstalled
    <3>3. QED
      BY <3>1, <3>2
  <2>4. QED
    BY <1>0, <2>2, <2>3
<1>8. CASE Rename
  <2>1. /\ phase = "removed" /\ phase' = "idle" /\ final' = target
        /\ plan' = {} /\ active' = {} /\ finished' = {}
        /\ UNCHANGED <<disk, opened_for, crashes>>
    BY <1>8 DEF Rename, RunInv
  <2>2. RunInv' /\ WorkInv' /\ GapInv'
    BY <2>1 DEF RunInv, WorkInv, GapInv
  <2>3. UncutInv' /\ StaleOnlyIfReverted'
    BY <2>1 DEF UncutInv, StaleOnlyIfReverted, Stale, GapInv, Reverted, FilesOf
  <2>4. QED
    BY <1>0, <2>2, <2>3
<1>9. CASE Crash
  <2>1. /\ phase' = "idle" /\ crashes' # 0
        /\ plan' = {} /\ active' = {} /\ finished' = {}
        /\ UNCHANGED <<disk, final, opened_for>>
    BY <1>9 DEF Crash, dirVars, TypeOK
  <2>2. QED
    BY <1>0, <2>1 DEF RunInv, WorkInv, GapInv, UncutInv, StaleOnlyIfReverted, Stale
<1>10. CASE UNCHANGED vars
  BY <1>0, <1>10 DEF vars, runVars, dirVars, RunInv, WorkInv, GapInv, UncutInv, Stale,
     StaleOnlyIfReverted, Reverted, FilesOf, SameAsInstalled
<1>11. QED
  BY <1>1, <1>2, <1>3, <1>4, <1>5, <1>6, <1>7, <1>8, <1>9, <1>10 DEF Next

LEMMA InstallInvariance == Spec => []InstallIInv
BY InstallInitIInv, InstallNextIInv, PTL DEF Spec

\* The installer stays within its types; no more than --parallel downloads are
\* open at a time.
THEOREM InstallTypeCorrect == Spec => []TypeOK
<1>1. InstallIInv => TypeOK
  BY DEF InstallIInv
<1>2. QED
  BY <1>1, InstallInvariance, PTL

\* While no run was cut short, between runs the directory holds what the kept
\* cache describes.
THEOREM DirectoryCorrect == Spec => []InstalledAsDescribed
<1>1. InstallIInv => InstalledAsDescribed
  <2> SUFFICES ASSUME InstallIInv, crashes = 0, phase = "idle", NEW f \in Files PROVE ~Stale(f)
    BY DEF InstalledAsDescribed
  <2>1. active = {} /\ finished = {}
    BY DEF InstallIInv, RunInv, TypeOK
  <2>2. QED
    BY <2>1 DEF InstallIInv, UncutInv
<1>2. QED
  BY <1>1, InstallInvariance, PTL

\* After any runs cut short, only a version that takes back a change leaves a
\* hashed file stale.
THEOREM StaleCorrect == Spec => []StaleOnlyIfReverted
<1>1. InstallIInv => StaleOnlyIfReverted
  BY DEF InstallIInv
<1>2. QED
  BY <1>1, InstallInvariance, PTL
-----------------------------------------------------------------------------
\* Without a new version at the url there is only one that anything is of.
OneVersion ==
  /\ target \in {NoVersion, remote} /\ final \in {NoVersion, remote} /\ tmp \in {NoVersion, remote}
  /\ \A f \in Files : opened_for[f] \in {NoVersion, remote}

LEMMA OneVersionInit == Init => OneVersion
BY DEF Init, OneVersion

LEMMA OneVersionStep ==
  ASSUME TypeOK, OneVersion, [Next]_vars, remote' = remote
  PROVE  OneVersion'
<1> USE DEF OneVersion
<1>1. ASSUME NEW v \in Versions, Publish(v) PROVE OneVersion'
  BY <1>1 DEF Publish, runVars, dirVars
<1>2. CASE Start
  BY <1>2 DEF Start
<1>3. CASE Plan \/ Decline
  BY <1>3 DEF Plan, Decline
<1>4. ASSUME NEW f \in Files, StartFile(f) PROVE OneVersion'
  <2>1. \A g \in Files : opened_for'[g] \in {opened_for[g], target}
    BY <1>4 DEF StartFile, TypeOK
  <2>2. QED
    BY <1>4, <2>1 DEF StartFile
<1>5. ASSUME NEW f \in Files, FinishFile(f) PROVE OneVersion'
  BY <1>5 DEF FinishFile
<1>6. CASE RemoveFinal \/ Rename
  BY <1>6 DEF RemoveFinal, Rename
<1>7. CASE Crash
  BY <1>7 DEF Crash, dirVars
<1>8. CASE UNCHANGED vars
  BY <1>8 DEF vars, runVars, dirVars
<1>9. QED
  BY <1>1, <1>2, <1>3, <1>4, <1>5, <1>6, <1>7, <1>8 DEF Next

\* Running the installer again repairs the directory: while the package at the
\* url stays the same, every hashed file that the kept cache describes is there
\* in full, wherever earlier runs were cut short.
THEOREM Repaired == Spec /\ [][remote' = remote]_vars => []NothingStale
<1>1. InstallIInv /\ OneVersion => NothingStale
  BY DEF InstallIInv, OneVersion, NothingStale, StaleOnlyIfReverted, Stale
<1>2. Init => InstallIInv /\ OneVersion
  BY InstallInitIInv, OneVersionInit
<1>3. InstallIInv /\ OneVersion /\ [Next]_vars /\ [remote' = remote]_vars => InstallIInv' /\ OneVersion'
  <2> SUFFICES ASSUME InstallIInv, OneVersion, [Next]_vars, [remote' = remote]_vars
               PROVE  InstallIInv' /\ OneVersion'
    OBVIOUS
  <2>1. remote' = remote
    BY DEF vars
  <2>2. QED
    BY <2>1, InstallNextIInv, OneVersionStep DEF InstallIInv
<1>4. QED
  BY <1>1, <1>2, <1>3, PTL DEF Spec

\* An update writes only files that changed since the installed version, or of
\* which it cannot know: what is planned stays what the two caches say until the
\* last download is done.
THEOREM UpdateIsMinimal == Spec => OnlyChangedWritten
<1> DEFINE Step == \A f \in Files : disk'[f] # disk[f] =>
                     /\ f \in FilesOf(target)
                     /\ final = NoVersion \/ f \in Unhashed \/ Content[final][f] # Content[target][f]
<1>1. InstallIInv /\ [Next]_vars => [Step]_vars
  <2> SUFFICES ASSUME InstallIInv, Next PROVE Step
    OBVIOUS
  <2>1. ASSUME NEW f \in Files, StartFile(f) \/ FinishFile(f)
        PROVE  Step
    <3>1. f \in plan /\ phase = "installing"
      BY <2>1 DEF StartFile, FinishFile, MayStart, InstallIInv, TypeOK
    <3>2. /\ f \in FilesOf(target)
          /\ final = NoVersion \/ f \in Unhashed \/ Content[final][f] # Content[target][f]
      BY <3>1 DEF InstallIInv, RunInv, SameAsInstalled
    <3>3. \A g \in Files \ {f} : disk'[g] = disk[g]
      BY <2>1 DEF StartFile, FinishFile, InstallIInv, TypeOK
    <3>4. QED
      BY <3>2, <3>3
  <2>2. CASE \/ \E v \in Versions : Publish(v)
             \/ Start \/ Plan \/ Decline \/ RemoveFinal \/ Rename \/ Crash
    BY <2>2 DEF Publish, Start, Plan, Decline, RemoveFinal, Rename, Crash, dirVars
  <2>3. QED
    BY <2>1, <2>2 DEF Next
<1> HIDE DEF Step
<1>2. QED
  BY <1>1, InstallInvariance, PTL DEF Spec, OnlyChangedWritten, Step
=============================================================================
