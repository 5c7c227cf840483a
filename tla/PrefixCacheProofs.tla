-------------------------- MODULE PrefixCacheProofs --------------------------
(***************************************************************************)
(* Proofs about PrefixCache, for every length of the file and every bound  *)
(* on upstream reads, cache writes and buffers, with a disk that may fail. *)
(***************************************************************************)
EXTENDS PrefixCache, TLAPS

\* A cache read that is under way reads where the caller stands.
ReaderAtPos == cache_read = "Reading" => rpos = pos /\ want > 0

\* The writer's bookkeeping: it never has to seek, and bytes that a failed
\* write left behind are with no thread.
WriterAtEnd == cache_write_pos = cached_len /\ (write_failed => inflight.n = 0)

\* The caller was only ever given the remote file's bytes.
DeliveredRight == \A o \in Offsets : out[o] \in {NoByte, o}

\* CacheIsPrefix alone is not inductive: what a thread will write is right
\* only because NoByteLost ties inflight to the end of the file.
IInv == /\ TypeOK
        /\ CacheIsPrefix
        /\ NoByteLost
        /\ ReaderAtPos
        /\ WriterAtEnd
        /\ DeliveredRight

LEMMA InitIInv == Init => IInv
<1> SUFFICES ASSUME Init PROVE IInv
  OBVIOUS
<1>1. TypeOK
  <2>1. write_failed \in BOOLEAN /\ err \in Errors
    BY DEF Init, Errors
  <2>2. chunk \in Runs /\ inflight \in Runs
    BY DEF Init, Runs, NoBytes
  <2>3. file \in [Offsets -> Offsets \cup {NoByte}] /\ out \in [Offsets -> Offsets \cup {NoByte}]
    BY DEF Init
  <2>4. QED
    BY <2>1, <2>2, <2>3, LenAssumption, BoundsAssumption DEF Init, TypeOK
<1>2. CacheIsPrefix /\ NoByteLost
  BY LenAssumption DEF Init, CacheIsPrefix, NoByteLost, NoBytes, Offsets
<1>3. ReaderAtPos /\ WriterAtEnd /\ DeliveredRight
  BY DEF Init, ReaderAtPos, WriterAtEnd, DeliveredRight, NoBytes
<1>4. QED
  BY <1>1, <1>2, <1>3 DEF IInv

\* A cache read hands over bytes of the remote file at their own offsets.
LEMMA CacheReadIsDelivery ==
  ASSUME IInv, CacheReadDone
  PROVE  \E k \in 1 .. Len - pos :
           /\ k <= want /\ rpos + k <= size
           /\ pos' = pos + k
           /\ rpos' = rpos + k
           /\ want' \in {0, want - k}
           /\ out' = [o \in Offsets |-> IF o \in pos .. pos + k - 1 THEN o ELSE out[o]]
<1> DEFINE k == Min2(want, size - rpos)
<1>1. /\ pos \in 0 .. Len /\ want \in Nat /\ size \in 0 .. Len
      /\ rpos = pos /\ want > 0 /\ size > rpos
  BY BoundsAssumption, LenAssumption DEF IInv, TypeOK, ReaderAtPos, CacheReadDone
<1>2. k \in 1 .. Len - pos /\ k <= want /\ rpos + k <= size
  BY <1>1, LenAssumption DEF Min2
<1>3. /\ pos' = pos + k
      /\ rpos' = rpos + k
      /\ want' \in {0, IF pos + k < Len THEN want - k ELSE 0}
      /\ out' = [o \in Offsets |-> IF o \in pos .. pos + k - 1
                                   THEN file[rpos + (o - pos)] ELSE out[o]]
  BY DEF CacheReadDone
<1>4. ASSUME NEW o \in Offsets, o \in pos .. pos + k - 1
      PROVE  file[rpos + (o - pos)] = o
  <2>1. rpos + (o - pos) = o /\ o < size
    BY <1>1, <1>2, <1>4, LenAssumption DEF Offsets
  <2>2. file[o] = o
    BY <2>1 DEF IInv, CacheIsPrefix
  <2>3. QED
    BY <2>1, <2>2
<1>5. out' = [o \in Offsets |-> IF o \in pos .. pos + k - 1 THEN o ELSE out[o]]
  BY <1>3, <1>4
<1>6. QED
  BY <1>2, <1>3, <1>5

\* What a blocking thread writes extends the prefix that the file holds.
LEMMA WriteExtendsPrefix ==
  ASSUME IInv, NEW k \in 1 .. WriteMax, WriteReachesFile(k)
  PROVE  /\ size' = size + k /\ size + k <= cached_len
         /\ inflight' = [src |-> size + k, n |-> inflight.n - k]
         /\ inflight.n - k \in Nat
         /\ \A o \in Offsets : file'[o] = IF o < size + k THEN o ELSE NoByte
<1> USE LenAssumption, BoundsAssumption
<1>1. /\ size \in 0 .. Len /\ inflight \in Runs /\ inflight.n > 0 /\ k <= inflight.n
      /\ cached_len \in 0 .. Len /\ inflight.src = size /\ size + inflight.n <= cached_len
  BY DEF IInv, TypeOK, NoByteLost, WriteReachesFile, Runs
<1>2. /\ file' = Put(file, size, inflight.src, k)
      /\ size' = size + k
      /\ inflight' = [src |-> inflight.src + k, n |-> inflight.n - k]
  BY DEF WriteReachesFile
<1>3. inflight.n \in Nat
  BY <1>1 DEF Runs
<1>4. \A o \in Offsets : file'[o] = IF o < size + k THEN o ELSE NoByte
  BY <1>1, <1>2 DEF IInv, CacheIsPrefix, Put, Offsets
<1>5. QED
  BY <1>1, <1>2, <1>3, <1>4

LEMMA NextIInv == IInv /\ [Next]_vars => IInv'
<1> SUFFICES ASSUME IInv, [Next]_vars PROVE IInv'
  OBVIOUS
<1> USE LenAssumption, BoundsAssumption
<1> USE DEF IInv, cacheVars, diskVars, callVars, readerVars
<1>1. ASSUME NEW n \in 1 .. BufMax, BeginRead(n) PROVE IInv'
  BY <1>1 DEF BeginRead, TypeOK, CacheIsPrefix, NoByteLost, ReaderAtPos, WriterAtEnd,
              DeliveredRight
<1>2. CASE StartCacheRead
  BY <1>2 DEF StartCacheRead, TypeOK, CacheIsPrefix, NoByteLost, ReaderAtPos, WriterAtEnd,
              DeliveredRight
<1>3. CASE CacheReadDone
  <2>1. PICK k \in 1 .. Len - pos :
           /\ k <= want /\ rpos + k <= size
           /\ pos' = pos + k
           /\ rpos' = rpos + k
           /\ want' \in {0, want - k}
           /\ out' = [o \in Offsets |-> IF o \in pos .. pos + k - 1 THEN o ELSE out[o]]
    BY <1>3, CacheReadIsDelivery
  <2>2. cache_read' = "Idle" /\ UNCHANGED <<cacheVars, diskVars, err>>
    BY <1>3 DEF CacheReadDone
  <2>3. TypeOK'
    BY <2>1, <2>2 DEF TypeOK, Offsets, NoByte
  <2>4. (CacheIsPrefix /\ NoByteLost /\ ReaderAtPos /\ WriterAtEnd)'
    BY <2>2 DEF CacheIsPrefix, NoByteLost, ReaderAtPos, WriterAtEnd
  <2>5. DeliveredRight'
    BY <2>1 DEF DeliveredRight, Offsets, NoByte
  <2>6. QED
    BY <2>3, <2>4, <2>5
<1>4. CASE CacheReadEmpty
  BY <1>4 DEF CacheReadEmpty, TypeOK, CacheIsPrefix, NoByteLost, ReaderAtPos, WriterAtEnd,
              DeliveredRight, Errors
<1>5. CASE FlushPendingChunk
  <2> DEFINE k == Min2(chunk.n, WriteMax)
  <2>1. /\ inflight' = [src |-> chunk.src, n |-> k]
        /\ chunk' = [src |-> chunk.src + k, n |-> chunk.n - k]
        /\ cached_len' = cached_len + k
        /\ cache_write_pos' = cache_write_pos + k
        /\ cache_write' = IF k = chunk.n THEN "Idle" ELSE "Writing"
        /\ UNCHANGED <<callVars, readerVars, up, file, size, write_failed>>
        /\ chunk.n > 0 /\ inflight.n = 0 /\ ~write_failed /\ err = "none"
        /\ cache_read = "Idle"
    BY <1>5 DEF FlushPendingChunk, WriterReady, Filling
  <2>2. chunk.n \in Nat /\ chunk.src \in Nat
    BY DEF TypeOK, Runs
  <2>3. k \in 1 .. chunk.n /\ k \in Nat /\ chunk.n - k \in Nat
    BY <2>1, <2>2 DEF Min2
  <2>4. /\ chunk.src = cached_len /\ up = cached_len + chunk.n /\ size = cached_len
        /\ cached_len \in 0 .. Len /\ up \in 0 .. Len
    BY <2>1, <2>2 DEF TypeOK, NoByteLost, Runs
  <2>5. TypeOK'
    <3> HIDE DEF k
    <3>1. cached_len + k \in 0 .. Len
      BY <2>2, <2>3, <2>4
    <3>2. inflight' \in Runs /\ chunk' \in Runs
      BY <2>1, <2>2, <2>3 DEF Runs
    <3>3. QED
      BY <2>1, <3>1, <3>2 DEF TypeOK, WriterAtEnd
  <2>6. (CacheIsPrefix /\ ReaderAtPos /\ DeliveredRight)'
    <3> HIDE DEF k
    <3>1. QED
      BY <2>1, <2>3, <2>4 DEF CacheIsPrefix, ReaderAtPos, DeliveredRight
  <2>7. (NoByteLost /\ WriterAtEnd)'
    <3> HIDE DEF k
    <3>1. QED
      BY <2>1, <2>2, <2>3, <2>4 DEF NoByteLost, WriterAtEnd
  <2>8. QED
    BY <2>5, <2>6, <2>7
<1>6. CASE FlushFails
  BY <1>6 DEF FlushFails, WriterReady, Filling, TypeOK, CacheIsPrefix, NoByteLost, ReaderAtPos,
              WriterAtEnd, DeliveredRight, Errors
<1>7. ASSUME NEW n \in 1 .. FillMax, FillFromUpstream(n) PROVE IInv'
  <2>1. TypeOK'
    BY <1>7 DEF FillFromUpstream, Filling, TypeOK, Runs
  <2>2. (CacheIsPrefix /\ ReaderAtPos /\ DeliveredRight /\ WriterAtEnd)'
    BY <1>7 DEF FillFromUpstream, Filling, CacheIsPrefix, ReaderAtPos, DeliveredRight, WriterAtEnd
  <2>3. NoByteLost'
    BY <1>7 DEF FillFromUpstream, Filling, NoByteLost, TypeOK, Runs
  <2>4. QED
    BY <2>1, <2>2, <2>3
<1>8. CASE UpstreamFails
  BY <1>8 DEF UpstreamFails, Filling, TypeOK, CacheIsPrefix, NoByteLost, ReaderAtPos, WriterAtEnd,
              DeliveredRight, Errors
<1>9. ASSUME NEW p \in 0 .. Len + 1, SeekTo(p) PROVE IInv'
  BY <1>9 DEF SeekTo, TypeOK, CacheIsPrefix, NoByteLost, ReaderAtPos, WriterAtEnd, DeliveredRight
<1>10. CASE SeekFails
  BY <1>10 DEF SeekFails, TypeOK, CacheIsPrefix, NoByteLost, ReaderAtPos, WriterAtEnd,
               DeliveredRight, Errors
<1>11. CASE DropRead
  BY <1>11 DEF DropRead, Filling, TypeOK, CacheIsPrefix, NoByteLost, ReaderAtPos, WriterAtEnd,
               DeliveredRight
<1>12. ASSUME NEW k \in 1 .. WriteMax, WriteReachesFile(k) PROVE IInv'
  <2>1. /\ size' = size + k /\ size + k <= cached_len
        /\ inflight' = [src |-> size + k, n |-> inflight.n - k]
        /\ inflight.n - k \in Nat
        /\ \A o \in Offsets : file'[o] = IF o < size + k THEN o ELSE NoByte
    BY <1>12, WriteExtendsPrefix
  <2>2. UNCHANGED <<cacheVars, callVars, readerVars, write_failed>> /\ inflight.n > 0
    BY <1>12 DEF WriteReachesFile, TypeOK, Runs
  <2>3. file' \in [Offsets -> Offsets \cup {NoByte}]
    BY <1>12, <2>1 DEF WriteReachesFile, Put
  <2>4. TypeOK'
    BY <2>1, <2>2, <2>3 DEF TypeOK, Runs
  <2>5. (CacheIsPrefix /\ ReaderAtPos /\ DeliveredRight)'
    BY <2>1, <2>2 DEF CacheIsPrefix, ReaderAtPos, DeliveredRight
  <2>6. (NoByteLost /\ WriterAtEnd)'
    BY <2>1, <2>2 DEF NoByteLost, WriterAtEnd, TypeOK, Runs
  <2>7. QED
    BY <2>4, <2>5, <2>6
<1>13. CASE WriteFails
  BY <1>13 DEF WriteFails, NoBytes, TypeOK, Runs, CacheIsPrefix, NoByteLost, ReaderAtPos,
               WriterAtEnd, DeliveredRight
<1>14. CASE UNCHANGED vars
  BY <1>14 DEF vars, TypeOK, CacheIsPrefix, NoByteLost, ReaderAtPos, WriterAtEnd, DeliveredRight
<1>15. QED
  BY <1>1, <1>2, <1>3, <1>4, <1>5, <1>6, <1>7, <1>8, <1>9, <1>10, <1>11, <1>12, <1>13, <1>14
     DEF Next

LEMMA Invariance == Spec => []IInv
BY InitIInv, NextIInv, PTL DEF Spec

\* The state of the cached reader stays within its types.
THEOREM TypeCorrect == Spec => []TypeOK
<1>1. IInv => TypeOK
  BY DEF IInv
<1>2. QED
  BY <1>1, Invariance, PTL

\* The cache file never holds a byte at the wrong offset, whatever writes fail.
THEOREM CacheCorrect == Spec => []CacheIsPrefix
<1>1. IInv => CacheIsPrefix
  BY DEF IInv
<1>2. QED
  BY <1>1, Invariance, PTL

\* Between upstream and the file every byte is in one place, and in order.
THEOREM Conservation == Spec => []NoByteLost
<1>1. IInv => NoByteLost
  BY DEF IInv
<1>2. QED
  BY <1>1, Invariance, PTL

\* PrefixCacheFile implements the seekable byte reader: a cache read is a
\* delivery, a seek a seek, and no other step shows.
THEOREM Refinement == Spec => ImplementsReader
<1>1. Init => Reader!Init
  BY DEF Init, Reader!Init, Offsets, NoByte, Reader!Offsets, Reader!NoByte
<1>2. IInv /\ [Next]_vars => [Reader!Deliver \/ Reader!Seek]_<<pos, out>>
  <2> SUFFICES ASSUME IInv, [Next]_vars
               PROVE  Reader!Deliver \/ Reader!Seek \/ UNCHANGED <<pos, out>>
    OBVIOUS
  <2>1. CASE CacheReadDone
    BY <2>1, CacheReadIsDelivery DEF Reader!Deliver, Reader!Offsets, Offsets
  <2>2. ASSUME NEW p \in 0 .. Len + 1, SeekTo(p) PROVE Reader!Seek
    BY <2>2, LenAssumption DEF SeekTo, Reader!Seek, callVars
  <2>3. CASE ~CacheReadDone /\ ~(\E p \in 0 .. Len + 1 : SeekTo(p))
    BY <2>3 DEF Next, vars, callVars, cacheVars, diskVars, readerVars, BeginRead,
      StartCacheRead, CacheReadEmpty, FlushPendingChunk, FlushFails, FillFromUpstream,
      UpstreamFails, SeekFails, DropRead, WriteReachesFile, WriteFails
  <2>4. QED
    BY <2>1, <2>2, <2>3
<1>3. QED
  BY <1>1, <1>2, Invariance, PTL DEF Spec, ImplementsReader, Reader!SeekableSpec

\* The cache file itself grows as the abstract reader of the remote file is
\* served: each write that lands appends the bytes that follow, and whatever
\* reads, seeks, drops and failing writes there are, nothing in it is rewritten.
THEOREM CacheRefinement == Spec => Cache!SequentialSpec
<1>1. Init => Cache!Init
  BY DEF Init, Cache!Init, Offsets, NoByte, Cache!Offsets, Cache!NoByte
<1>2. IInv /\ [Next]_vars => [Cache!Deliver]_<<size, file>>
  <2> SUFFICES ASSUME IInv, [Next]_vars
               PROVE  Cache!Deliver \/ UNCHANGED <<size, file>>
    OBVIOUS
  <2>1. ASSUME NEW k \in 1 .. WriteMax, WriteReachesFile(k) PROVE Cache!Deliver
    <3>1. /\ size' = size + k /\ size + k <= cached_len
          /\ \A o \in Offsets : file'[o] = IF o < size + k THEN o ELSE NoByte
      BY <2>1, WriteExtendsPrefix
    <3>2. cached_len \in 0 .. Len /\ size \in Nat /\ k \in Nat \ {0}
      BY BoundsAssumption DEF IInv, TypeOK
    <3>3. k \in 1 .. Len - size
      BY <3>1, <3>2, LenAssumption
    <3>4. file' = [o \in Offsets |-> file'[o]]
      BY <2>1 DEF WriteReachesFile, Put
    <3>5. ASSUME NEW o \in Offsets
          PROVE  file'[o] = IF o \in size .. size + k - 1 THEN o ELSE file[o]
      BY <3>1, <3>2 DEF IInv, CacheIsPrefix, Offsets
    <3>6. QED
      BY <3>1, <3>3, <3>4, <3>5 DEF Cache!Deliver, Cache!Offsets, Offsets
  <2>2. CASE ~\E k \in 1 .. WriteMax : WriteReachesFile(k)
    BY <2>2 DEF Next, vars, callVars, cacheVars, diskVars, readerVars, BeginRead,
      StartCacheRead, CacheReadDone, CacheReadEmpty, FlushPendingChunk, FlushFails, FillFromUpstream,
      UpstreamFails, SeekTo, SeekFails, DropRead, WriteFails
  <2>3. QED
    BY <2>1, <2>2
<1>3. QED
  BY <1>1, <1>2, Invariance, PTL DEF Spec, Cache!SequentialSpec
=============================================================================
