---------------------------- MODULE PrefixCache ----------------------------
(***************************************************************************)
(* PrefixCacheFile (src/crates/msixvc/src/streaming.rs): an AsyncRead and  *)
(* AsyncSeek over a remote file that can only be read forwards.  Bytes are *)
(* pulled from upstream in order, appended to a cache file through one     *)
(* tokio File, and handed to the caller through a second tokio File on the *)
(* same path; cached_len is how much of the prefix the code believes to be *)
(* in the cache.                                                           *)
(*                                                                         *)
(* The tokio Files and the disk are external.  A tokio write returns once  *)
(* a blocking thread has been handed the bytes: the thread appends them    *)
(* later, in one or more pieces, or fails, and the failure is reported to  *)
(* the next write.  The two Files share nothing but the path, so a read    *)
(* does not wait for the write.                                            *)
(*                                                                         *)
(* A byte is its offset in the remote file; a run of bytes is the offset   *)
(* of its first byte and its length.  A caller stops at the first error,   *)
(* as the parsers in xvd.rs do, and drops a read only while no operation   *)
(* on the cache reader is under way.                                       *)
(***************************************************************************)
EXTENDS Integers

CONSTANTS
  Len,          \* the number of bytes of the remote file
  FillMax,      \* UPSTREAM_READ_CHUNK_SIZE: the most one upstream read returns
  WriteMax,     \* the most one tokio write takes (File's max_buf_size)
  BufMax,       \* bound on the caller's buffer
  DiskMayFail   \* whether a write to the cache file can fail

ASSUME LenAssumption    == Len \in Nat \ {0}
ASSUME BoundsAssumption == /\ FillMax \in Nat \ {0}
                           /\ WriteMax \in Nat \ {0}
                           /\ BufMax \in Nat \ {0}
ASSUME DiskAssumption   == DiskMayFail \in BOOLEAN

VARIABLES
  pos,             \* the caller's position
  cached_len,      \* the bytes handed to the cache writer so far
  cache_write_pos, \* where the code believes the cache writer to stand
  cache_write,     \* cache_write_state: "Idle" or "Writing"
  cache_read,      \* cache_read_state: "Idle" or "Reading"
  chunk,           \* what is left of pending_chunk
  want,            \* room in the buffer of the read in progress, 0 when none is
  err,             \* the error the caller stopped at, "none" before
  out,             \* the byte the caller was last given for each offset
  up,              \* offset of the next byte upstream will return
  file,            \* the cache file: the byte at each offset
  size,            \* its length, and the position of the cache writer
  inflight,        \* the bytes a blocking thread has still to write
  write_failed,    \* a write failed and no later one has reported it
  rpos             \* the position of the cache reader

cacheVars  == <<cached_len, cache_write_pos, cache_write, chunk, up>>
diskVars   == <<file, size, inflight, write_failed>>
callVars   == <<pos, want, err, out>>
readerVars == <<cache_read, rpos>>
vars == <<cacheVars, diskVars, callVars, readerVars>>

Reader == INSTANCE ByteReader WITH position <- pos, received <- out

\* The cache file as a reader that is given the remote file.
Cache == INSTANCE ByteReader WITH position <- size, received <- file

Offsets == 0 .. Len - 1
NoByte  == -1
NoBytes == [src |-> 0, n |-> 0]

Min2(a, b) == IF a <= b THEN a ELSE b

\* File contents f with the k bytes from src on put at offset at.
Put(f, at, src, k) ==
  [o \in Offsets |-> IF o \in at .. at + k - 1 THEN src + (o - at) ELSE f[o]]

\* PrefixCacheFile::new: the cache file is created or truncated and opened twice.
Init ==
  /\ pos = 0 /\ want = 0 /\ err = "none"
  /\ out = [o \in Offsets |-> NoByte]
  /\ cached_len = 0 /\ cache_write_pos = 0 /\ cache_write = "Idle"
  /\ chunk = NoBytes /\ up = 0
  /\ file = [o \in Offsets |-> NoByte] /\ size = 0
  /\ inflight = NoBytes /\ write_failed = FALSE
  /\ cache_read = "Idle" /\ rpos = 0
-----------------------------------------------------------------------------
\* A caller polls a read with room for n bytes; at the end of the remote file
\* it returns at once, with nothing.
BeginRead(n) ==
  /\ err = "none" /\ want = 0
  /\ pos < Len
  /\ want' = n
  /\ UNCHANGED <<cacheVars, diskVars, readerVars, pos, err, out>>

\* target_end: how far the cache has to reach to fill the buffer.
TargetEnd == Min2(Len, pos + want)

\* Variants: the cache is read only once it can fill the buffer; the reader is
\* not moved to the position of the read.
StartCacheReadFull ==
  /\ want > 0 /\ err = "none"
  /\ cache_read = "Idle"
  /\ pos + want <= cached_len
  /\ cache_read' = "Reading"
  /\ rpos' = pos
  /\ UNCHANGED <<cacheVars, diskVars, callVars>>

StartCacheReadUnseeked ==
  /\ want > 0 /\ err = "none"
  /\ cache_read = "Idle"
  /\ pos < cached_len
  /\ cache_read' = "Reading"
  /\ UNCHANGED <<cacheVars, diskVars, callVars, rpos>>

\* poll_copy_from_cache, Idle and Seeking: the cache reader is moved to pos.
\* The first thing a poll tries, so that bytes cached while an earlier poll
\* of the same read was pending are handed over before the buffer can be
\* filled.
StartCacheRead ==
  /\ want > 0 /\ err = "none"
  /\ cache_read = "Idle"
  /\ pos < cached_len
  /\ cache_read' = "Reading"
  /\ rpos' = pos
  /\ UNCHANGED <<cacheVars, diskVars, callVars>>

\* poll_copy_from_cache, Reading: what the file holds from there on is handed
\* over.  The caller takes it, or reads on into the rest of its buffer.
CacheReadDone ==
  /\ cache_read = "Reading" /\ err = "none"
  /\ size > rpos
  /\ LET k == Min2(want, size - rpos) IN
       /\ out' = [o \in Offsets |-> IF o \in pos .. pos + k - 1
                                    THEN file[rpos + (o - pos)] ELSE out[o]]
       /\ pos' = pos + k
       /\ rpos' = rpos + k
       /\ want' \in {0, IF pos + k < Len THEN want - k ELSE 0}
  /\ cache_read' = "Idle"
  /\ UNCHANGED <<cacheVars, diskVars, err>>

\* The same, when the file ends at or before the position of the reader.
CacheReadEmpty ==
  /\ cache_read = "Reading" /\ err = "none"
  /\ size <= rpos
  /\ cache_read' = "Idle"
  /\ err' = "cache ended before cached_len"
  /\ UNCHANGED <<cacheVars, diskVars, pos, want, out, rpos>>

\* The loop of poll_read, while the cache does not reach target_end.
Filling == want > 0 /\ err = "none" /\ cache_read = "Idle" /\ cached_len < TargetEnd

\* poll_flush_pending_chunk, on a writer that stands at cached_len or is in
\* the middle of a chunk, once the previous write is done.
WriterReady ==
  /\ Filling /\ chunk.n > 0
  /\ cache_write = "Idle" => cache_write_pos = cached_len
  /\ inflight.n = 0

\* Variant: a write goes on after one that failed, whose report is ignored.
FlushPendingChunkAfterFailure ==
  /\ WriterReady
  /\ LET k == Min2(chunk.n, WriteMax) IN
       /\ inflight' = [src |-> chunk.src, n |-> k]
       /\ chunk' = [src |-> chunk.src + k, n |-> chunk.n - k]
       /\ cached_len' = cached_len + k
       /\ cache_write_pos' = cache_write_pos + k
       /\ cache_write' = IF k = chunk.n THEN "Idle" ELSE "Writing"
  /\ UNCHANGED <<callVars, readerVars, up, file, size, write_failed>>

\* Variant: the whole chunk is taken off although only k bytes were written.
FlushPendingChunkShort ==
  /\ WriterReady /\ ~write_failed
  /\ LET k == Min2(chunk.n, WriteMax) IN
       /\ inflight' = [src |-> chunk.src, n |-> k]
       /\ chunk' = NoBytes
       /\ cached_len' = cached_len + k
       /\ cache_write_pos' = cache_write_pos + k
  /\ cache_write' = "Idle"
  /\ UNCHANGED <<callVars, readerVars, up, file, size, write_failed>>

FlushPendingChunk ==
  /\ WriterReady /\ ~write_failed
  /\ LET k == Min2(chunk.n, WriteMax) IN
       /\ inflight' = [src |-> chunk.src, n |-> k]
       /\ chunk' = [src |-> chunk.src + k, n |-> chunk.n - k]
       /\ cached_len' = cached_len + k
       /\ cache_write_pos' = cache_write_pos + k
       /\ cache_write' = IF k = chunk.n THEN "Idle" ELSE "Writing"
  /\ UNCHANGED <<callVars, readerVars, up, file, size, write_failed>>

\* The write reports that the one before it failed; the read ends with it.
FlushFails ==
  /\ WriterReady /\ write_failed
  /\ write_failed' = FALSE
  /\ cache_write' = "Idle"
  /\ err' = "cache write failed"
  /\ UNCHANGED <<readerVars, cached_len, cache_write_pos, chunk, up, file, size, inflight,
                 pos, want, out>>

\* poll_fill_from_upstream.
FillFromUpstream(n) ==
  /\ Filling /\ chunk.n = 0
  /\ n <= Len - up
  /\ chunk' = [src |-> up, n |-> n]
  /\ up' = up + n
  /\ UNCHANGED <<diskVars, callVars, readerVars, cached_len, cache_write_pos, cache_write>>

\* Upstream fails, or ends before the bytes the read needs.
UpstreamFails ==
  /\ Filling /\ chunk.n = 0
  /\ err' = "upstream"
  /\ UNCHANGED <<cacheVars, diskVars, readerVars, pos, want, out>>
-----------------------------------------------------------------------------
\* Variant: seeks past the end of the remote file.
SeekToUnchecked(p) ==
  /\ err = "none" /\ want = 0
  /\ pos' = p
  /\ UNCHANGED <<cacheVars, diskVars, readerVars, want, err, out>>

\* start_seek and poll_complete, called between reads.
SeekTo(p) ==
  /\ err = "none" /\ want = 0
  /\ p <= Len
  /\ pos' = p
  /\ UNCHANGED <<cacheVars, diskVars, readerVars, want, err, out>>

\* A seek before the start or past the end of the remote file.
SeekFails ==
  /\ err = "none" /\ want = 0
  /\ err' = "invalid seek"
  /\ UNCHANGED <<cacheVars, diskVars, readerVars, pos, want, out>>

\* A read that waits for upstream or the cache writer is dropped.
DropRead ==
  /\ Filling
  /\ want' = 0
  /\ UNCHANGED <<cacheVars, diskVars, readerVars, pos, err, out>>
-----------------------------------------------------------------------------
\* The blocking thread: k bytes reach the file, or the rest never does.
WriteReachesFile(k) ==
  /\ k <= inflight.n
  /\ file' = Put(file, size, inflight.src, k)
  /\ size' = size + k
  /\ inflight' = [src |-> inflight.src + k, n |-> inflight.n - k]
  /\ UNCHANGED <<cacheVars, callVars, readerVars, write_failed>>

WriteFails ==
  /\ DiskMayFail
  /\ inflight.n > 0
  /\ inflight' = NoBytes
  /\ write_failed' = TRUE
  /\ UNCHANGED <<cacheVars, callVars, readerVars, file, size>>
-----------------------------------------------------------------------------
Next ==
  \/ \E n \in 1 .. BufMax : BeginRead(n)
  \/ StartCacheRead
  \/ CacheReadDone
  \/ CacheReadEmpty
  \/ FlushPendingChunk
  \/ FlushFails
  \/ \E n \in 1 .. FillMax : FillFromUpstream(n)
  \/ UpstreamFails
  \/ \E p \in 0 .. Len + 1 : SeekTo(p)
  \/ SeekFails
  \/ DropRead
  \/ \E k \in 1 .. WriteMax : WriteReachesFile(k)
  \/ WriteFails

Spec == Init /\ [][Next]_vars

\* The runtime polls a read that can go on, blocking threads run, and upstream
\* answers (HttpRead reopens for as long as it takes).
Fairness ==
  /\ WF_vars(StartCacheRead)
  /\ WF_vars(CacheReadDone \/ CacheReadEmpty)
  /\ WF_vars(FlushPendingChunk \/ FlushFails)
  /\ WF_vars(\E n \in 1 .. FillMax : FillFromUpstream(n))
  /\ WF_vars(\E k \in 1 .. WriteMax : WriteReachesFile(k))

FairSpec == Spec /\ Fairness
-----------------------------------------------------------------------------
Runs == [src : Nat, n : Nat]

Errors == {"none", "cache ended before cached_len", "cache write failed", "upstream",
           "invalid seek"}

\* Type invariant.
TypeOK ==
  /\ pos \in 0 .. Len
  /\ cached_len \in 0 .. Len
  /\ cache_write_pos \in 0 .. Len
  /\ cache_write \in {"Idle", "Writing"}
  /\ cache_read \in {"Idle", "Reading"}
  /\ chunk \in Runs
  /\ want \in 0 .. BufMax
  /\ err \in Errors
  /\ out \in [Offsets -> Offsets \cup {NoByte}]
  /\ up \in 0 .. Len
  /\ file \in [Offsets -> Offsets \cup {NoByte}]
  /\ size \in 0 .. Len
  /\ inflight \in Runs
  /\ write_failed \in BOOLEAN
  /\ rpos \in 0 .. Len

\* The cache file is a prefix of the remote file, never longer than the code
\* believes: no read, seek, short write, dropped read or failed write puts a
\* byte in the wrong place.
CacheIsPrefix ==
  /\ size <= cached_len
  /\ \A o \in Offsets : file[o] = IF o < size THEN o ELSE NoByte

\* Every byte taken from upstream is in exactly one place, in this order: in
\* the file, with the blocking thread, in pending_chunk.  Only a failed write
\* loses any, and no write follows it.
NoByteLost ==
  /\ up = cached_len + chunk.n
  /\ chunk.n > 0 => chunk.src = cached_len
  /\ size + inflight.n <= cached_len
  /\ ~write_failed /\ err = "none" => size + inflight.n = cached_len
  /\ inflight.n > 0 => inflight.src = size

\* PrefixCacheFile implements the seekable byte reader.
ImplementsReader == Reader!SeekableSpec

\* A read that nobody drops ends, with bytes or with an error.
ReadReturns == want > 0 ~> (want = 0 \/ err # "none")

\* A read of bytes that cached_len covers finds them in the cache file.
CachedPrefixIsReadable == err # "cache ended before cached_len"
=============================================================================
