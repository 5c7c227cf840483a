---------------------------- MODULE PageDownload ----------------------------
(***************************************************************************)
(* XvdFile::download_file_http (src/crates/msixvc/src/xvd.rs): one file of *)
(* a package is fetched with range requests, cut into pages, decrypted     *)
(* page by page and written out.  A body that breaks off or stalls is      *)
(* asked for again from where it stopped; a write that returns an error is *)
(* repeated after a pause.                                                 *)
(*                                                                         *)
(* Offsets are counted in units of which PageUnits make a page, from the   *)
(* start of the file; the byte at an offset is the offset itself.  The     *)
(* server honours ranges.  The output is a tokio File, as in the           *)
(* installer: a write returns once a blocking thread has been handed the   *)
(* bytes, and an error of that thread is reported to the next write.       *)
(***************************************************************************)
EXTENDS Integers

CONSTANTS
  PageUnits,     \* PAGE_SIZE
  Length,        \* sfile.length
  ChunkMax,      \* bound on one chunk of a body
  Modes,         \* "decrypt", "plain" (no key), "keep" (keep_encrypted)
  DiskMayFail    \* whether a write of the blocking thread can fail

ASSUME SizeAssumption  == /\ PageUnits \in Nat \ {0}
                          /\ Length \in Nat \ {0}
                          /\ ChunkMax \in Nat \ {0}
ASSUME ModesAssumption == Modes \subseteq {"decrypt", "plain", "keep"}
ASSUME DiskAssumption  == DiskMayFail \in BOOLEAN

PageCount  == (Length + PageUnits - 1) \div PageUnits
PageLength == PageCount * PageUnits

VARIABLES
  mode,        \* how this file's pages are written
  units,       \* how many of its pages have a data unit to decrypt with
  phase,       \* "poll", "reopen", "write", "done" or "failed"
  live,        \* whether the current response body still delivers
  wire,        \* the offset of its next byte
  have,        \* v: bytes received
  pending,     \* the received bytes that are not yet written
  page,        \* page_in_section - page_start
  remaining,   \* bytes of the file still to be written
  file, size,  \* the output file
  inflight,    \* the page a blocking thread has still to write
  write_failed,\* a write failed and no later one has reported it
  disk_failed  \* a write has failed at some time

netVars  == <<live, wire, have>>
diskVars == <<file, size, inflight, write_failed, disk_failed>>
vars == <<mode, units, phase, netVars, pending, page, remaining, diskVars>>

\* The output file as a reader that is given the plain text.
Output == INSTANCE ByteReader WITH Len <- PageLength, position <- size, received <- file

NoByte  == -1
Garbage == -2
NoPage  == [src |-> 0, n |-> 0]

Min2(a, b) == IF a <= b THEN a ELSE b

Init ==
  /\ mode \in Modes
  /\ units \in {PageCount - 1, PageCount}
  /\ phase = "poll"
  /\ live \in BOOLEAN
  /\ wire = 0 /\ have = 0 /\ pending = NoPage
  /\ page = 0 /\ remaining = Length
  /\ file = [o \in 0 .. PageLength - 1 |-> NoByte] /\ size = 0
  /\ inflight = NoPage /\ write_failed = FALSE /\ disk_failed = FALSE

\* Variant: one page too many is waited for.
AtEndOffByOne == page > PageCount

\* The loop's first condition: nothing is left to fetch.
AtEnd == page >= PageCount \/ remaining = 0
-----------------------------------------------------------------------------
\* The loop is left.
Finish ==
  /\ phase = "poll" /\ AtEnd
  /\ phase' = IF remaining > 0 THEN "failed" ELSE "done"
  /\ UNCHANGED <<mode, units, netVars, pending, page, remaining, diskVars>>

\* The body delivers n bytes within the stall timeout.
Receive(n) ==
  /\ phase = "poll" /\ ~AtEnd
  /\ live /\ wire + n <= PageLength
  /\ wire' = wire + n
  /\ have' = have + n
  /\ pending' = [pending EXCEPT !.n = @ + n]
  /\ phase' = "write"
  /\ UNCHANGED <<mode, units, live, page, remaining, diskVars>>

\* The body fails or ends, or there is none.
BodyEnds ==
  /\ phase = "poll" /\ ~AtEnd
  /\ live' = FALSE
  /\ phase' = "reopen"
  /\ UNCHANGED <<mode, units, wire, have, pending, page, remaining, diskVars>>

\* The body delivers nothing for the stall timeout: it is kept.
BodyStalls ==
  /\ phase = "poll" /\ ~AtEnd
  /\ live
  /\ phase' = "reopen"
  /\ UNCHANGED <<mode, units, netVars, pending, page, remaining, diskVars>>

\* Variant: asks again for what was written instead of what was received.
ReopenFromWritten ==
  /\ phase = "reopen"
  /\ live' = TRUE
  /\ wire' = page * PageUnits
  /\ phase' = "poll"
  /\ UNCHANGED <<mode, units, have, pending, page, remaining, diskVars>>

\* A request for the bytes from offset + v on is answered with 206.
Reopen ==
  /\ phase = "reopen"
  /\ live' = TRUE
  /\ wire' = have
  /\ phase' = "poll"
  /\ UNCHANGED <<mode, units, have, pending, page, remaining, diskVars>>

\* It fails, times out or is answered otherwise: the loop polls the old body
\* again.
ReopenFails ==
  /\ phase = "reopen"
  /\ phase' = "poll"
  /\ UNCHANGED <<mode, units, netVars, pending, page, remaining, diskVars>>
-----------------------------------------------------------------------------
\* decrypt_page_xts with the data unit of page p, on a page of ciphertext that
\* starts at src: it comes out as plain text only with its own unit.
Plain(src, p) == IF mode = "decrypt" /\ src # p * PageUnits THEN Garbage ELSE src

\* Variant: every page counts whole.
ToWriteRemainingWhole == PageUnits

\* to_write_remaining: how much of the file is in the page.
ToWriteRemaining == Min2(remaining, PageUnits)

\* Variant: the last page is written whole.
ToWriteWholePages == PageUnits

\* to_write: how much of the page is written; files kept encrypted keep whole
\* pages.
ToWrite == IF mode = "keep" THEN PageUnits ELSE ToWriteRemaining

PageReady == phase = "write" /\ pending.n >= PageUnits /\ ~AtEnd

\* A page leaves pending and is handed to the output.
WritePage ==
  /\ PageReady
  /\ mode = "decrypt" => page < units
  /\ inflight.n = 0 /\ ~write_failed
  /\ inflight' = [src |-> Plain(pending.src, page), n |-> ToWrite]
  /\ pending' = [src |-> pending.src + PageUnits, n |-> pending.n - PageUnits]
  /\ remaining' = remaining - ToWriteRemaining
  /\ page' = page + 1
  /\ UNCHANGED <<mode, units, phase, netVars, file, size, write_failed, disk_failed>>

\* The section has no data unit for the page.
MissingDataUnit ==
  /\ PageReady
  /\ mode = "decrypt" /\ page >= units
  /\ phase' = "failed"
  /\ UNCHANGED <<mode, units, netVars, pending, page, remaining, diskVars>>

\* write_all returns an error: the loop sleeps and writes the same page again.
WriteError ==
  /\ PageReady
  /\ mode = "decrypt" => page < units
  /\ inflight.n = 0 /\ write_failed
  /\ write_failed' = FALSE
  /\ UNCHANGED <<mode, units, phase, netVars, pending, page, remaining, file, size, inflight,
                 disk_failed>>

\* What is left does not make a page.
Drained ==
  /\ phase = "write"
  /\ pending.n < PageUnits \/ AtEnd
  /\ phase' = "poll"
  /\ UNCHANGED <<mode, units, netVars, pending, page, remaining, diskVars>>
-----------------------------------------------------------------------------
\* The blocking thread appends the page, or the first k bytes of it and fails.
PutInflight(k) ==
  /\ file' = [o \in 0 .. PageLength - 1 |->
                IF o \in size .. size + k - 1
                THEN IF inflight.src = Garbage THEN Garbage ELSE inflight.src + (o - size)
                ELSE file[o]]
  /\ size' = size + k
  /\ inflight' = NoPage
  /\ UNCHANGED <<mode, units, phase, netVars, pending, page, remaining>>

WriteReachesFile ==
  /\ inflight.n > 0
  /\ PutInflight(inflight.n)
  /\ UNCHANGED <<write_failed, disk_failed>>

WriteFails(k) ==
  /\ DiskMayFail
  /\ k < inflight.n
  /\ PutInflight(k)
  /\ write_failed' = TRUE
  /\ disk_failed' = TRUE
-----------------------------------------------------------------------------
Next ==
  \/ Finish
  \/ \E n \in 1 .. ChunkMax : Receive(n)
  \/ BodyEnds
  \/ BodyStalls
  \/ Reopen
  \/ ReopenFails
  \/ WritePage
  \/ MissingDataUnit
  \/ WriteError
  \/ Drained
  \/ WriteReachesFile
  \/ \E k \in 0 .. PageUnits - 1 : WriteFails(k)

Spec == Init /\ [][Next]_vars

\* The task runs and so do blocking threads; requests may be refused and
\* bodies stall or break off any number of times, but not for ever.
Fairness ==
  /\ WF_vars(Finish \/ BodyEnds \/ ReopenFails \/ WritePage \/ MissingDataUnit \/ WriteError
             \/ Drained)
  /\ WF_vars(WriteReachesFile)
  /\ SF_vars(Reopen)
  /\ SF_vars(\E n \in 1 .. ChunkMax : Receive(n))

FairSpec == Spec /\ Fairness
-----------------------------------------------------------------------------
\* Type invariant.
TypeOK ==
  /\ mode \in Modes
  /\ units \in 0 .. PageCount
  /\ phase \in {"poll", "reopen", "write", "done", "failed"}
  /\ live \in BOOLEAN
  /\ wire \in 0 .. PageLength
  /\ have \in 0 .. PageLength
  /\ pending \in [src : 0 .. PageLength, n : 0 .. PageLength]
  /\ page \in 0 .. PageCount
  /\ remaining \in 0 .. Length
  /\ file \in [0 .. PageLength - 1 -> 0 .. PageLength - 1 \cup {NoByte, Garbage}]
  /\ size \in 0 .. PageLength
  /\ inflight \in [src : 0 .. PageLength \cup {Garbage}, n : 0 .. PageUnits]
  /\ write_failed \in BOOLEAN
  /\ disk_failed \in BOOLEAN

\* What the loop knows of the transfer fits together at every retry: received
\* is written and pending, an open body goes on where the received bytes end,
\* and exactly the bytes of the pages so far are no longer remaining.
ResumesWhereStopped ==
  /\ pending.src = page * PageUnits
  /\ have = pending.src + pending.n
  /\ live => wire = have
  /\ remaining = Length - Min2(Length, page * PageUnits)

\* What is to be in the file in the end.
FinalSize == IF mode = "keep" THEN PageLength ELSE Length
Holds(n)  == size = n /\ \A o \in 0 .. PageLength - 1 : file[o] = IF o < n THEN o ELSE NoByte

\* While the disk does not fail, the file is a prefix of the plain text through
\* every stall, retry and reopened body, and the whole of it, without padding,
\* once the download is done and the last write has landed.
FileIsPlainText ==
  ~disk_failed =>
    /\ Holds(size)
    /\ phase = "done" /\ inflight.n = 0 => Holds(FinalSize)

\* The download ends.
Completes == <>(phase \in {"done", "failed"})

\* A download that ends well has written every page: a write that fails, that of
\* the last page too, is noticed and repeated.
DoneMeansWritten == phase = "done" /\ inflight.n = 0 => Holds(FinalSize)
=============================================================================
