------------------------------ MODULE HttpRead ------------------------------
(***************************************************************************)
(* HttpRead (src/crates/msixvc/src/streaming.rs): an AsyncRead over one    *)
(* remote file that survives broken connections.  Each iteration of the    *)
(* loop of poll_read is one action: hand over what is left of the last     *)
(* chunk, else make sure that a response is open (asking for the rest of   *)
(* the file with a Range header), else poll the response body.  The server *)
(* and the network are the environment: a request may be refused or        *)
(* answered from another offset, and a body may break off anywhere or      *)
(* carry bytes past the announced end.                                     *)
(*                                                                         *)
(* A byte is its offset in the remote file; a chunk is the offset of its   *)
(* first byte and its number of bytes.                                     *)
(*                                                                         *)
(* HttpInit, HttpNext and so on keep the names of this module apart from   *)
(* those of the other parts of a streaming installation.                   *)
(***************************************************************************)
EXTENDS Integers

CONSTANTS
  FileLength,   \* the number of bytes of the remote file
  Totals,       \* the total lengths a reopened response may announce
  ChunkMax,     \* bound on the bytes of one chunk of a response body
  BufMax,       \* bound on the caller's buffer
  Extra         \* bound on the bytes a body carries past the end of the file

ASSUME LengthAssumption == FileLength \in Nat \ {0}
ASSUME TotalsAssumption == Totals \subseteq 0 .. FileLength
ASSUME HttpBounds       == /\ ChunkMax \in Nat \ {0}
                           /\ BufMax \in Nat \ {0}
                           /\ Extra \in Nat

VARIABLES
  len,          \* the total announced by the last response that was accepted
  pos,          \* offset of the next byte to hand to the caller
  conn,         \* "none", "opening" (pending_open) or "open" (active)
  req_start,    \* the offset the pending request asks for
  next_offset,  \* active.next_offset: offset after the last received byte
  end_offset,   \* active.end_offset
  wire,         \* the offset, in the remote file, of the body's next byte
  chunk,        \* what is left of pending_chunk: first byte and count
  want,         \* room in the buffer of the read in progress, 0 when none is
  out           \* the byte the caller was given for each offset

httpVars == <<len, pos, conn, req_start, next_offset, end_offset, wire, chunk, want, out>>
connVars == <<len, conn, req_start, next_offset, end_offset, wire>>

Reader == INSTANCE ByteReader WITH Len <- FileLength, position <- pos, received <- out

Offsets == 0 .. FileLength - 1
NoByte  == -1
NoChunk == [src |-> 0, n |-> 0]

Min2(a, b) == IF a <= b THEN a ELSE b

\* HttpRead::open has returned: a response to a request without a range is
\* open at offset 0.
HttpInit ==
  /\ len = FileLength /\ pos = 0
  /\ conn = "open" /\ req_start = 0
  /\ next_offset = 0 /\ end_offset = FileLength /\ wire = 0
  /\ chunk = NoChunk
  /\ want = 0
  /\ out = [o \in Offsets |-> NoByte]

\* A caller polls a read with room for n bytes.  At the end of the file it
\* returns at once, with nothing.
BeginRead(n) ==
  /\ want = 0
  /\ pos < len
  /\ want' = n
  /\ UNCHANGED <<connVars, pos, chunk, out>>

\* copy_from_pending_chunk: the read returns as many bytes as fit.
CopyFromPendingChunk ==
  /\ want > 0 /\ chunk.n > 0
  /\ LET k == Min2(chunk.n, want) IN
       /\ out' = [o \in Offsets |-> IF o \in pos .. pos + k - 1
                                    THEN chunk.src + (o - pos)
                                    ELSE out[o]]
       /\ pos' = pos + k
       /\ chunk' = [src |-> chunk.src + k, n |-> chunk.n - k]
  /\ want' = 0
  /\ UNCHANGED connVars

\* begin_open_stream, when there is neither a response nor a request.
BeginOpenStream ==
  /\ want > 0 /\ chunk.n = 0
  /\ conn = "none"
  /\ conn' = "opening"
  /\ req_start' = pos
  /\ UNCHANGED <<len, next_offset, end_offset, wire, pos, chunk, want, out>>

\* The answers of a server to a request for the bytes from start on: without
\* a range the whole file, with one the file from some offset or the whole
\* file, and a failure at any time.  A response says truly where its body
\* starts.
Responses(start) ==
  [status : {"200"}, start : {0}, total : Totals]
    \cup [status : {"failed"}, start : {0}, total : {0}]
    \cup (IF start = 0 THEN {}
          ELSE [status : {"206"}, start : Offsets, total : Totals])

\* Variants: takes the rest of the file from wherever the server resumed; expects
\* 206 of a request without a range.
AcceptsAnyStart(start, r) ==
  IF start = 0 THEN r.status = "200" ELSE r.status = "206"
AcceptsRangesOnly(start, r) == r.status = "206" /\ r.start = start

\* open_http_stream: start = 0 sends no Range header and expects 200; any
\* other start expects 206 and a Content-Range that begins where asked.
Accepts(start, r) ==
  IF start = 0 THEN r.status = "200"
               ELSE r.status = "206" /\ r.start = start

OpenSucceeds ==
  /\ conn = "opening" /\ want > 0
  /\ \E r \in Responses(req_start) :
       /\ Accepts(req_start, r)
       /\ len' = r.total
       /\ next_offset' = r.start
       /\ end_offset' = r.total
       /\ wire' = r.start
  /\ conn' = "open"
  /\ UNCHANGED <<req_start, pos, chunk, want, out>>

\* The request failed, or its response was not what was asked for: the read
\* returns the error, and a later read opens again.
OpenFails ==
  /\ conn = "opening" /\ want > 0
  /\ \E r \in Responses(req_start) : ~Accepts(req_start, r)
  /\ conn' = "none"
  /\ want' = 0
  /\ UNCHANGED <<len, req_start, next_offset, end_offset, wire, pos, chunk, out>>

\* The loop polls the body: no bytes are left over and a response is open.
PollingBody == want > 0 /\ chunk.n = 0 /\ conn = "open"

\* Variant: the announced end is not looked at.
WithinAnything(n) == TRUE

\* n more bytes are within the length the response announced.
WithinResponse(n) == next_offset + n <= end_offset

\* A body ends at the end of the file, give or take the Extra bytes.
StreamChunk(n) ==
  /\ PollingBody
  /\ wire + n <= FileLength + Extra
  /\ WithinResponse(n)
  /\ next_offset' = next_offset + n
  /\ wire' = wire + n
  /\ chunk' = [src |-> wire, n |-> n]
  /\ UNCHANGED <<len, conn, req_start, end_offset, pos, want, out>>

\* More bytes than announced: the chunk is dropped and the read fails, with
\* the response still active.
StreamOverrun(n) ==
  /\ PollingBody
  /\ wire + n <= FileLength + Extra
  /\ ~WithinResponse(n)
  /\ next_offset' = next_offset + n
  /\ wire' = wire + n
  /\ want' = 0
  /\ UNCHANGED <<len, conn, req_start, end_offset, pos, chunk, out>>

\* The body breaks off: the error is swallowed and the loop opens again.
StreamError ==
  /\ PollingBody
  /\ conn' = "none"
  /\ UNCHANGED <<len, req_start, next_offset, end_offset, wire, pos, chunk, want, out>>

\* The body ends: the read is over if all bytes were handed over, else the
\* loop opens again.
StreamEnd ==
  /\ PollingBody
  /\ conn' = "none"
  /\ want' = IF pos >= len THEN 0 ELSE want
  /\ UNCHANGED <<len, req_start, next_offset, end_offset, wire, pos, chunk, out>>

\* The caller drops a read that is waiting for the network.  Whatever was
\* under way stays in the reader and serves the next read.
DropRead ==
  /\ want > 0
  /\ conn = "opening" \/ PollingBody
  /\ want' = 0
  /\ UNCHANGED <<connVars, pos, chunk, out>>

HttpNext ==
  \/ \E n \in 1 .. BufMax : BeginRead(n)
  \/ CopyFromPendingChunk
  \/ BeginOpenStream
  \/ OpenSucceeds
  \/ OpenFails
  \/ \E n \in 1 .. ChunkMax : StreamChunk(n) \/ StreamOverrun(n)
  \/ StreamError
  \/ StreamEnd
  \/ DropRead

HttpSpec == HttpInit /\ [][HttpNext]_httpVars

\* The caller reads on until the end and the runtime polls what is ready
\* (weak fairness); the network may refuse, break off and stall any number
\* of times, but not for ever (strong fairness of an accepted request and of
\* a chunk that fits); a body with nothing left ends.
BodyExhausted == PollingBody /\ wire >= FileLength

HttpFairness ==
  /\ WF_httpVars(\E n \in 1 .. BufMax : BeginRead(n))
  /\ WF_httpVars(CopyFromPendingChunk)
  /\ WF_httpVars(BeginOpenStream)
  /\ SF_httpVars(OpenSucceeds)
  /\ SF_httpVars(\E n \in 1 .. ChunkMax : StreamChunk(n))
  /\ SF_httpVars(BodyExhausted /\ StreamEnd)

HttpFairSpec == HttpSpec /\ HttpFairness
-----------------------------------------------------------------------------
\* Type invariant.
HttpTypeOK ==
  /\ len \in 0 .. FileLength
  /\ pos \in 0 .. FileLength
  /\ conn \in {"none", "opening", "open"}
  /\ req_start \in 0 .. FileLength
  /\ next_offset \in Nat
  /\ end_offset \in 0 .. FileLength
  /\ wire \in Nat
  /\ chunk \in [src : Nat, n : Nat]
  /\ want \in 0 .. BufMax
  /\ out \in [Offsets -> Offsets \cup {NoByte}]

\* Across any number of reopened connections, refused requests, dropped reads
\* and bodies that are too long, the byte handed over for an offset is the
\* remote file's byte at that offset, and every offset before pos has been
\* handed over.
DeliveredInOrder ==
  \A o \in Offsets : out[o] = IF o < pos THEN o ELSE NoByte

\* The offset bookkeeping a resumed download rests on: bytes received but not
\* handed over lie between pos and next_offset, unless a chunk overran the
\* announced end, after which nothing from this response is handed over.
OffsetsAgree ==
  /\ chunk.n > 0 => chunk.src = pos /\ conn = "open" /\ next_offset <= end_offset
  /\ conn = "opening" => req_start = pos
  /\ conn = "open" => wire = next_offset
  /\ conn = "open" /\ next_offset <= end_offset => next_offset = pos + chunk.n

\* HttpRead implements the sequential byte reader.
ImplementsReader == Reader!SequentialSpec

\* A caller that reads on, also after a failed or dropped read, comes to the end
\* that was announced last whatever breaks in between, provided the network does
\* not fail for ever.
Completes == <>(pos >= len)
=============================================================================
