--------------------------- MODULE HashTreeStream ---------------------------
(***************************************************************************)
(* HashTreeStream and the PageStream and PageVerifier it is built from     *)
(* (src/crates/msixvc/src/hash_tree.rs): a stream of the hash entries of   *)
(* level 0 of a hash tree, read page by page from an asynchronous reader,  *)
(* every page verified against an entry of level 1 before its entries are  *)
(* handed out.                                                             *)
(*                                                                         *)
(* A page is Parts parts, the unit in which the reader delivers; it holds  *)
(* Entries hashes.  Page p of the reader hashes to the level 1 entry p     *)
(* unless it is in corrupt, and to no other entry.                         *)
(***************************************************************************)
EXTENDS Integers

CONSTANTS
  Entries,        \* HASH_ENTRIES_IN_PAGE
  Parts,          \* a page in units of the reader
  Hashes,         \* level_0_hashes
  PollAfterError  \* whether the consumer polls on after an error

ASSUME SizeAssumption == /\ Entries \in Nat \ {0}
                         /\ Parts \in Nat \ {0}
                         /\ Hashes \in Nat \ {0}
ASSUME PollAssumption == PollAfterError \in BOOLEAN

\* level_0_hashes.div_ceil(HASH_ENTRIES_IN_PAGE), which new() asserts to be the
\* number of level 1 hashes.
Pages == (Hashes + Entries - 1) \div Entries

VARIABLES
  corrupt,        \* the pages of the reader that do not match their hash
  avail,          \* how many parts the reader holds before it ends
  filled,         \* PageStream.filled
  read_pages,     \* full pages taken from the reader; the last is in the buffer
  current_page,   \* the level 1 entry the next page is verified against
  remaining,      \* remaining_hashes
  next_entry,     \* next_entry_in_page
  yielded,        \* the page and entry handed out for each hash of level 0
  status          \* what the last poll returned

source   == <<corrupt, avail>>
treeVars == <<source, filled, read_pages, current_page, remaining, next_entry, yielded, status>>

NotYielded == [page |-> -1, entry |-> -1]

TreeInit ==
  /\ corrupt \in SUBSET (0 .. Pages - 1)
  /\ avail \in {Pages * Parts - 1, Pages * Parts}
  /\ filled = 0 /\ read_pages = 0
  /\ current_page = 0
  /\ remaining = Hashes
  /\ next_entry = 0
  /\ yielded = [i \in 0 .. Hashes - 1 |-> NotYielded]
  /\ status = "item"

\* The consumer polls until the stream ends, and stops at an error unless it
\* insists.
Polls == \/ status \in {"item", "pending"}
         \/ PollAfterError /\ status \in {"io_error", "hash_mismatch"}

\* One more hash is handed out, entry e of page p.
Yield(p, e) ==
  /\ yielded' = [yielded EXCEPT ![Hashes - remaining] = [page |-> p, entry |-> e]]
  /\ remaining' = remaining - 1
  /\ next_entry' = e + 1
  /\ status' = "item"

\* Variant: the stream ends only with a full page.
EndAtPageEnd ==
  /\ Polls /\ remaining = 0 /\ next_entry = Entries
  /\ status' = "end"
  /\ UNCHANGED <<source, filled, read_pages, current_page, remaining, next_entry, yielded>>

\* poll_next, once every hash was handed out.
End ==
  /\ Polls /\ remaining = 0
  /\ status' = "end"
  /\ UNCHANGED <<source, filled, read_pages, current_page, remaining, next_entry, yielded>>

\* Variant: one entry too many is taken from the buffer.
BufferedOffByOne == filled = Parts /\ next_entry <= Entries

\* PageStream.buffer() returns a page and the page has entries left.
Buffered == filled = Parts /\ next_entry < Entries

YieldBuffered ==
  /\ Polls /\ remaining > 0 /\ Buffered
  /\ Yield(read_pages - 1, next_entry)
  /\ UNCHANGED <<source, filled, read_pages, current_page>>

\* What the buffer holds when poll_next_page goes on: nothing once it is full.
Unfinished == IF filled = Parts THEN 0 ELSE filled

\* poll_next_page is needed, and the reader stands after `consumed` parts.
Reading  == Polls /\ remaining > 0 /\ ~Buffered
Consumed == read_pages * Parts + Unfinished

\* The reader returns k more parts, which do not complete the page.
PartArrives(k) ==
  /\ Consumed + k <= avail
  /\ Unfinished + k < Parts

\* Then it has nothing for the moment.
ReadPart(k) ==
  /\ Reading /\ PartArrives(k)
  /\ filled' = Unfinished + k
  /\ status' = "pending"
  /\ UNCHANGED <<source, read_pages, current_page, remaining, next_entry, yielded>>

\* Variants of verify_page: any page of the level passes; a page is compared
\* with the entry of the page before it.
VerifyPageNever(p, i) == TRUE
VerifyPageOffByOne(p, i) == p \notin corrupt /\ p = i + 1

\* PageVerifier.verify_page: page p of the reader against level 1 entry i.
VerifyPage(p, i) == p \notin corrupt /\ p = i

\* The reader completes the page and the page verifies: its first entry is
\* handed out in the same poll.
CompletePage ==
  /\ Reading
  /\ read_pages * Parts + Parts <= avail
  /\ VerifyPage(read_pages, current_page)
  /\ filled' = Parts
  /\ read_pages' = read_pages + 1
  /\ current_page' = current_page + 1
  /\ Yield(read_pages, 0)
  /\ UNCHANGED source

\* The reader completes the page and it does not verify: the page stays in the
\* buffer.
RejectPage ==
  /\ Reading
  /\ read_pages * Parts + Parts <= avail
  /\ ~VerifyPage(read_pages, current_page)
  /\ filled' = Parts
  /\ read_pages' = read_pages + 1
  /\ status' = "hash_mismatch"
  /\ UNCHANGED <<source, current_page, remaining, next_entry, yielded>>

\* Then it fails, or ends in the middle of the page.
ReaderFails(k) ==
  /\ Reading /\ PartArrives(k)
  /\ filled' = Unfinished + k
  /\ status' = "io_error"
  /\ UNCHANGED <<source, read_pages, current_page, remaining, next_entry, yielded>>

TreeNext ==
  \/ End
  \/ YieldBuffered
  \/ \E k \in 0 .. Parts - 1 : ReadPart(k) \/ ReaderFails(k)
  \/ CompletePage
  \/ RejectPage

TreeSpec == TreeInit /\ [][TreeNext]_treeVars

\* The consumer polls whenever the stream can go on, and the reader delivers
\* what it holds and then reports its end.
TreeFairSpec ==
  /\ TreeSpec
  /\ WF_treeVars(End \/ YieldBuffered \/ CompletePage \/ RejectPage)
  /\ WF_treeVars(/\ read_pages * Parts + Parts > avail
             /\ \E k \in 0 .. Parts - 1 : ReaderFails(k))
-----------------------------------------------------------------------------
\* Type invariant.
TreeTypeOK ==
  /\ corrupt \subseteq 0 .. Pages - 1
  /\ avail \in Nat
  /\ filled \in 0 .. Parts
  /\ read_pages \in Nat
  /\ current_page \in Nat
  /\ remaining \in 0 .. Hashes
  /\ next_entry \in 0 .. Entries
  /\ yielded \in [0 .. Hashes - 1 -> [page : Int, entry : Int]]
  /\ status \in {"item", "pending", "end", "hash_mismatch", "io_error"}

\* "Each page is hashed and verified": no entry of a page that does not match
\* its hash is handed out.
OnlyVerifiedYielded ==
  \A i \in 0 .. Hashes - 1 : yielded[i].page \notin corrupt

\* The i-th hash handed out is the i-th of level 0: entry i % Entries of page
\* i \div Entries, however the reader splits the pages.
InOrder ==
  \A i \in 0 .. Hashes - 1 :
    yielded[i] = IF i < Hashes - remaining
                 THEN [page |-> i \div Entries, entry |-> i % Entries]
                 ELSE NotYielded

\* A stream that ends without an error has read a level without corrupt pages,
\* and all of it; one that reports a mismatch has not.
VerdictIsRight ==
  /\ status = "end" => corrupt = {} /\ remaining = 0
  /\ status = "hash_mismatch" => read_pages - 1 \in corrupt

\* What the polls so far have come to.
Verdict == CASE status \in {"item", "pending"} -> "running"
             [] status = "end"                 -> "end"
             [] status = "hash_mismatch"       -> "mismatch"
             [] status = "io_error"            -> "broken"

Promise == INSTANCE VerifiedStream WITH given <- Hashes - remaining, verdict <- Verdict

\* The stream keeps its promise, however the reader splits the pages: hash after
\* hash of pages that match, and an end, a mismatch or an error only where each
\* is due.
ImplementsStream == Promise!Spec

\* Polling ends.
Terminates == <>(status \in {"end", "hash_mismatch", "io_error"})
=============================================================================
