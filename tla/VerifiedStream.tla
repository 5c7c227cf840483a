--------------------------- MODULE VerifiedStream ---------------------------
(***************************************************************************)
(* What a stream of the hashes of a level promises a consumer that stops   *)
(* at its first error: the hashes come one by one in the order of the      *)
(* level, each page's only if the page is right; it ends only after the    *)
(* last one; and it is cut off only where a page begins, by a mismatch     *)
(* only if that very page is wrong.  HashTreeStream implements it.         *)
(***************************************************************************)
EXTENDS Integers

CONSTANTS
  Entries,   \* hashes in a page
  Hashes     \* hashes of the level

VARIABLES
  corrupt,   \* the pages that are wrong
  given,     \* how many hashes were handed out
  yielded,   \* the page and entry handed out for each of them
  verdict    \* "running", "end", "mismatch" or "broken"

NotYielded == [page |-> -1, entry |-> -1]

PageOf(i)  == i \div Entries
EntryOf(i) == i % Entries

Init ==
  /\ corrupt \subseteq Nat
  /\ given = 0 /\ yielded = [i \in 0 .. Hashes - 1 |-> NotYielded]
  /\ verdict = "running"

Give ==
  /\ verdict = "running" /\ given < Hashes /\ PageOf(given) \notin corrupt
  /\ given' = given + 1
  /\ yielded' = [yielded EXCEPT ![given] = [page |-> PageOf(given), entry |-> EntryOf(given)]]
  /\ UNCHANGED <<corrupt, verdict>>

End ==
  /\ verdict = "running" /\ given = Hashes
  /\ verdict' = "end"
  /\ UNCHANGED <<corrupt, given, yielded>>

\* A page is to be read, and is wrong or cannot be had.
AtPage == verdict = "running" /\ given < Hashes /\ EntryOf(given) = 0

Mismatch ==
  /\ AtPage /\ PageOf(given) \in corrupt
  /\ verdict' = "mismatch"
  /\ UNCHANGED <<corrupt, given, yielded>>

Break ==
  /\ AtPage
  /\ verdict' = "broken"
  /\ UNCHANGED <<corrupt, given, yielded>>

Spec == Init /\ [][Give \/ End \/ Mismatch \/ Break]_<<corrupt, given, yielded, verdict>>
=============================================================================
