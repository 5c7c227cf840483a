----------------------------- MODULE ByteReader -----------------------------
(***************************************************************************)
(* What a reader of a remote file of Len bytes promises its caller: each   *)
(* read hands over the bytes that follow the current position and advances *)
(* it by as many, and a seek only moves the position.  A byte is           *)
(* identified with its offset in the remote file, so that the byte at      *)
(* offset o is o itself.  HttpRead implements the sequential half of this  *)
(* specification, PrefixCacheFile all of it.                               *)
(***************************************************************************)
EXTENDS Integers

CONSTANT Len    \* the number of bytes of the remote file

VARIABLES
  position,     \* the offset of the next byte to hand over
  received      \* received[o]: the byte the caller was last given for offset o

Offsets == 0 .. Len - 1

\* The value of received[o] before any byte has been given for o.
NoByte == -1

Init ==
  /\ position = 0
  /\ received = [o \in Offsets |-> NoByte]

Deliver ==
  \E n \in 1 .. Len - position :
    /\ position' = position + n
    /\ received' = [o \in Offsets |-> IF o \in position .. position + n - 1 THEN o ELSE received[o]]

Seek ==
  /\ position' \in 0 .. Len
  /\ UNCHANGED received

\* AsyncRead alone, and AsyncRead with AsyncSeek.
SequentialSpec == Init /\ [][Deliver]_<<position, received>>
SeekableSpec   == Init /\ [][Deliver \/ Seek]_<<position, received>>
=============================================================================
