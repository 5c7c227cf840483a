----------------------------- MODULE MCHttpRead -----------------------------
(***************************************************************************)
(* HttpRead on a file of five bytes.  A chunk is at most two bytes and a   *)
(* buffer at most three, so that chunks are split over reads and reads     *)
(* need several chunks; a reopened response may announce one byte less     *)
(* than the first; a body may run one byte past the end.                   *)
(***************************************************************************)
EXTENDS HttpRead

MCTotals == {FileLength - 1, FileLength}
=============================================================================
