-------------------------- MODULE MCHashTreeStream --------------------------
(***************************************************************************)
(* HashTreeStream on a level of eight hashes in three pages, the last of   *)
(* them not full, delivered in thirds of a page; every set of corrupt      *)
(* pages, and a reader that is long enough or one part short.              *)
(***************************************************************************)
EXTENDS HashTreeStream
=============================================================================
