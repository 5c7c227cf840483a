--------------------------- MODULE MCPrefixCache ---------------------------
(***************************************************************************)
(* PrefixCacheFile on a file of four bytes.  An upstream read returns up   *)
(* to three bytes and a write takes up to two, so that a chunk needs more  *)
(* than one write.                                                         *)
(***************************************************************************)
EXTENDS PrefixCache
=============================================================================
