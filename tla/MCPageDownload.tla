--------------------------- MODULE MCPageDownload ---------------------------
(***************************************************************************)
(* download_file_http on a file of five units in three pages of two, in    *)
(* chunks of up to three units, so that a chunk ends within a page, spans  *)
(* pages and is split by them.                                             *)
(***************************************************************************)
EXTENDS PageDownload

MCModes == {"decrypt", "plain", "keep"}
=============================================================================
