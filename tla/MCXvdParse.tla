----------------------------- MODULE MCXvdParse -----------------------------
(***************************************************************************)
(* XvdFile::parse and the list of files, with two hash entries and one     *)
(* unused byte to a page, so that a tree over up to sixteen pages has one  *)
(* to four levels: trees of every size, one page too many, and none;       *)
(* regions that begin and end in the middle of a page of hashes, cross     *)
(* several, or are empty.  Up to two files in the metadata and one in the  *)
(* file system, of which some do not fit in their section.                 *)
(***************************************************************************)
EXTENDS Segments

HeadersOf(user_data, xvc_data, dynamic, drive) ==
  [embedded_xvd_length : {6}, mutable_page_count : {1}, user_data_length : user_data,
   xvc_data_length : xvc_data, dynamic_header_length : dynamic, drive_size : drive]
MCHeaders ==
  HeadersOf({6}, {4}, {0}, {0, 1, 15, 24, 30, 65}) \cup HeadersOf({0}, {0, 4}, {0}, {0, 4})
    \cup HeadersOf({6}, {4}, {5}, {24, 65})
MCRegionOffsets == {0, 1, 4}
MCRegionLengths == {0, 2, 5}
MCFirstIndexes == {0, 1}

MCSegmentLists == {<<>>, <<8>>, <<0, 4>>, <<8, 4>>, <<5, 11>>}
MCNtfsNames == {0, 9}
MCNtfsOffsets == {0, 1, 3}
MCNtfsLengths == {0, 7}
=============================================================================
