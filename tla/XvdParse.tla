------------------------------ MODULE XvdParse ------------------------------
(***************************************************************************)
(* XvdFile::parse (src/crates/msixvc/src/xvd.rs) with the layout of the    *)
(* file (models/xvd/layout.rs) and the position of a page's hash in it     *)
(* (math.rs): the header gives the sections, the XVC info the regions, and *)
(* for every encrypted region the hash entries of its pages are read from  *)
(* level 0 of the hash tree, in runs that end with a page of the tree.     *)
(* Then parse_user_package_files looks for the header of the user data.    *)
(*                                                                         *)
(* Two pieces of code know where an entry is: the layout, which counts the *)
(* levels of the tree from the top, and the formula of math.rs.  A hash    *)
(* that was read is represented by the offset it was read at.              *)
(***************************************************************************)
EXTENDS Integers, Sequences

CONSTANTS
  PageSize,       \* PAGE_SIZE, in bytes
  EntrySize,      \* HASH_ENTRY_LENGTH, in bytes
  Headers,        \* the headers a file may have
  RegionOffsets,  \* where a region may start, in pages from the user data on
  RegionLengths,  \* how many pages it may have
  FirstIndexes,   \* first_segment_index: the first file in it
  MaxRegions      \* bound on xvc_info.region_count

HeaderFields ==
  {"embedded_xvd_length", "mutable_page_count", "user_data_length", "xvc_data_length",
   "dynamic_header_length", "drive_size"}

ASSUME SizeAssumption ==
  /\ PageSize \in Nat \ {0} /\ EntrySize \in 1 .. PageSize
  /\ MaxRegions \in Nat
ASSUME InputAssumption ==
  /\ \A h \in Headers : h \in [HeaderFields -> Nat]
  /\ RegionOffsets \subseteq Nat /\ RegionLengths \subseteq Nat
  /\ FirstIndexes \subseteq Nat

Min2(a, b) == IF a <= b THEN a ELSE b
Max2(a, b) == IF a >= b THEN a ELSE b
CeilDiv(a, b) == (a + b - 1) \div b

\* Bytes::to_page_count.
PageCount(bytes) == CeilDiv(bytes, PageSize)

\* HASH_ENTRIES_IN_PAGE and PAGES_PER_BLOCK: both are 170, 4096 \div 24 and
\* 0xAA000 \div 4096.
E == PageSize \div EntrySize

\* MAX_HASHED_PAGES.
MaxHashedPages == E * E * E * E
-----------------------------------------------------------------------------
\* XvdHeader::number_of_hashed_pages.
HashedPages(h) ==
  PageCount(h.user_data_length) + PageCount(h.xvc_data_length)
    + PageCount(h.dynamic_header_length) + PageCount(h.drive_size)

\* The hash of a single page is in the header and not in a level of the tree.
StoredHashes(pages) == IF pages = 1 THEN 0 ELSE pages
LevelPages(pages)   == CeilDiv(StoredHashes(pages), E)

\* HashTreeLayout::new: how many pages a level has, for n hashed pages.
Level0Pages(n) == Max2(LevelPages(n), 1)
Level1Pages(n) == LevelPages(Level0Pages(n))
Level2Pages(n) == LevelPages(Level1Pages(n))
Level3Pages(n) == LevelPages(Level2Pages(n))

\* The levels are stored from 3 down to 0, without a gap.
Level0Start(n) == Level3Pages(n) + Level2Pages(n) + Level1Pages(n)
TreePages(n)   == Level0Start(n) + Level0Pages(n)

\* HashTreeLevel::num_hashes of level k, and top_level: the first level that
\* has hashes for one page only.
NumHashes(n, k) == CASE k = 0 -> n
                     [] k = 1 -> StoredHashes(Level0Pages(n))
                     [] k = 2 -> StoredHashes(Level1Pages(n))
                     [] k = 3 -> StoredHashes(Level2Pages(n))
IsTop(n, k) == NumHashes(n, k) \in 1 .. E
TopLevel(n) == CHOOSE k \in 0 .. 3 : IsTop(n, k) /\ \A j \in 0 .. k - 1 : ~IsTop(n, j)

\* XvdHeader::layout: where a section starts, in pages.
HashTreeStart(h) ==
  3 + PageCount(h.embedded_xvd_length) + h.mutable_page_count
UserDataStart(h) == HashTreeStart(h) + TreePages(HashedPages(h))
-----------------------------------------------------------------------------
\* Variant: the level above is left out.
HashBlockNoLevel1(block, n, levels) == block \div E

\* calculate_hash_block_num_and_run_for_block_num, at level 0: the page of the
\* tree, for a tree of so many levels over n pages, ...
HashBlock(block, n, levels) ==
  (block \div E)
    + (IF levels > 1 THEN CeilDiv(n, E * E) ELSE 0)
    + (IF levels > 2 THEN CeilDiv(n, E * E * E) ELSE 0)
    + (IF levels > 3 THEN CeilDiv(n, E * E * E * E) ELSE 0)

\* ... the entry in it, and the entries from there to the end of the page.
EntryInBlock(block) == block % E

\* Variant: the entry itself is not counted.
RunLengthAfter(block) == E - EntryInBlock(block) - 1
RunLength(block) == E - EntryInBlock(block)
-----------------------------------------------------------------------------
VARIABLES
  header,    \* xvd_header
  phase,     \* how far the parser is, or how it ended
  regions,   \* region_headers
  region,    \* which of them the loop is at
  page,      \* the loop variable: its pages whose hashes have been read
  hashes,    \* data_hashs: where each of them was read
  sections,  \* enc_sections
  user_read  \* where the header of the user data was read, -1 before

vars == <<header, phase, regions, region, page, hashes, sections, user_read>>

Init ==
  /\ header \in Headers
  /\ phase = "header"
  /\ regions = <<>> /\ region = 1
  /\ page = 0 /\ hashes = <<>> /\ sections = <<>>
  /\ user_read = -1

\* XvdHeader::try_parse and layout(): no more pages than the tree can cover;
\* HashTreeLayout::new asserts that there is one.
ReadHeader ==
  /\ phase = "header"
  /\ phase' = CASE HashedPages(header) > MaxHashedPages -> "rejected"
                [] HashedPages(header) = 0              -> "panic"
                [] OTHER                                -> "info"
  /\ UNCHANGED <<header, regions, region, page, hashes, sections, user_read>>

\* A region of pages that are hashed: the offset is that in the file, the key
\* none, the first or another.
RegionsOf(h) ==
  {r \in [offset : {UserDataStart(h) + o : o \in RegionOffsets}, length : RegionLengths,
          key : {"none", "first", "other"}, first : FirstIndexes] :
     r.offset + r.length <= UserDataStart(h) + HashedPages(h)}

\* The region headers that follow the XVC info, if there is any.
ReadRegions ==
  /\ phase = "info"
  /\ \E k \in 0 .. MaxRegions : regions' \in [1 .. k -> RegionsOf(header)]
  /\ header.xvc_data_length = 0 => regions' = <<>>
  /\ phase' = "hashes"
  /\ UNCHANGED <<header, region, page, hashes, sections, user_read>>

AtRegion == phase = "hashes" /\ region <= Len(regions)

SkipRegion ==
  /\ AtRegion /\ regions[region].key = "none"
  /\ region' = region + 1
  /\ UNCHANGED <<header, phase, regions, page, hashes, sections, user_read>>

\* A todo!(): only one key is supported.
UnsupportedKey ==
  /\ AtRegion /\ regions[region].key = "other"
  /\ phase' = "panic"
  /\ UNCHANGED <<header, regions, region, page, hashes, sections, user_read>>

\* Variant: a run is not cut at the end of the region.
RunOfBlockUncut(block, left) == RunLength(block)

RunOfBlock(block, left) == Min2(RunLength(block), left)

\* One iteration of the loop: the entries of a run are read, one after another
\* from the offset of the first.
ReadRun ==
  /\ AtRegion /\ regions[region].key = "first" /\ page < regions[region].length
  /\ LET n     == HashedPages(header)
         block == regions[region].offset - UserDataStart(header) + page
         run   == RunOfBlock(block, regions[region].length - page)
         first == (HashTreeStart(header) + HashBlock(block, n, TopLevel(n) + 1)) * PageSize
                    + EntryInBlock(block) * EntrySize
     IN  /\ hashes' = hashes \o [i \in 1 .. run |-> first + (i - 1) * EntrySize]
         /\ page' = page + run
  /\ UNCHANGED <<header, phase, regions, region, sections, user_read>>

\* The region's pages are done.
EndRegion ==
  /\ AtRegion /\ regions[region].key = "first" /\ page >= regions[region].length
  /\ LET r == regions[region]
     IN  sections' = Append(sections, [start |-> r.offset, length |-> r.length,
                                       first |-> r.first, hashes |-> hashes])
  /\ region' = region + 1 /\ page' = 0 /\ hashes' = <<>>
  /\ UNCHANGED <<header, phase, regions, user_read>>

EndRegions ==
  /\ phase = "hashes" /\ region > Len(regions)
  /\ phase' = "parsed"
  /\ UNCHANGED <<header, regions, region, page, hashes, sections, user_read>>

\* parse_user_package_files: the first read.
ReadUserData ==
  /\ phase = "parsed"
  /\ user_read' = UserDataStart(header)
  /\ phase' = "done"
  /\ UNCHANGED <<header, regions, region, page, hashes, sections>>

\* A read ends early: the error is returned.
ReadFails ==
  /\ phase \in {"header", "info", "hashes", "parsed"}
  /\ phase' = "failed"
  /\ UNCHANGED <<header, regions, region, page, hashes, sections, user_read>>

Advance ==
  \/ ReadHeader
  \/ ReadRegions
  \/ SkipRegion
  \/ UnsupportedKey
  \/ ReadRun
  \/ EndRegion
  \/ EndRegions
  \/ ReadUserData

Next == Advance \/ ReadFails

Spec == Init /\ [][Next]_vars
-----------------------------------------------------------------------------
\* Type invariant.
TypeOK ==
  /\ header \in Headers
  /\ phase \in {"header", "info", "hashes", "parsed", "done", "rejected", "panic", "failed"}
  /\ region \in 1 .. Len(regions) + 1
  /\ page = Len(hashes)
  /\ AtRegion => page \in 0 .. regions[region].length
  /\ Len(sections) < region
  /\ user_read \in Nat \cup {-1}

\* Where the layout puts the hash of the p-th hashed page: HashTreeLevel stores
\* E entries in a page of level 0 and nothing in the rest of it.
EntryOffset(h, p) ==
  (HashTreeStart(h) + Level0Start(HashedPages(h)) + p \div E) * PageSize + (p % E) * EntrySize

\* Every hash that is kept for a page of a region, finished or not, was read
\* from the entry of that page, in any size of tree and wherever the region
\* begins and ends in it; a section has one hash for each of its pages.
HashOfPage(h, start, i) == EntryOffset(h, start - UserDataStart(h) + i - 1)
HashesAreOfOwnPages ==
  /\ \A s \in 1 .. Len(sections) :
       /\ Len(sections[s].hashes) = sections[s].length
       /\ \A i \in 1 .. sections[s].length :
            sections[s].hashes[i] = HashOfPage(header, sections[s].start, i)
  /\ \A i \in 1 .. Len(hashes) : hashes[i] = HashOfPage(header, regions[region].offset, i)

\* The header of the user data is read in the user data section.
UserDataReadInside ==
  user_read # -1 /\ header.user_data_length > 0 =>
    user_read \in UserDataStart(header) * PageSize
                    .. UserDataStart(header) * PageSize + header.user_data_length - 1
=============================================================================
