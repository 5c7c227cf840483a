------------------------------ MODULE Segments ------------------------------
(***************************************************************************)
(* The list of the files of a package, as run_reader of                    *)
(* src/crates/xodus-cli/src/commands/streaming.rs builds it after          *)
(* XvdFile::parse: parse_segment_metadata lays the files that the segment  *)
(* metadata name into the encrypted sections, one after another, and gives *)
(* each the hashes of its pages; parse_ntfs_segment_metadata adds files    *)
(* from the file system, whose hashes populate_segment_hashes looks up     *)
(* (src/crates/msixvc/src/xvd.rs).  Which bytes of the drive are not       *)
(* encrypted is decided by non_encrypted_prefix_len.                       *)
(*                                                                         *)
(* A file of the segment metadata has its index as its name.  Offsets are  *)
(* in pages, lengths of files in bytes.                                    *)
(***************************************************************************)
EXTENDS XvdParse, FiniteSetsExt

CONSTANTS
  SegmentLists,  \* what the metadata may hold: sequences of file sizes
  NtfsNames,     \* names of files in the file system, ...
  NtfsOffsets,   \* ... where they may start, in pages from drive_data on, ...
  NtfsLengths    \* ... and how long they may be

ASSUME SegmentAssumption ==
  /\ \A list \in SegmentLists : list \in Seq(Nat)
  /\ NtfsNames \subseteq Nat /\ NtfsOffsets \subseteq Nat /\ NtfsLengths \subseteq Nat

VARIABLES
  table,     \* how far the list of files is, or how it ended
  segments,  \* the sizes of the files in the metadata
  section,   \* which of the sections the outer loop is at
  segment,   \* segment_no, from 0 on
  at,        \* page_offset
  files      \* rfiles: where a file is and the hashes of its pages

fileVars == <<table, segments, section, segment, at, files>>
allVars == <<vars, fileVars>>

FileInit ==
  /\ table = "none" /\ segments = <<>>
  /\ section = 1 /\ segment = 0 /\ at = 0
  /\ files = <<>>

\* The functions of f, overridden by those of g (HashMap::extend and insert).
Extend(f, g) == [name \in DOMAIN f \cup DOMAIN g |->
                   IF name \in DOMAIN g THEN g[name] ELSE f[name]]

\* The loop over the files starts anew with every section.
Enter(k) ==
  /\ section' = k
  /\ segment' = IF k > Len(sections) THEN 0 ELSE sections[k].first
  /\ at' = IF k > Len(sections) THEN 0 ELSE sections[k].start
-----------------------------------------------------------------------------
\* parse_user_package_files names a SegmentMetadata.bin, whose header and
\* segments are read.  What it finds at the place it reads is left open.
ReadMetadata ==
  /\ phase = "done" /\ table = "none"
  /\ \E list \in SegmentLists : segments' = list
  /\ table' = "segments" /\ Enter(1)
  /\ UNCHANGED files

NoMetadata ==
  /\ phase = "done" /\ table = "none"
  /\ table' = "ntfs"
  /\ UNCHANGED <<segments, section, segment, at, files>>

InSection == table = "segments" /\ section <= Len(sections)

\* The section is full, or there are no more files.
SectionDone ==
  \/ segment >= Len(segments)
  \/ at >= sections[section].start + sections[section].length

NextSection ==
  /\ InSection /\ SectionDone
  /\ Enter(section + 1)
  /\ UNCHANGED <<table, segments, files>>

\* Variant: only the pages a file fills are counted.
SlotOfFullPages(length) == Max2(length \div PageSize, 1)

\* The pages set aside for a file: one even if it is empty.
Slot(length) == Max2(PageCount(length), 1)

\* The next file of the section.  A file
\* that is longer than what is left of the section is past the end of its
\* hashes: the slice panics.
PlaceFile ==
  /\ InSection /\ ~SectionDone
  /\ LET s      == sections[section]
         length == segments[segment + 1]
         begin  == at - s.start
         end    == begin + PageCount(length)
     IN  IF end > Len(s.hashes)
         THEN table' = "failed" /\ UNCHANGED <<segment, at, files>>
         ELSE /\ files' = Extend(files, [name \in {segment} |->
                 [page |-> at, length |-> length, hashes |-> SubSeq(s.hashes, begin + 1, end)]])
              /\ at' = at + Slot(length)
              /\ segment' = segment + 1
              /\ UNCHANGED table
  /\ UNCHANGED <<segments, section>>

EndMetadata ==
  /\ table = "segments" /\ section > Len(sections)
  /\ table' = "ntfs"
  /\ UNCHANGED <<segments, section, segment, at, files>>
-----------------------------------------------------------------------------
\* XvdHeader::layout: where the drive data start.
DriveStart(h) ==
  UserDataStart(h) + PageCount(h.user_data_length) + PageCount(h.xvc_data_length)
    + PageCount(h.dynamic_header_length)

Overlaps(s, start, end) == s.start + s.length > start /\ s.start < end

\* non_encrypted_prefix_len, in pages: up to the first section of the list that
\* overlaps.
PlainPrefix(start, length) ==
  LET overlapping == {k \in DOMAIN sections : Overlaps(sections[k], start, start + length)}
      first == sections[Min(overlapping)]
  IN  IF overlapping = {} THEN length
      ELSE IF start >= first.start THEN 0 ELSE first.start - start

\* The sections that hold the page at which a file begins.
Holding(p) ==
  {k \in DOMAIN sections : sections[k].start <= p
                           /\ p < sections[k].start + sections[k].length}

FirstHolding(p) == Min(Holding(p))

\* Variant: the hashes are taken from the start of the section on.
PopulatedFromStart(f) ==
  IF Holding(f.page) = {} THEN f
  ELSE LET s == sections[FirstHolding(f.page)]
       IN  [f EXCEPT !.hashes = SubSeq(s.hashes, 1, PageCount(f.length))]

\* populate_segment_hashes: a file keeps no hashes when it begins outside of
\* every section; ...
Populated(f) ==
  IF Holding(f.page) = {} THEN f
  ELSE LET s == sections[FirstHolding(f.page)]
           n == f.page - s.start
       IN  [f EXCEPT !.hashes = SubSeq(s.hashes, n + 1, n + PageCount(f.length))]

\* ... it is an error when the file goes on past its section or past the hashes.
Populates(f) ==
  Holding(f.page) # {} =>
    LET s == sections[FirstHolding(f.page)]
    IN  /\ f.page * PageSize + f.length <= (s.start + s.length) * PageSize
        /\ f.page - s.start + PageCount(f.length) <= Len(s.hashes)

\* The files of the file system that are taken: with only_plain, those that
\* begin before the first encrypted page of the drive.
Taken(listing, only_plain) ==
  LET drive == DriveStart(header)
      plain == drive + PlainPrefix(drive, PageCount(header.drive_size))
  IN  [name \in {n \in DOMAIN listing : only_plain => drive + listing[n].page < plain} |->
         [listing[name] EXCEPT !.page = drive + @]]

\* The file system is read, unless there are files already and it may be
\* skipped.  What the gpt and ntfs crates list is external.
ReadNtfs ==
  /\ table = "ntfs"
  /\ \E names \in {{}} \cup {{n} : n \in NtfsNames} :
     \E listing \in [names -> [page : NtfsOffsets, length : NtfsLengths, hashes : {<<>>}]] :
       LET new == Taken(listing, files # <<>>)
       IN  IF \A name \in DOMAIN new : Populates(new[name])
           THEN /\ files' = Extend(files, [name \in DOMAIN new |-> Populated(new[name])])
                /\ table' = "ready"
           ELSE table' = "failed" /\ UNCHANGED files
  /\ UNCHANGED <<segments, section, segment, at>>

SkipNtfs ==
  /\ table = "ntfs" /\ files # <<>>
  /\ table' = "ready"
  /\ UNCHANGED <<segments, section, segment, at, files>>

\* A read or a conversion fails: the caller expects otherwise and panics.
ListFails ==
  /\ phase = "done" /\ table \in {"none", "segments", "ntfs"}
  /\ table' = "failed"
  /\ UNCHANGED <<segments, section, segment, at, files>>

Listing ==
  \/ ReadMetadata
  \/ NoMetadata
  \/ NextSection
  \/ PlaceFile
  \/ EndMetadata
  \/ ReadNtfs
  \/ SkipNtfs

ListNext ==
  \/ Next /\ UNCHANGED fileVars
  \/ (Listing \/ ListFails) /\ UNCHANGED vars

ListInit == Init /\ FileInit

ListSpec == ListInit /\ [][ListNext]_allVars

\* Reads return, and they need not fail.
FairListSpec ==
  ListSpec /\ WF_allVars((Advance /\ UNCHANGED fileVars) \/ (Listing /\ UNCHANGED vars))
-----------------------------------------------------------------------------
InOrder == \A j, k \in DOMAIN sections : j < k => sections[j].start <= sections[k].start

\* A file has the hashes of all of its own pages, in order, or none.  It has
\* none when it is empty or begins outside of the encrypted sections.  A file
\* of the file system that was added to those of the segment metadata begins
\* outside, provided that the sections come in the order of their offsets.
FilesHaveOwnHashes ==
  /\ \A name \in DOMAIN files :
       LET f == files[name]
       IN  /\ f.hashes # <<>> => Len(f.hashes) = PageCount(f.length)
           /\ \A i \in 1 .. Len(f.hashes) : f.hashes[i] = HashOfPage(header, f.page, i)
           /\ f.hashes = <<>> => f.length = 0 \/ Holding(f.page) = {}
  /\ InOrder /\ DOMAIN files \cap 0 .. Len(segments) - 1 # {} =>
       \A name \in DOMAIN files \ (0 .. Len(segments) - 1) : Holding(files[name].page) = {}

\* No two files of the metadata are given a page in common, not even when they
\* are empty or are named by several sections, provided that the sections have
\* none in common.
Apart(start1, length1, start2, length2) == start1 + length1 <= start2 \/ start2 + length2 <= start1

SectionsApart ==
  \A j, k \in DOMAIN sections :
    j # k => Apart(sections[j].start, sections[j].length, sections[k].start, sections[k].length)

FilesApart ==
  SectionsApart /\ table \in {"segments", "ntfs"} =>
    \A a, b \in DOMAIN files :
      a # b => /\ Apart(files[a].page, PageCount(files[a].length),
                        files[b].page, PageCount(files[b].length))
               /\ files[a].page # files[b].page

\* The list of files is finished or has failed, if the package was parsed.
Lists ==
  <>(phase \in {"rejected", "panic", "failed"} \/ table \in {"ready", "failed"})
=============================================================================
