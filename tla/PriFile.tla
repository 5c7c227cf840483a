------------------------------ MODULE PriFile -------------------------------
(***************************************************************************)
(* Pri::read and the index it builds (msixvc-common/src/resources/pri.rs   *)
(* and index/): the header, the table of contents, the bounds of every     *)
(* section, the descriptor's lists, then the sections they name one after  *)
(* another, schemas, decisions, data items and maps; after that the index  *)
(* answers for a path and a context.                                       *)
(*                                                                         *)
(* The input is any of the given contents as PriImage writes it, read      *)
(* whole or cut off before any of its fields, or with one section that     *)
(* declares a byte less than its tables take.                              *)
(***************************************************************************)
EXTENDS PriImage, PriQuery

CONSTANTS
  Contents,  \* the contents a file may have, a sequence
  Contexts   \* the contexts it is asked with

IsList(x) == x \in Seq(Range(x))

\* A condition tests a language tag, a number or a name, by its type.
ValuesOf(type) ==
  CASE type = "Language"                        -> Seq(STRING) \ {<<>>}
    [] type \in Numeric                         -> Int
    [] type \notin Numeric \cup {"Language"}     -> STRING
IsQualifier(q) ==
  q \in [type : Range(QualifierTypes), value : ValuesOf(q.type), priority : Nat,
         fallback_score : Nat]

DecisionsAreWellFormed(c) ==
  /\ IsList(c.decisions)
  /\ \A d \in Range(c.decisions) :
       IsList(d) /\ \A s \in Range(d) : IsList(s) /\ \A q \in Range(s) : IsQualifier(q)

\* Every name stands below one of the table; no two have the same path.
NamesAreWellFormed(c) ==
  /\ c.names \in Seq([path : Seq(STRING) \ {<<>>}, prop : Nat, scope : BOOLEAN,
                     ascii : BOOLEAN, z : BOOLEAN])
  /\ \A i, j \in DOMAIN c.names : c.names[i].path = c.names[j].path => i = j
  /\ \A i \in DOMAIN c.names : Len(c.names[i].path) > 1 =>
       \E j \in DOMAIN c.names : c.names[j].path = Front(c.names[i].path)
  /\ \A i \in DOMAIN c.names : c.names[i].ascii => c.extended

\* Every item has one variant for each set of its decision; the packings in
\* groups need items with consecutive properties.
Stores == {"Embedded", "DataString", "DataBlob", "External", "Odd"}
IsVariant(v) ==
  v \in [store : Stores, type : Range(ResourceValueTypes),
         data : IF v.store = "External" THEN Nat ELSE STRING]
Run(items, first) ==
  \A k \in first .. Len(items) : items[k].prop = items[first].prop + (k - first)
ItemsAreWellFormed(c) ==
  /\ IsList(c.items) /\ c.items # <<>>
  /\ \A item \in Range(c.items) :
       /\ item \in [prop : Nat, decision : DOMAIN c.decisions, variants : Seq(Range(item.variants))]
       /\ Len(item.variants) = Len(c.decisions[item.decision])
       /\ \A v \in Range(item.variants) : IsVariant(v)
  /\ \A i, j \in DOMAIN c.items : c.items[i].prop = c.items[j].prop => i = j
  /\ c.packing \in {"groups", "single", "extension", "extension_groups"}
  /\ c.packing = "groups" => Run(c.items, 1)
  /\ c.packing = "extension_groups" => Len(c.items) > 1 /\ Run(c.items, 2)

IsContents(c) ==
  /\ DecisionsAreWellFormed(c) /\ NamesAreWellFormed(c) /\ ItemsAreWellFormed(c)
  /\ \A i \in DOMAIN c.names : ~c.names[i].scope =>
       \E k \in DOMAIN c.items : c.items[k].prop = c.names[i].prop
  /\ c.extended \in BOOLEAN /\ c.primary \in BOOLEAN /\ c.magic \in STRING

ASSUME ContentsAssumption == \A of \in DOMAIN Contents : IsContents(Contents[of])

\* A context lists any number of language tags; numbers are unsigned.
IsContext(ctx) ==
  /\ "Language" \in DOMAIN ctx /\ ctx["Language"] \in Seq(Seq(STRING) \ {<<>>})
  /\ \A type \in Numeric \cap DOMAIN ctx : ctx[type] \in Nat

ASSUME ContextsAssumption == \A ctx \in Contexts : IsContext(ctx)

VARIABLES
  file,      \* which contents, the section that is short (0 for none), the
             \* fields that begin at each offset, and how long the file is,
             \* whole and as far as there are bytes to read
  phase,     \* what comes next; "ready" once the index is built, or "failed"
  toc,       \* the entries of the table of contents
  data,      \* the range of the file that holds each section's data
  pending,   \* the sections still to be built: kind and section index
  index,     \* the index so far
  asked      \* the last question, its answer and the explanation

vars == <<file, phase, toc, data, pending, index, asked>>

Sections == 5
Nothing == [f \in {} |-> 0]
Unasked == [path |-> <<>>]

\* The field of the file that begins at an offset; reading across fields gives
\* no value that was written.
Field(at, width) ==
  IF at \in DOMAIN file.at /\ file.at[at][2] = width THEN file.at[at][1] ELSE -1

\* A record of type S that begins at an offset of the file, and n of them.
Get(S, at)     == [f \in DOMAIN S.at |-> Field(at + S.at[f][1], S.at[f][2])]
Rows(S, at, n) == [i \in 1 .. n |-> Get(S, at + (i - 1) * S.size)]

\* Variant: the start of the bytes is checked and not their end.
FitsStart(range, pos, n) == pos <= range.len

\* Whether n bytes from pos on lie within a range of bytes.
Fits(range, pos, n) == pos + n <= range.len

\* A part of a range, given its place and length in it.
Part(range, place) == [base |-> range.base + place[1], len |-> place[2]]

\* The text of a block: count characters of the given width from an offset on,
\* or those up to the terminator; out of bounds it is cut, not refused.
DecodeAt(block, offset, count, width) ==
  IF Fits(block, offset * width, count * width)
  THEN Field(block.base + offset * width, count * width) ELSE "cut"
DecodeZ(block, offset, width) ==
  IF Field(block.base + (offset + Chars) * width, width) = 0
  THEN DecodeAt(block, offset, Chars, width) ELSE "cut"
-----------------------------------------------------------------------------
\* A builder gives what it built, or nothing if it fails.  It reads its tables
\* one after another, each as long as a count before it says, so that they are
\* complete if the end of the last one lies in the section.
Built(ok, value) == IF ok THEN <<value>> ELSE <<>>

ResolveName(unicode, ascii, entry) ==
  LET block == IF IsAscii(entry) THEN ascii ELSE unicode
      width == IF IsAscii(entry) THEN 1 ELSE 2
  IN  IF entry.name_length = 0 THEN DecodeZ(block, NameOffset(entry), width)
      ELSE DecodeAt(block, NameOffset(entry), entry.name_length, width)

\* The names from the root to each entry, whose own names are given.  An entry
\* that is its own parent or whose parent does not exist is at the root; a chain
\* is followed for as many steps as there are names.
FullPaths(names, own) ==
  LET N == Len(names)
      Parent(i) == names[i].parent_scope_index + 1
      up[steps \in 0 .. N] ==
        IF steps = 0 THEN [i \in 1 .. N |-> <<own[i]>>]
        ELSE LET nearer == up[steps - 1]
             IN  [i \in 1 .. N |-> IF Parent(i) = i \/ Parent(i) > N THEN <<own[i]>>
                                   ELSE Append(nearer[Parent(i)], own[i])]
  IN  up[N]

\* The properties of the items by their paths; of items of one path the last
\* counts, scopes have none.
BuildSchema(range, extended) ==
  LET prefix  == Get(HierarchicalSchemaHeader, range.base)
      head    == Struct(<<"prefix", "hname", "version", "unique_name", "name",
                          "trailer", "ascii_length">>,
                        <<HierarchicalSchemaHeader.size,
                          IF extended THEN HNameIdentifier.size ELSE 0,
                          HSchemaVersionInfo.size,
                          2 * prefix.unique_name_length, 2 * prefix.name_length,
                          HierarchicalSchemaTrailer.size,
                          IF extended THEN 4 ELSE 0>>)
      trailer == Get(HierarchicalSchemaTrailer, range.base + head.at.trailer[1])
      tables  == Struct(<<"head", "names", "scopes", "items", "unicode", "ascii">>,
                        <<head.size,
                          trailer.number_of_resource_names * ResourceNameEntry.size,
                          trailer.number_of_scopes * ScopeEntry.size,
                          trailer.number_of_items * ItemEntry.size,
                          2 * trailer.unicode_name_block_length,
                          IF extended THEN Field(range.base + head.at.ascii_length[1], 4) ELSE 0>>)
      names   == Rows(ResourceNameEntry, range.base + tables.at.names[1],
                      trailer.number_of_resource_names)
      short   == [i \in DOMAIN names |->
                    ResolveName(Part(range, tables.at.unicode), Part(range, tables.at.ascii), names[i])]
      full_paths == FullPaths(names, short)
      items   == {i \in DOMAIN names : ~IsScope(names[i])}
      Named(path) == Max({i \in items : full_paths[i] = path})
  IN  Built(Fits(range, 0, tables.size),
            [path \in {full_paths[i] : i \in items} |-> names[Named(path)].index_property])

\* The entries of table that a part of the index table names; Whole says that
\* the part and the entries exist.
Whole(index_table, first, count, table) ==
  /\ first + count <= Len(index_table)
  /\ \A i \in first + 1 .. first + count : index_table[i] < Len(table)
ResolveRange(index_table, first, count, table) ==
  [i \in 1 .. count |-> table[index_table[first + i] + 1]]

BuildDecisions(range) ==
  LET header == Get(DecisionInfoHeader, range.base)
      tables == Struct(<<"header", "decisions", "sets", "qualifiers",
                         "distinct", "index_table", "values">>,
                       <<DecisionInfoHeader.size,
                         header.number_of_decisions * DecisionEntry.size,
                         header.number_of_qualifier_sets * QualifierSetEntry.size,
                         header.number_of_qualifiers * QualifierEntry.size,
                         header.number_of_distinct_qualifiers * DistinctQualifierEntry.size,
                         header.number_of_index_table_entries * 2,
                         header.qualifier_value_block_length * 2>>)
      At(name) == range.base + tables.at[name][1]
      D == Rows(DecisionEntry, At("decisions"), header.number_of_decisions)
      S == Rows(QualifierSetEntry, At("sets"), header.number_of_qualifier_sets)
      Q == Rows(QualifierEntry, At("qualifiers"), header.number_of_qualifiers)
      C == Rows(DistinctQualifierEntry, At("distinct"), header.number_of_distinct_qualifiers)
      index_table == [i \in 1 .. header.number_of_index_table_entries |->
                        Field(At("index_table") + 2 * (i - 1), 2)]
      Tested(q) == C[q.distinct_qualifier_index + 1]
      Value(q)    == DecodeZ(Part(range, tables.at.values), Tested(q).qualifier_value_offset, 2)
      qualifiers  == [i \in DOMAIN Q |->
                        [type |-> QualifierTypes[Tested(Q[i]).qualifier_type + 1],
                         value |-> Value(Q[i]), priority |-> Q[i].priority,
                         fallback_score |-> Q[i].fallback_score]]
      sets == [i \in DOMAIN S |-> ResolveRange(index_table, S[i].first_qualifier_index,
                                               S[i].number_of_qualifiers, qualifiers)]
  IN  Built(/\ Fits(range, 0, tables.size)
            /\ \A i \in DOMAIN C : C[i].qualifier_type < Len(QualifierTypes)
            /\ \A i \in DOMAIN Q : Q[i].distinct_qualifier_index < Len(C)
            /\ \A i \in DOMAIN S : Whole(index_table, S[i].first_qualifier_index,
                                         S[i].number_of_qualifiers, Q)
            /\ \A i \in DOMAIN D : Whole(index_table, D[i].first_qualifier_set_index,
                                         D[i].number_of_qualifier_sets, S),
            [i \in DOMAIN D |-> ResolveRange(index_table, D[i].first_qualifier_set_index,
                                             D[i].number_of_qualifier_sets, sets)])

\* The strings, then the blobs.
BuildDataItems(range) ==
  LET header == Get(DataItemHeader, range.base)
      tables == Struct(<<"header", "strings", "blobs", "stored">>,
                       <<DataItemHeader.size,
                         header.number_of_strings * StringEntry.size,
                         header.number_of_blobs * BlobEntry.size,
                         header.total_data_length>>)
      stored  == Part(range, tables.at.stored)
      entries == Rows(StringEntry, range.base + tables.at.strings[1], header.number_of_strings)
                 \o Rows(BlobEntry, range.base + tables.at.blobs[1], header.number_of_blobs)
  IN  Built(/\ Fits(range, 0, tables.size)
            /\ \A i \in DOMAIN entries : Fits(stored, entries[i].offset, entries[i].length),
            [i \in DOMAIN entries |-> Field(stored.base + entries[i].offset, entries[i].length)])

\* The items by their properties.  An entry maps a run of properties to a group
\* of iteminfos; a group index past the groups means the single iteminfo that
\* lies so many behind the first.  The extension's entries follow the tables'.
MapItems(mapped, groups, infos) ==
  LET Group(m) == IF m[2] >= Len(groups) THEN <<1, m[2] - Len(groups)>> ELSE groups[m[2] + 1]
      runs == {r \in (1 .. Len(mapped)) \X (0 .. Len(infos)) : r[2] < Group(mapped[r[1]])[1]}
      Property(r) == mapped[r[1]][1] + r[2]
      Info(r) == Group(mapped[r[1]])[2] + r[2] + 1
      Latest(p) == CHOOSE r \in runs : /\ Property(r) = p
                                       /\ \A q \in runs : Property(q) = p => q[1] <= r[1]
  IN  Built(\A r \in runs : Info(r) <= Len(infos),
            [p \in {Property(r) : r \in runs} |->
               [decision_index |-> infos[Info(Latest(p))][1],
                first_candidate_index |-> infos[Info(Latest(p))][2]]])

\* A candidate whose data is in the map, in a data item section or, with a
\* source file, in one of another file.
Candidate(embedded, at) ==
  LET e == Get(EmbeddedCandidate, at)
      r == Get(ReferencedCandidate, at)
      form == Get(CandidateType, at).candidate_type
  IN  CASE form = 0 ->
             [kind |-> "Embedded", type_index |-> e.resource_value_type_index,
              data |-> Field(embedded.base + e.embedded_data_offset, e.embedded_data_length)]
        [] form = 1 /\ r.source_file = 0 ->
             [kind |-> "DataItem", type_index |-> r.resource_value_type_index,
              section_index |-> r.data_item_section_index, data_item_index |-> r.data_item_index]
        [] form = 1 /\ r.source_file # 0 ->
             [kind |-> "External", type_index |-> r.resource_value_type_index,
              referenced_file_index |-> r.source_file - 1,
              section_index |-> r.data_item_section_index, data_item_index |-> r.data_item_index]
        [] OTHER -> [kind |-> "Unknown", candidate_type |-> form]
Lies(embedded, at) ==
  LET e == Get(EmbeddedCandidate, at)
  IN  e.candidate_type = 0 => Fits(embedded, e.embedded_data_offset, e.embedded_data_length)

Pairs(S, at, n, f, g) == [i \in 1 .. n |-> <<Rows(S, at, n)[i][f], Rows(S, at, n)[i][g]>>]

BuildMap(range) ==
  LET header == Get(ResourceMapHeader, range.base)
      kept   == Struct(<<"header", "environments", "schema", "types", "mapped",
                         "groups", "infos">>,
                       <<ResourceMapHeader.size,
                         header.environment_references_block_length,
                         header.hierarchical_schema_reference_block_length,
                         header.resource_value_type_table_entries * ResourceValueTypeEntry.size,
                         header.item_to_iteminfo_group_table_entries * ItemToItemInfoGroupEntry.size,
                         header.iteminfo_group_table_entries * ItemInfoGroupEntry.size,
                         header.iteminfo_table_entries * ItemInfoEntry.size>>)
      extended == header.table_extension_block_length > 0
      more   == IF extended THEN Get(TableExtensionHeader, range.base + kept.size)
                ELSE [f \in DOMAIN TableExtensionHeader.at |-> 0]
      tables == Struct(<<"kept", "extension", "mapped", "groups", "infos",
                         "candidates", "embedded">>,
                       <<kept.size,
                         IF extended THEN TableExtensionHeader.size ELSE 0,
                         more.additional_item_to_iteminfo_group_entries * ItemToItemInfoGroupEntryExt.size,
                         more.additional_iteminfo_group_entries * ItemInfoGroupEntryExt.size,
                         more.additional_iteminfo_entries * ItemInfoEntryExt.size,
                         header.number_of_candidates * EmbeddedCandidate.size,
                         header.embedded_data_block_length>>)
      Kept(name) == range.base + kept.at[name][1]
      More(name) == range.base + tables.at[name][1]
      types  == Rows(ResourceValueTypeEntry, Kept("types"),
                     header.resource_value_type_table_entries)
      mapped == Pairs(ItemToItemInfoGroupEntry, Kept("mapped"),
                      header.item_to_iteminfo_group_table_entries,
                      "first_item_index_property", "iteminfo_group_index")
                \o Pairs(ItemToItemInfoGroupEntryExt, More("mapped"),
                         more.additional_item_to_iteminfo_group_entries,
                         "first_item_index_property", "iteminfo_group_index")
      groups == Pairs(ItemInfoGroupEntry, Kept("groups"), header.iteminfo_group_table_entries,
                      "number_of_iteminfos", "first_iteminfo_index")
                \o Pairs(ItemInfoGroupEntryExt, More("groups"),
                         more.additional_iteminfo_group_entries,
                         "number_of_iteminfos", "first_iteminfo_index")
      infos  == Pairs(ItemInfoEntry, Kept("infos"), header.iteminfo_table_entries,
                      "decision_index", "first_candidate_index")
                \o Pairs(ItemInfoEntryExt, More("infos"), more.additional_iteminfo_entries,
                         "decision_index", "first_candidate_index")
      embedded  == Part(range, tables.at.embedded)
      At(i)     == More("candidates") + (i - 1) * EmbeddedCandidate.size
      items     == MapItems(mapped, groups, infos)
  IN  Built(/\ Fits(range, 0, tables.size)
            /\ \A i \in DOMAIN types : types[i].resource_value_type < Len(ResourceValueTypes)
            /\ \A i \in 1 .. header.number_of_candidates : Lies(embedded, At(i))
            /\ items # <<>>,
            [schema_index   |-> header.hierarchical_schema_section_index,
             decision_index |-> header.decision_info_section_index,
             resource_value_types |->
               [i \in DOMAIN types |-> ResourceValueTypes[types[i].resource_value_type + 1]],
             items |-> items[1],
             candidates |-> [i \in 1 .. header.number_of_candidates |-> Candidate(embedded, At(i))]])
-----------------------------------------------------------------------------
\* A stream of any of the files, whole or ending before one of its fields, or
\* of one with a short section.
Init ==
  /\ \E of \in DOMAIN Contents, short \in 0 .. Sections :
       \E img \in {Image(WriteFile(Contents[of], short))} :
         \E len \in {img.len} \cup IF short = 0 THEN DOMAIN img.at ELSE {} :
           file = [of |-> of, short |-> short, whole |-> img.len, len |-> len, at |-> img.at]
  /\ phase = "read"
  /\ toc = <<>> /\ data = <<>> /\ pending = <<>>
  /\ index = [primary |-> NoIndex, resource_maps |-> Nothing, hierarchical_schemas |-> Nothing,
              decision_infos |-> Nothing, data_item_sections |-> Nothing]
  /\ asked = Unasked

Buffer == [base |-> 0, len |-> file.len]

\* The next phase, or the end of the attempt.
Continue(ok, next) == phase' = IF ok THEN next ELSE "failed"

\* All bytes of the stream are read before any is looked at; it may fail.
ReadToEnd ==
  /\ phase = "read"
  /\ \E ok \in BOOLEAN : Continue(ok, "header")
  /\ UNCHANGED <<file, toc, data, pending, index, asked>>

\* The header, and the table of contents it points at.
ReadHeader ==
  LET header == Get(ResourceHeader, 0)
      toc_at == header.table_of_contents_offset
      ok == /\ Fits(Buffer, 0, ResourceHeader.size)
            /\ header.version_identifier \in Magics
            /\ Fits(Buffer, toc_at, header.number_of_sections * TableOfContentsEntry.size)
  IN  /\ phase = "header"
      /\ Continue(ok, "sections")
      /\ toc' = IF ok THEN Rows(TableOfContentsEntry, toc_at, header.number_of_sections) ELSE toc
      /\ UNCHANGED <<file, data, pending, index, asked>>

\* Variant: the declared length is believed.
SectionDataUnchecked(entry) ==
  LET at == Get(ResourceHeader, 0).first_section_offset + entry.section_offset
  IN  <<[base |-> at + SectionHeader.size, len |->
           Get(SectionHeader, at).section_length - SectionHeader.size - SectionFooter.size]>>

\* The data of a section: the length its own header declares counts the header
\* and the footer.
SectionData(entry) ==
  LET at     == Get(ResourceHeader, 0).first_section_offset + entry.section_offset
      length == Get(SectionHeader, at).section_length - SectionHeader.size - SectionFooter.size
      start  == at + SectionHeader.size
  IN  Built(/\ Fits(Buffer, at, SectionHeader.size) /\ length >= 0
            /\ Fits(Buffer, start, length), [base |-> start, len |-> length])

SliceSections ==
  LET ok == \A i \in DOMAIN toc : SectionData(toc[i]) # <<>>
  IN  /\ phase = "sections"
      /\ Continue(ok, "descriptor")
      /\ data' = IF ok THEN [i \in DOMAIN toc |-> SectionData(toc[i])[1]] ELSE data
      /\ UNCHANGED <<file, toc, pending, index, asked>>

\* The first descriptor and the lists of sections behind it, to be built in the
\* order schemas, decisions, data items, maps; referenced files are not built.
ReadDescriptor ==
  LET found == {i \in DOMAIN toc : toc[i].section_type = "Descriptor"}
      range == data[Min(found)]
      descriptor == Get(PriDescriptor, range.base)
      counts == <<descriptor.hierarchical_schema_count, descriptor.decision_info_count,
                  descriptor.resource_map_count, descriptor.referenced_file_sections_count,
                  descriptor.data_item_section_count>>
      end(k)  == PriDescriptor.size + 2 * TotalOf(SubSeq(counts, 1, k))
      List(k, kind) == [i \in 1 .. counts[k] |->
                          <<kind, Field(range.base + end(k - 1) + 2 * (i - 1), 2)>>]
      ok == found # {} /\ Fits(range, 0, end(Len(counts)))
  IN  /\ phase = "descriptor"
      /\ Continue(ok, "build")
      /\ pending' = IF ok THEN List(1, "schema") \o List(2, "decisions") \o List(5, "data items")
                               \o List(3, "map")
                    ELSE pending
      /\ index' = IF ok THEN [index EXCEPT !.primary = descriptor.primary_resource_map_index]
                  ELSE index
      /\ UNCHANGED <<file, toc, data, asked>>

\* The section types each list may name, how a section is built and where the
\* result is kept.
Expected(kind) ==
  CASE kind = "schema"     -> {"HierarchicalSchema", "HierarchicalSchemaEx"}
    [] kind = "decisions"  -> {"DecisionInfo"}
    [] kind = "data items" -> {"DataItem"}
    [] kind = "map"        -> {"ResourceMap"}

Build(kind, i) ==
  CASE kind = "schema"     -> BuildSchema(data[i], toc[i].section_type = "HierarchicalSchemaEx")
    [] kind = "decisions"  -> BuildDecisions(data[i])
    [] kind = "data items" -> BuildDataItems(data[i])
    [] kind = "map"        -> BuildMap(data[i])

Place(kind) ==
  CASE kind = "schema"     -> "hierarchical_schemas"
    [] kind = "decisions"  -> "decision_infos"
    [] kind = "data items" -> "data_item_sections"
    [] kind = "map"        -> "resource_maps"

\* A map with a value under a key, in place of any it had there.
Insert(map, key, value) ==
  [k \in DOMAIN map \cup {key} |-> IF k = key THEN value ELSE map[k]]

\* The next section of the lists is built and kept under its section index; it
\* fails if there is none of that index or it has another type.
BuildSection ==
  LET kind  == Head(pending)[1]
      at    == Head(pending)[2]
      named == at + 1 \in DOMAIN toc /\ toc[at + 1].section_type \in Expected(kind)
  IN  /\ phase = "build" /\ pending # <<>>
      /\ \E built \in {IF named THEN Build(kind, at + 1) ELSE <<>>} :
           /\ Continue(built # <<>>, "build")
           /\ index' = IF built = <<>> THEN index
                       ELSE [index EXCEPT ![Place(kind)] = Insert(@, at, built[1])]
      /\ pending' = Tail(pending)
      /\ UNCHANGED <<file, toc, data, asked>>

Finish ==
  /\ phase = "build" /\ pending = <<>>
  /\ phase' = "ready"
  /\ UNCHANGED <<file, toc, data, pending, index, asked>>

\* A question, its answer and the explanation: any path of the contents, and
\* one that none has.
Ask(path, ctx) ==
  /\ phase = "ready"
  /\ asked' = [path |-> path, ctx |-> ctx, answer |-> Resolve(index, path, ctx),
               explain |-> Explain(index, path, ctx)]
  /\ UNCHANGED <<file, phase, toc, data, pending, index>>

Paths == UNION {{Contents[c].names[i].path : i \in DOMAIN Contents[c].names} :
                  c \in DOMAIN Contents} \cup {<<"missing">>}

Next ==
  \/ ReadToEnd \/ ReadHeader \/ SliceSections \/ ReadDescriptor \/ BuildSection \/ Finish
  \/ \E path \in Paths, ctx \in Contexts : Ask(path, ctx)

Spec == Init /\ [][Next]_vars
-----------------------------------------------------------------------------
\* What the contents say for a path: nothing if it is no item's or none of its
\* sets is satisfied, else the variant of the best set.
Meant(c, path, ctx) ==
  LET named == {i \in DOMAIN c.names : c.names[i].path = path /\ ~c.names[i].scope}
      item  == c.items[CHOOSE k \in DOMAIN c.items : c.items[k].prop = c.names[Min(named)].prop]
      best  == Best(c.decisions[item.decision], ctx)
      v     == item.variants[best]
  IN  IF named = {} \/ ~c.primary \/ best = 0 THEN [kind |-> "none"]
      ELSE CASE v.store \in {"Embedded", "DataString", "DataBlob"} -> DecodeValue(v.data, v.type)
             [] v.store = "External" -> [kind |-> "External", data |-> <<1, 9, v.data>>]
             [] OTHER -> [kind |-> "error"]

TypeOK ==
  /\ phase \in {"read", "header", "sections", "descriptor", "build", "ready", "failed"}
  /\ \A i \in DOMAIN toc : toc[i].section_type \in SectionTypes
  /\ file.of \in DOMAIN Contents /\ file.short \in 0 .. Sections /\ file.len \in Nat
  /\ \A i \in DOMAIN data : data[i].len \in Nat /\ data[i].base + data[i].len <= file.len
  /\ \A i \in DOMAIN pending : pending[i][1] \in {"schema", "decisions", "data items", "map"}

\* However a file packs its items, names and values, the index it becomes
\* lists the paths of its items and answers every question as the contents
\* written to it say.
AnswersAsWritten ==
  phase = "ready" =>
    LET c == Contents[file.of]
    IN  /\ ResourcePaths(index) =
             IF c.primary THEN {c.names[i].path : i \in {j \in DOMAIN c.names : ~c.names[j].scope}}
             ELSE {}
        /\ asked # Unasked => asked.answer = Meant(c, asked.path, asked.ctx)

\* A file that was cut off, or one of whose sections is shorter than its tables
\* say, is refused: no index is made of a part of it.
IncompleteIsRefused ==
  phase = "ready" => file.len = file.whole /\ file.short = 0

\* The sets of an explanation that the context satisfies, and the chosen one.
Satisfied == {i \in DOMAIN asked.explain : asked.explain[i].score # NoMatch}
Chosen    == Best([i \in DOMAIN asked.explain |-> asked.explain[i].qualifiers], asked.ctx)
Asked     == phase = "ready" /\ asked # Unasked /\ asked.explain # <<>>
QualifiersOf(i) == Range(asked.explain[i].qualifiers)
TestsOf(i) == {Condition(q) : q \in QualifiersOf(i)}

\* A set that tests everything another does, with no smaller a fallback score,
\* and one thing more that weighs: a numeric condition a thousand or more off,
\* and a custom one, do not.
Refines(i, j) ==
  /\ \A q \in QualifiersOf(j) : \E r \in QualifiersOf(i) :
       Condition(r) = Condition(q) /\ r.fallback_score >= q.fallback_score
  /\ \E t \in TestsOf(i) \ TestsOf(j) :
       /\ t[1] # "Custom"
       /\ t[1] \in Numeric => asked.ctx[t[1]] - t[2] < 1000

\* The chosen set is never one that another satisfied set refines: the neutral
\* variant gives way to one for the language, and that to one for the language
\* and the theme, wherever the file lists them.  (A set that tests one thing
\* twice counts it twice.)
MoreSpecificWins ==
  Asked /\ Chosen # 0 =>
    LET chosen == asked.explain[Chosen].qualifiers
    IN  (\A k, l \in DOMAIN chosen : Condition(chosen[k]) = Condition(chosen[l]) => k = l)
          => \A i \in Satisfied : ~Refines(i, Chosen)

\* The sets that test nothing but a number of one type and have no score
\* besides, and those of them that do not exceed the current value.
NumberOf(i) == asked.explain[i].qualifiers[1].value
IsNumber(i, type) ==
  /\ Len(asked.explain[i].qualifiers) = 1
  /\ asked.explain[i].qualifiers[1].type = type
  /\ asked.explain[i].qualifiers[1].fallback_score = 0
NotAbove(type) == {i \in DOMAIN asked.explain :
                     IsNumber(i, type) /\ NumberOf(i) \in 0 .. asked.ctx[type]}
OnlyNumbers(type) == NotAbove(type) # {} /\ \A i \in DOMAIN asked.explain : IsNumber(i, type)

\* How far one is from the current value; a thousand and more are all one.
Distance(i, type) == Min({asked.ctx[type] - NumberOf(i), 1000})

\* Of the variants that differ in one number only, one that does not exceed the
\* current value is chosen whenever there is one, and none of those is closer to
\* it.  Close is what the score keeps of it: all variants that are a thousand or
\* more below count as equally far, and of variants that are equally far the one
\* that is listed first is chosen.  The comment in match_numeric has no such limit.
ClosestWins ==
  Asked =>
    \A type \in Numeric \cap DOMAIN asked.ctx :
      OnlyNumbers(type) =>
        /\ Chosen \in NotAbove(type)
        /\ \A i \in NotAbove(type) :
             \/ Distance(Chosen, type) < Distance(i, type)
             \/ Distance(Chosen, type) = Distance(i, type) /\ Chosen <= i
=============================================================================
