----------------------------- MODULE PriStructs -----------------------------
(***************************************************************************)
(* The fixed-size records of a Package Resource Index                      *)
(* (msixvc-common/src/resources/structs.rs) as the fields their parse      *)
(* functions read, in order, and the width of each in bytes.  A record's   *)
(* SIZE and the place of every field follow from these, as BytesReader's   *)
(* do from the types it reads.                                             *)
(***************************************************************************)
EXTENDS Integers, SequencesExt

\* The sums of the first elements of a list of numbers, of none up to all.
Sums(list) ==
  LET sum[i \in 0 .. Len(list)] == IF i = 0 THEN 0 ELSE sum[i - 1] + list[i] IN sum
TotalOf(list) == Sums(list)[Len(list)]

\* A function TLC evaluates once, not at every application: comparing it does.
Eager(f) == CHOOSE g \in {f} : g = f

\* Where each field of a list begins: every read advances the reader by the
\* width it takes.
Widths(fields) == [i \in DOMAIN fields |-> fields[i][2]]
Starts(fields) == Eager([i \in DOMAIN fields |-> Sums(Widths(fields))[i - 1]])
SizeOf(fields) == TotalOf(Widths(fields))

\* A field that is read and dropped.
Skip == ""

\* A record type, given the names of its fields and their widths: its size, and
\* where each named field begins and how wide it is.
Struct(names, widths) ==
  LET sums  == Eager(Sums(widths))
      named == {i \in DOMAIN names : names[i] # Skip}
      Place(name) == CHOOSE i \in named : names[i] = name
  IN  [size |-> TotalOf(widths),
       at   |-> Eager([name \in {names[i] : i \in named} |->
                         <<sums[Place(name) - 1], widths[Place(name)]>>])]

QualifierTypes == <<"Language", "Contrast", "Scale", "HomeRegion", "TargetSize",
  "LayoutDirection", "Theme", "AlternateForm", "DXFeatureLevel", "Configuration",
  "DeviceFamily", "Custom">>

ResourceValueTypes == <<"String", "Path", "EmbeddedData", "AsciiString",
  "Utf8String", "AsciiPath", "Utf8Path">>

\* The section types the index is built from, each with its 16-byte id; a
\* schema is extended if its id says so, the two kinds of map are one here.
SectionTypes ==
  {"Descriptor", "HierarchicalSchema", "HierarchicalSchemaEx", "DecisionInfo",
   "ResourceMap", "DataItem"}

Magics == {"mrm_pri0", "mrm_pri1", "mrm_prif", "mrm_pri2", "mrm_pri3"}

ResourceHeader == Struct(
  <<"version_identifier", Skip, Skip, "total_file_size",
    "table_of_contents_offset", "first_section_offset", "number_of_sections",
    Skip, Skip>>,
  <<8, 2, 2, 4, 4, 4, 2, 2, 4>>)

TableOfContentsEntry == Struct(
  <<"section_type", "flags", "section_flags", "section_qualifier",
    "section_offset", "section_length">>,
  <<16, 2, 2, 4, 4, 4>>)

SectionHeader == Struct(
  <<"section_id", "section_qualifier", "flags", "section_flags",
    "section_length", Skip>>,
  <<16, 4, 2, 2, 4, 4>>)

SectionFooter == Struct(<<"magic", "section_length">>, <<4, 4>>)

PriDescriptor == Struct(
  <<"flags", "included_file_list_section_index", Skip,
    "hierarchical_schema_count", "decision_info_count", "resource_map_count",
    "primary_resource_map_index", "referenced_file_sections_count",
    "data_item_section_count", Skip>>,
  <<2, 2, 2, 2, 2, 2, 2, 2, 2, 2>>)

HSchemaVersionInfo == Struct(
  <<"major_version", "minor_version", Skip, "checksum", "number_of_scopes",
    "number_of_items">>,
  <<2, 2, 4, 4, 4, 4>>)

HierarchicalSchemaHeader == Struct(
  <<Skip, "unique_name_length", "name_length", Skip>>,
  <<2, 2, 2, 2>>)

HNameIdentifier == Struct(<<"id">>, <<16>>)

HierarchicalSchemaTrailer == Struct(
  <<Skip, "longest_full_path_length", Skip, "number_of_resource_names",
    "number_of_scopes", "number_of_items", "unicode_name_block_length",
    "total_length">>,
  <<2, 2, 2, 4, 4, 4, 4, 4>>)

ResourceNameEntry == Struct(
  <<"parent_scope_index", "full_path_length", "uppercase_first_char",
    "name_length", "flags", "name_offset_low", "index_property">>,
  <<2, 2, 2, 1, 1, 2, 2>>)

\* Variant: the bit of ASCII names.
IsScopeByAscii(entry) == (entry.flags \div 32) % 2 = 1

\* Bits 4 and 5 of the flags, and the high part of the name's offset in the
\* four bits below.
IsScope(entry) == (entry.flags \div 16) % 2 = 1
IsAscii(entry) == (entry.flags \div 32) % 2 = 1
NameOffset(entry) == (entry.flags % 16) * 65536 + entry.name_offset_low

ScopeEntry == Struct(
  <<"scope_index", "child_count", "first_child_index", Skip>>,
  <<2, 2, 2, 2>>)

ItemEntry == Struct(<<"item_index">>, <<2>>)

DecisionInfoHeader == Struct(
  <<"number_of_distinct_qualifiers", "number_of_qualifiers",
    "number_of_qualifier_sets", "number_of_decisions",
    "number_of_index_table_entries", "qualifier_value_block_length">>,
  <<2, 2, 2, 2, 2, 2>>)

DecisionEntry == Struct(
  <<"first_qualifier_set_index", "number_of_qualifier_sets">>,
  <<2, 2>>)

QualifierSetEntry == Struct(
  <<"first_qualifier_index", "number_of_qualifiers">>,
  <<2, 2>>)

QualifierEntry == Struct(
  <<"distinct_qualifier_index", "priority", "fallback_score", Skip>>,
  <<2, 2, 2, 2>>)

DistinctQualifierEntry == Struct(
  <<"environment_qualifier_index", "qualifier_type", "condition_operator_index",
    "value_type_index", "qualifier_value_offset">>,
  <<2, 2, 2, 2, 4>>)

ResourceMapHeader == Struct(
  <<"environment_references_block_length", "number_of_environment_references",
    "hierarchical_schema_section_index",
    "hierarchical_schema_reference_block_length", "decision_info_section_index",
    "resource_value_type_table_entries", "item_to_iteminfo_group_table_entries",
    "iteminfo_group_table_entries", "iteminfo_table_entries",
    "number_of_candidates", "embedded_data_block_length",
    "table_extension_block_length">>,
  <<2, 2, 2, 2, 2, 2, 2, 2, 4, 4, 4, 4>>)

EnvironmentReference == Struct(
  <<"environment_name", "major_version", "minor_version", "version_checksum",
    "number_of_qualifier_types", "number_of_qualifiers", "number_of_item_types",
    "number_of_resource_value_types", "number_of_value_locators",
    "number_of_condition_operators", "qualifier_type_table_offset",
    "qualifier_table_offset", "item_type_table_offset",
    "resource_value_type_table_offset", "value_locator_table_offset",
    "condition_operator_table_offset">>,
  <<512, 2, 2, 4, 2, 2, 2, 2, 2, 2, 4, 4, 4, 4, 4, 4>>)

HierarchicalSchemaReferenceHeader == Struct(
  <<"version_info", "unique_id_length", Skip, Skip, Skip>>,
  <<20, 2, 2, 4, 4>>)

ResourceValueTypeEntry == Struct(<<Skip, "resource_value_type">>, <<4, 4>>)

ItemToItemInfoGroupEntry == Struct(
  <<"first_item_index_property", "iteminfo_group_index">>,
  <<2, 2>>)

ItemInfoGroupEntry == Struct(
  <<"number_of_iteminfos", "first_iteminfo_index">>,
  <<2, 2>>)

ItemInfoEntry == Struct(<<"decision_index", "first_candidate_index">>, <<2, 2>>)

TableExtensionHeader == Struct(
  <<"additional_item_to_iteminfo_group_entries",
    "additional_iteminfo_group_entries", "additional_iteminfo_entries">>,
  <<4, 4, 4>>)

ItemToItemInfoGroupEntryExt == Struct(
  <<"first_item_index_property", "iteminfo_group_index">>,
  <<4, 4>>)

ItemInfoGroupEntryExt == Struct(
  <<"number_of_iteminfos", "first_iteminfo_index">>,
  <<4, 4>>)

ItemInfoEntryExt == Struct(
  <<"decision_index", "first_candidate_index">>,
  <<4, 4>>)

\* A candidate's first byte says which of its forms the other seven have.
CandidateType == Struct(<<"candidate_type">>, <<1>>)

EmbeddedCandidate == Struct(
  <<"candidate_type", "resource_value_type_index", "embedded_data_length",
    "embedded_data_offset">>,
  <<1, 1, 2, 4>>)

ReferencedCandidate == Struct(
  <<"candidate_type", "resource_value_type_index", "source_file",
    "data_item_index", "data_item_section_index">>,
  <<1, 1, 2, 2, 2>>)

DataItemHeader == Struct(
  <<Skip, "number_of_strings", "number_of_blobs", "total_data_length">>,
  <<4, 2, 2, 4>>)

StringEntry == Struct(<<"offset", "length">>, <<2, 2>>)

BlobEntry == Struct(<<"offset", "length">>, <<4, 4>>)
=============================================================================
