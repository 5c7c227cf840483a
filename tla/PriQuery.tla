------------------------------ MODULE PriQuery ------------------------------
(***************************************************************************)
(* Which candidate of a resource is chosen for a context of qualifiers     *)
(* (msixvc-common/src/resources/query.rs).                                 *)
(*                                                                         *)
(* A qualifier is a record of type, value, priority and fallback_score.  A *)
(* language tag is the sequence of its subtags, a number a natural (-1 for *)
(* text that is none), any other value a name; case is left out.  A        *)
(* context is a function from the types that have a current value; that of *)
(* "Language" is a sequence of tags.  An index holds, by section index,    *)
(* the schemas, decisions, data items and maps of a file.                  *)
(***************************************************************************)
EXTENDS PriStructs

NoMatch == -1
NoIndex == 65535

Numeric == {"Scale", "TargetSize"}

PrimarySubtag(tag) == Head(tag)

LanguageMatchScore(preferred, candidate) ==
  CASE preferred = candidate -> 1000
    [] preferred # candidate /\ PrimarySubtag(preferred) = PrimarySubtag(candidate) -> 500
    [] OTHER -> NoMatch

\* The best of the preferred tags that match; a tag counts one less for each
\* tag before it.
MatchLanguage(preferred, value) ==
  LET matching == {i \in 1 .. Len(preferred) :
                     LanguageMatchScore(preferred[i], value) # NoMatch}
      Score(i) == LanguageMatchScore(preferred[i], value) + Max({0, 1000 - (i - 1)})
  IN  IF matching = {} THEN NoMatch ELSE Max({Score(i) : i \in matching})

\* Variant: any smaller value is as good.
MatchNumericAny(current, value) == IF value >= 0 /\ value <= current THEN 1000 ELSE NoMatch

\* A value is a stand-in for any larger current one, never for a smaller one.
MatchNumeric(current, value) ==
  IF value >= 0 /\ value <= current
  THEN 1000 - Min({current - value, 1000}) ELSE NoMatch

MatchExact(current, value) == IF current = value THEN 1000 ELSE NoMatch

EvaluateQualifier(q, ctx) ==
  CASE q.type = "Language" -> MatchLanguage(ctx["Language"], q.value)
    [] q.type \in Numeric /\ q.type \in DOMAIN ctx -> MatchNumeric(ctx[q.type], q.value)
    [] q.type = "Custom" -> 0
    [] q.type \notin Numeric \cup {"Language", "Custom"} /\ q.type \in DOMAIN ctx ->
         MatchExact(ctx[q.type], q.value)
    [] OTHER -> NoMatch

\* The score of a set all of whose qualifiers are satisfied; their number
\* keeps it below the width it saturates at.
Evaluate(set, ctx) ==
  IF \E i \in DOMAIN set : EvaluateQualifier(set[i], ctx) = NoMatch THEN NoMatch
  ELSE TotalOf([i \in DOMAIN set |-> EvaluateQualifier(set[i], ctx) + set[i].fallback_score])

\* The decision of a path and the candidates paired with its sets; a path that
\* leads nowhere has none, a range outside the candidates is an error.
Locate(index, path) ==
  LET map      == index.resource_maps[index.primary]
      schema   == index.hierarchical_schemas[map.schema_index]
      item     == map.items[schema[path]]
      info     == index.decision_infos[map.decision_index]
      decision == info[item.decision_index + 1]
      first    == item.first_candidate_index
  IN  IF /\ index.primary # NoIndex
         /\ index.primary \in DOMAIN index.resource_maps
         /\ map.schema_index \in DOMAIN index.hierarchical_schemas
         /\ path \in DOMAIN schema
         /\ schema[path] \in DOMAIN map.items
         /\ map.decision_index \in DOMAIN index.decision_infos
         /\ item.decision_index < Len(info)
      THEN IF first + Len(decision) > Len(map.candidates) THEN [kind |-> "error"]
           ELSE [kind |-> "found", map |-> map, sets |-> decision,
                 candidates |-> SubSeq(map.candidates, first + 1, first + Len(decision))]
      ELSE [kind |-> "none"]

\* Variant: the first set that is satisfied at all.
BestFirst(sets, ctx) ==
  LET matching == {i \in DOMAIN sets : Evaluate(sets[i], ctx) # NoMatch}
  IN  IF matching = {} THEN 0 ELSE Min(matching)

\* Whether the n-th set takes the place of the one that is kept, 0 for none:
\* one that scores as much does not.
TakesOver(sets, ctx, n, kept) ==
  /\ Evaluate(sets[n], ctx) # NoMatch
  /\ kept = 0 \/ Evaluate(sets[kept], ctx) < Evaluate(sets[n], ctx)

\* The set that is kept after the last one; 0 if none is satisfied.
Best(sets, ctx) ==
  LET kept[n \in 0 .. Len(sets)] ==
        IF n = 0 THEN 0
        ELSE IF TakesOver(sets, ctx, n, kept[n - 1]) THEN n ELSE kept[n - 1]
  IN  kept[Len(sets)]

ResourceValueType(map, i) == map.resource_value_types[i + 1]

\* What each type of value becomes, and how the stored bytes are read.
Decoded ==
  [String |-> <<"String", "utf16">>, AsciiString |-> <<"String", "ascii">>,
   Utf8String |-> <<"String", "utf8">>, Path |-> <<"Path", "utf16">>,
   AsciiPath |-> <<"Path", "ascii">>, Utf8Path |-> <<"Path", "utf8">>,
   EmbeddedData |-> <<"Blob", "bytes">>]
DecodeValue(stored, type) == [kind |-> Decoded[type][1], by |-> Decoded[type][2], data |-> stored]

\* The value of a candidate.
ResolveCandidate(index, map, c) ==
  LET typed   == c.type_index < Len(map.resource_value_types)
      section == index.data_item_sections[c.section_index]
      Value(stored) == DecodeValue(stored, ResourceValueType(map, c.type_index))
  IN  CASE c.kind = "Embedded" /\ typed -> Value(c.data)
        [] /\ c.kind = "DataItem" /\ typed
           /\ c.section_index \in DOMAIN index.data_item_sections
           /\ c.data_item_index < Len(section) -> Value(section[c.data_item_index + 1])
        [] c.kind = "External" -> [kind |-> "External", data |->
             <<c.referenced_file_index, c.section_index, c.data_item_index>>]
        [] OTHER -> [kind |-> "error"]

Resolve(index, path, ctx) ==
  LET found == Locate(index, path)
      best  == Best(found.sets, ctx)
  IN  IF found.kind # "found" THEN [kind |-> found.kind]
      ELSE IF best = 0 THEN [kind |-> "none"]
      ELSE ResolveCandidate(index, found.map, found.candidates[best])

\* Every set of a path with the score it got and the candidate it selects.
Explain(index, path, ctx) ==
  LET found == Locate(index, path)
  IN  IF found.kind # "found" THEN <<>>
      ELSE [i \in DOMAIN found.sets |->
              [qualifiers |-> found.sets[i], score |-> Evaluate(found.sets[i], ctx),
               candidate |-> found.candidates[i]]]

\* The paths of the schema of the primary map.
ResourcePaths(index) ==
  IF /\ index.primary # NoIndex /\ index.primary \in DOMAIN index.resource_maps
     /\ index.resource_maps[index.primary].schema_index \in DOMAIN index.hierarchical_schemas
  THEN DOMAIN index.hierarchical_schemas[index.resource_maps[index.primary].schema_index]
  ELSE {}
=============================================================================
