------------------------------ MODULE PriImage ------------------------------
(***************************************************************************)
(* A Package Resource Index as it is written: the tests' builders          *)
(* (build_pri in pri.rs and the sample sections of index/), for any        *)
(* contents.  A file is a list of parts, each a list of fields, a field a  *)
(* value and its width in bytes; names, values and ids are one field each. *)
(*                                                                         *)
(* Contents are a record of                                                *)
(*   names     the name table: path, prop, and whether it is a scope, is   *)
(*             kept as ASCII and is stored without its length              *)
(*   decisions the sets of qualifiers of each decision                     *)
(*   items     prop, decision and, for each set of it, a variant (store,   *)
(*             type, data) of each item                                    *)
(*   packing   how the map compresses them: "groups", "single", "extension"*)
(*   extended  whether the schema has the extended layout                  *)
(*   primary   whether the descriptor names the map as the primary one     *)
(*   magic     the version the file begins with                            *)
(***************************************************************************)
EXTENDS PriStructs, TLC

U8(v)       == <<v, 1>>
U16(v)      == <<v, 2>>
U32(v)      == <<v, 4>>
Block(v, n) == <<v, n>>
NoSection   == 65535

\* Every name, value and tag is this many characters long, and terminated.
Chars == 4

Upto(s)        == [i \in DOMAIN s |-> i]
Each(s, Op(_)) == FlattenSeq([i \in DOMAIN s |-> Op(s[i])])
IndexIn(s, e)  == (CHOOSE i \in DOMAIN s : s[i] = e) - 1

\* The elements of a list that stand at the given places.
Those(s, places) ==
  LET those[i \in 0 .. Len(s)] ==
        IF i = 0 THEN <<>>
        ELSE IF i \in places THEN Append(those[i - 1], s[i]) ELSE those[i - 1]
  IN  those[Len(s)]
Distinct(s) == Those(s, {i \in DOMAIN s : \A j \in 1 .. i - 1 : s[j] # s[i]})
When(c, s)     == IF c THEN s ELSE <<>>

\* Terminated texts one after another, of characters n bytes wide.
TextBlock(texts, n) == Each(texts, LAMBDA t : <<Block(t, n * Chars), Block(0, n)>>)

WriteSchema(c) ==
  LET N       == c.names
      paths   == [i \in DOMAIN N |-> N[i].path]
      Parent(i) == IF Len(N[i].path) = 1 THEN i - 1
                   ELSE IndexIn(paths, Front(N[i].path))
      Short(s) == [i \in DOMAIN s |-> Last(s[i].path)]
      ascii   == Those(N, {i \in DOMAIN N : N[i].ascii})
      unicode == Those(N, {i \in DOMAIN N : ~N[i].ascii})
      Offset(e) == (Chars + 1) * IndexIn(IF e.ascii THEN ascii ELSE unicode, e)
      scopes  == Those(Upto(N), {i \in DOMAIN N : N[i].scope})
      items   == Those(Upto(N), {i \in DOMAIN N : ~N[i].scope})
      Entry(i) == <<U16(Parent(i)), U16(Len(N[i].path) * (Chars + 1)), U16(0),
                    U8(IF N[i].z THEN 0 ELSE Chars),
                    U8((IF N[i].scope THEN 16 ELSE 0) + (IF N[i].ascii THEN 32 ELSE 0)),
                    U16(Offset(N[i])), U16(N[i].prop)>>
  IN  <<U16(1), U16(1), U16(1), U16(0)>>
      \o When(c.extended, <<Block("hnamesx", 16)>>)
      \o <<Block(0, 20), U16(0), U16(0),
           U16(0), U16(20), U16(0), U32(Len(N)), U32(Len(scopes)), U32(Len(items)),
           U32((Chars + 1) * Len(unicode)), U32(0)>>
      \o When(c.extended, <<U32((Chars + 1) * Len(ascii))>>)
      \o Each(Upto(N), Entry)
      \o Each(scopes, LAMBDA i : <<U16(i - 1), U16(0), U16(0), U16(0)>>)
      \o Each(items, LAMBDA i : <<U16(i - 1)>>)
      \o TextBlock(Short(unicode), 2)
      \o When(c.extended, TextBlock(Short(ascii), 1))

\* The sets of all decisions one after another, their qualifiers likewise, and
\* the distinct conditions these test.
AllSets(c)    == FlattenSeq(c.decisions)
AllQuals(c)   == FlattenSeq(AllSets(c))
Condition(q)  == <<q.type, q.value>>
Conditions(c) == Distinct([i \in DOMAIN AllQuals(c) |-> Condition(AllQuals(c)[i])])

WriteDecisions(c) ==
  LET before(s, i) == TotalOf([j \in 1 .. i - 1 |-> Len(s[j])])
      D == c.decisions
      S == AllSets(c)
      Q == AllQuals(c)
      C == Conditions(c)
  IN  <<U16(Len(C)), U16(Len(Q)), U16(Len(S)), U16(Len(D)), U16(Len(S) + Len(Q)),
        U16((Chars + 1) * Len(C))>>
      \o Each(Upto(D), LAMBDA i : <<U16(before(D, i)), U16(Len(D[i]))>>)
      \o Each(Upto(S), LAMBDA i : <<U16(Len(S) + before(S, i)), U16(Len(S[i]))>>)
      \o Each(Q, LAMBDA q : <<U16(IndexIn(C, Condition(q))), U16(q.priority),
                              U16(q.fallback_score), U16(0)>>)
      \o Each(Upto(C), LAMBDA i : <<U16(0), U16(IndexIn(QualifierTypes, C[i][1])), U16(0),
                                    U16(0), U32((Chars + 1) * (i - 1))>>)
      \o Each(Upto(S), LAMBDA i : <<U16(i - 1)>>)
      \o Each(Upto(Q), LAMBDA i : <<U16(i - 1)>>)
      \o TextBlock([i \in DOMAIN C |-> C[i][2]], 2)

AllVariants(c)  == Each(c.items, LAMBDA item : item.variants)
StoredAs(c, st) ==
  Those(AllVariants(c), {i \in DOMAIN AllVariants(c) : AllVariants(c)[i].store = st})
\* The bytes of a stored value.
DataLength == 4

\* Strings first, then blobs, each pointing into the stored data.
WriteDataItems(c) ==
  LET strings == StoredAs(c, "DataString")
      blobs   == StoredAs(c, "DataBlob")
      stored  == strings \o blobs
      Offset(i) == DataLength * (i - 1)
  IN  <<U32(0), U16(Len(strings)), U16(Len(blobs)), U32(DataLength * Len(stored))>>
      \o Each(Upto(strings), LAMBDA i : <<U16(Offset(i)), U16(DataLength)>>)
      \o Each(Upto(blobs), LAMBDA i : <<U32(Offset(Len(strings) + i)), U32(DataLength)>>)
      \o Each(stored, LAMBDA v : <<Block(v.data, DataLength)>>)

DataSection == 4  \* the index of the data item section

\* The three tables of a map, with the items as one run of consecutive
\* properties ("groups"), each by itself ("single"), or the first in the tables
\* and the others in their extension, one by one or as a run.
WriteMap(c) ==
  LET I == c.items
      embedded == StoredAs(c, "Embedded")
      stored   == StoredAs(c, "DataString") \o StoredAs(c, "DataBlob")
      types    == Distinct([i \in DOMAIN AllVariants(c) |-> AllVariants(c)[i].type])
      extended == c.packing \in {"extension", "extension_groups"}
      kept     == IF extended THEN 1 ELSE Len(I)
      FirstCandidate(i) == TotalOf([j \in 1 .. i - 1 |-> Len(I[j].variants)])
      infos  == [i \in DOMAIN I |-> <<I[i].decision - 1, FirstCandidate(i)>>]
      groups == CASE c.packing = "groups" -> << <<Len(I), 0>> >>
                  [] c.packing = "single" -> <<>>
                  [] OTHER                -> << <<1, 0>> >>
      mapped == IF c.packing = "single" THEN [i \in DOMAIN I |-> <<I[i].prop, i - 1>>]
                ELSE << <<I[1].prop, 0>> >>
      more_infos  == SubSeq(infos, kept + 1, Len(I))
      more_groups == When(c.packing = "extension_groups", << <<Len(I) - 1, 1>> >>)
      more_mapped == CASE c.packing = "extension_groups" -> << <<I[2].prop, 1>> >>
                       [] c.packing = "extension" ->
                            [k \in 1 .. Len(I) - 1 |-> <<I[k + 1].prop, 1 + k>>]
                       [] OTHER -> <<>>
      Pair16(p) == <<U16(p[1]), U16(p[2])>>
      Pair32(p) == <<U32(p[1]), U32(p[2])>>
      extension == When(extended,
        <<U32(Len(more_mapped)), U32(Len(more_groups)), U32(Len(more_infos))>>
        \o Each(more_mapped, Pair32) \o Each(more_groups, Pair32) \o Each(more_infos, Pair32))
      Candidate(v) ==
        CASE v.store = "Embedded" ->
               <<U8(0), U8(IndexIn(types, v.type)), U16(DataLength),
                 U32(DataLength * IndexIn(embedded, v))>>
          [] v.store \in {"DataString", "DataBlob"} ->
               <<U8(1), U8(IndexIn(types, v.type)), U16(0), U16(IndexIn(stored, v)),
                 U16(DataSection)>>
          [] v.store = "External" -> <<U8(1), U8(0), U16(2), U16(v.data), U16(9)>>
          [] OTHER -> <<U8(7), U8(0), Block(0, 6)>>
      referenced == c.packing = "single"
  IN  <<U16(IF referenced THEN EnvironmentReference.size ELSE 0),
        U16(IF referenced THEN 1 ELSE 0), U16(1),
        U16(IF referenced THEN HierarchicalSchemaReferenceHeader.size ELSE 0), U16(2),
        U16(Len(types)), U16(Len(mapped)), U16(Len(groups)), U32(kept),
        U32(Len(AllVariants(c))), U32(DataLength * Len(embedded)), U32(SizeOf(extension))>>
      \o When(referenced, <<Block(0, EnvironmentReference.size),
                            Block(0, HierarchicalSchemaReferenceHeader.size)>>)
      \o Each(types, LAMBDA t : <<U32(4), U32(IndexIn(ResourceValueTypes, t))>>)
      \o Each(mapped, Pair16) \o Each(groups, Pair16) \o Each(SubSeq(infos, 1, kept), Pair16)
      \o extension
      \o Each(AllVariants(c), Candidate)
      \o Each(embedded, LAMBDA v : <<Block(v.data, DataLength)>>)

\* The counts and indices of the sections: a schema, a decision table, a map
\* and the data items, behind the descriptor.
WriteDescriptor(c) ==
  <<U16(0), U16(NoSection), U16(0), U16(1), U16(1), U16(1),
    U16(IF c.primary THEN 3 ELSE NoSection), U16(0), U16(1), U16(0),
    U16(1), U16(2), U16(3), U16(DataSection)>>

\* A file of these sections; the one numbered short declares one byte less
\* than its tables take.
WriteFile(c, short) ==
  LET types == <<"Descriptor", IF c.extended THEN "HierarchicalSchemaEx" ELSE "HierarchicalSchema",
                 "DecisionInfo", "ResourceMap", "DataItem">>
      bodies == <<WriteDescriptor(c), WriteSchema(c), WriteDecisions(c), WriteMap(c),
                 WriteDataItems(c)>>
      Declared(i) == SizeOf(bodies[i]) + 32 + 8 - (IF i = short THEN 1 ELSE 0)
      Section(i)  == <<Block(types[i], 16), U32(0), U16(0), U16(0), U32(Declared(i)), U32(0)>>
                     \o bodies[i]
      At(i)  == TotalOf([j \in 1 .. i - 1 |-> SizeOf(bodies[j]) + 32])
      first  == 32 + 32 * Len(types)
      Row(i) == <<Block(types[i], 16), U16(0), U16(0), U32(0), U32(At(i)), U32(Declared(i))>>
  IN  << <<Block(c.magic, 8), U16(0), U16(1), U32(first + At(Len(types) + 1)), U32(32),
        U32(first), U16(Len(types)), U16(NoSection), U32(0)>>
         \o Each(Upto(types), Row) >> \o [i \in DOMAIN types |-> Section(i)]

\* The file as a place to read from: the field that begins at each offset.
Image(parts) ==
  LET sizes   == Eager([p \in DOMAIN parts |-> SizeOf(parts[p])])
      starts  == Eager([p \in DOMAIN parts |-> Starts(parts[p])])
      bases   == Eager([p \in DOMAIN parts |-> TotalOf(SubSeq(sizes, 1, p - 1))])
      places  == UNION {{<<p, i>> : i \in DOMAIN parts[p]} : p \in DOMAIN parts}
      at      == Eager([x \in places |-> bases[x[1]] + starts[x[1]][x[2]]])
      Place(o) == CHOOSE x \in places : at[x] = o
  IN  [len |-> TotalOf(sizes),
       at  |-> Eager([o \in {at[x] : x \in places} |-> parts[Place(o)[1]][Place(o)[2]]])]
=============================================================================
