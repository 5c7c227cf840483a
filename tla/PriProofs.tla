---------------------------- MODULE PriProofs -------------------------------
(***************************************************************************)
(* What reading a package resource index establishes, for all well-formed  *)
(* contents and contexts: a map and a schema section read back as they     *)
(* were written (MapRead, SchemaRead); Pri::read makes an index of a whole *)
(* file only (OnlyWholeFilesAreRead), the index answers as its contents    *)
(* say (AnswersAreWritten), and of the variants that match it chooses the  *)
(* more specific one (SpecificIsPreferred) and the closest one, as far as  *)
(* the score keeps the distance (ClosestIsPreferred).                      *)
(***************************************************************************)
EXTENDS PriTableProofs, FiniteSetTheorems

\* The places of the tables of a map section, as BuildMap computes them.
KeptStruct(c) ==
  Struct(<<"header", "environments", "schema", "types", "mapped", "groups", "infos">>,
         <<32, ReferenceSize(c, 556), ReferenceSize(c, 32), Len(TypesOf(c)) * 8,
           Len(TableMapped(c)) * 4, Len(TableGroups(c)) * 4, Len(TableInfos(c)) * 4>>)
MapStruct(c) ==
  Struct(<<"kept", "extension", "mapped", "groups", "infos", "candidates", "embedded">>,
         <<KeptStruct(c).size, IF Extends(c) THEN 12 ELSE 0, Len(ExtraMapped(c)) * 8,
           Len(ExtraGroups(c)) * 8, Len(ExtraInfos(c)) * 8, Len(AllVariants(c)) * 8,
           4 * Len(EmbeddedOf(c))>>)

\* The places of the tables a map always has.
LEMMA KeptPlaces ==
  ASSUME NEW c, ItemsAreWellFormed(c), DecisionsAreWellFormed(c)
  PROVE  /\ KeptStruct(c).size = SizeOf(KeptPart(c))
         /\ Begins(KeptPart(c), MapCounts(c))
         /\ Holds(KeptStruct(c), "types", KeptPart(c), TypeTable(c))
         /\ Holds(KeptStruct(c), "mapped", KeptPart(c), Shorts(TableMapped(c)))
         /\ Holds(KeptStruct(c), "groups", KeptPart(c), Shorts(TableGroups(c)))
         /\ Holds(KeptStruct(c), "infos", KeptPart(c), Shorts(TableInfos(c)))
<1>1. PICK p1, p2, p3, p4, p5, p6, p7 :
        /\ p1 = MapCounts(c) /\ p2 = Environment(c) /\ p3 = Reference(c) /\ p4 = TypeTable(c)
        /\ p5 = Shorts(TableMapped(c)) /\ p6 = Shorts(TableGroups(c)) /\ p7 = Shorts(TableInfos(c))
  BY Zenon
<1>2. PICK n1, n2, n3, n4, n5, n6, n7 :
        /\ n1 = "header" /\ n2 = "environments" /\ n3 = "schema" /\ n4 = "types"
        /\ n5 = "mapped" /\ n6 = "groups" /\ n7 = "infos"
  BY Zenon
<1>3. p1 \in Written /\ SizeOf(p1) = 32
  BY ONLY <1>1, ItemsAreWellFormed(c), DecisionsAreWellFormed(c), MapCountsWritten, Zenon
<1>4. /\ p2 \in Written /\ SizeOf(p2) = ReferenceSize(c, 556)
      /\ p3 \in Written /\ SizeOf(p3) = ReferenceSize(c, 32)
  <2>1. ASSUME NEW n \in Nat \ {0}
        PROVE  /\ When(Referenced(c), << <<0, n>> >>) \in Written
               /\ SizeOf(When(Referenced(c), << <<0, n>> >>)) = ReferenceSize(c, n)
    <3>1. PICK x, b : x = << <<0, n>> >> /\ b = Referenced(c)
      OBVIOUS
    <3>2. x \in Written /\ SizeOf(x) = n
      <4>1. 0 \in Values
        BY DEF Values
      <4>2. x \in Written
        BY <3>1, <4>1 DEF Written
      <4>3. x \in Fields /\ Len(x) = 1 /\ Widths(x)[1] = n
        BY <3>1, <4>2, WrittenIsFields DEF Widths
      <4>4. PICK w : w = Widths(x)
        OBVIOUS
      <4>5. w \in [1 .. 1 -> Nat] /\ SizeOf(x) = Sums(w)[1]
        BY ONLY <4>3, <4>4, FieldsDef
      <4>6. PICK m \in Nat : m = 1
        OBVIOUS
      <4>7. w \in [1 .. m -> Int]
        BY <4>5, <4>6
      <4>8. Sums(w)[0] = 0 /\ \A i \in 1 .. m : Sums(w)[i] = Sums(w)[i - 1] + w[i]
        BY ONLY <4>7, m \in Nat, SumsDef
      <4>9. Sums(w)[1] = n
        <5>1. 1 \in 1 .. m /\ 1 - 1 = 0
          BY <4>6
        <5>2. Sums(w)[1] = Sums(w)[0] + w[1]
          BY ONLY <4>8, <5>1, Zenon
        <5>3. PICK u, v, y : u = Sums(w)[1] /\ v = Sums(w)[0] /\ y = w[1]
          BY Zenon
        <5>4. u = v + y /\ v = 0 /\ y = n
          BY ONLY <4>3, <4>4, <4>8, <5>2, <5>3, Zenon
        <5>5. u = n
          BY ONLY <5>4, n \in Nat \ {0}
        <5>6. QED
          BY <5>3, <5>5
      <4>10. QED
        BY ONLY <4>2, <4>5, <4>9, Zenon
    <3>3. /\ When(b, x) \in Written /\ (b => When(b, x) = x)
          /\ (~b => SizeOf(When(b, x)) = 0)
      BY ONLY <3>2, WhenWritten
    <3>4. b => SizeOf(When(b, x)) = n
      BY ONLY <3>2, <3>3, Zenon
    <3>5. ReferenceSize(c, n) = IF b THEN n ELSE 0
      BY ONLY <3>1, Zenon DEF ReferenceSize
    <3>6. QED
      BY ONLY <3>1, <3>3, <3>4, <3>5, Zenon
  <2>2. 556 \in Nat \ {0} /\ 32 \in Nat \ {0}
    OBVIOUS
  <2>3. QED
    BY ONLY <1>1, <2>1, <2>2, Zenon DEF Environment, Reference
<1>5. /\ p5 \in Written /\ SizeOf(p5) = Len(TableMapped(c)) * 4
      /\ p6 \in Written /\ SizeOf(p6) = Len(TableGroups(c)) * 4
      /\ p7 \in Written /\ SizeOf(p7) = Len(TableInfos(c)) * 4
  <2>1. PairList(TableMapped(c)) /\ PairList(TableGroups(c)) /\ PairList(TableInfos(c))
    BY ONLY ItemsAreWellFormed(c), DecisionsAreWellFormed(c), MapLists, Zenon
  <2>2. QED
    BY ONLY <1>1, <2>1, PairListDef, Zenon
<1>6. p4 \in Written /\ SizeOf(p4) = Len(TypesOf(c)) * 8
  BY ONLY <1>1, ItemsAreWellFormed(c), MapTables, Zenon
<1>7. PICK names, w, r, tables :
        /\ names = SevenOf(n1, n2, n3, n4, n5, n6, n7)
        /\ w = SevenOf(SizeOf(p1), SizeOf(p2), SizeOf(p3), SizeOf(p4), SizeOf(p5), SizeOf(p6), SizeOf(p7))
        /\ r = SevenJoined(p1, p2, p3, p4, p5, p6, p7) /\ tables = Struct(names, w)
  BY Zenon
<1>8. /\ n1 # n2 /\ n1 # n3 /\ n1 # n4 /\ n1 # n5 /\ n1 # n6 /\ n1 # n7 /\ n2 # n3 /\ n2 # n4
      /\ n2 # n5 /\ n2 # n6 /\ n2 # n7 /\ n3 # n4 /\ n3 # n5 /\ n3 # n6 /\ n3 # n7
      /\ n4 # n5 /\ n4 # n6 /\ n4 # n7 /\ n5 # n6 /\ n5 # n7 /\ n6 # n7
      /\ n4 # Skip /\ n5 # Skip /\ n6 # Skip /\ n7 # Skip
  BY <1>2 DEF Skip
<1>9. names = SevenOf(n1, n2, n3, n4, n5, n6, n7)
  BY ONLY <1>7, Zenon
<1>10. Unambiguous(names)
  BY ONLY <1>8, <1>9 DEF Unambiguous, SevenOf
<1>11. /\ tables.size = SizeOf(r) /\ Begins(r, p1)
       /\ n4 # Skip => Holds(tables, n4, r, p4)
       /\ n5 # Skip => Holds(tables, n5, r, p5)
       /\ n6 # Skip => Holds(tables, n6, r, p6)
       /\ n7 # Skip => Holds(tables, n7, r, p7)
  <2>1. w = SevenOf(SizeOf(p1), SizeOf(p2), SizeOf(p3), SizeOf(p4), SizeOf(p5), SizeOf(p6), SizeOf(p7))
    BY ONLY <1>7, Zenon
  <2>2. r = SevenJoined(p1, p2, p3, p4, p5, p6, p7)
    BY ONLY <1>7, Zenon
  <2>3. tables = Struct(names, w)
    BY ONLY <1>7, Zenon
  <2>4. p1 \in Written /\ p2 \in Written /\ p3 \in Written /\ p4 \in Written /\ p5 \in Written
        /\ p6 \in Written /\ p7 \in Written
    BY ONLY <1>3, <1>4, <1>5, <1>6
  <2>6. SevenWritten(p1, p2, p3, p4, p5, p6, p7)
    BY ONLY <2>4, Zenon DEF SevenWritten
  <2>7. Unambiguous(SevenOf(n1, n2, n3, n4, n5, n6, n7))
    BY ONLY <1>9, <1>10, Zenon
  <2>8. PICK t, q : /\ q = SevenJoined(p1, p2, p3, p4, p5, p6, p7)
                    /\ t = Struct(SevenOf(n1, n2, n3, n4, n5, n6, n7),
                                  SevenOf(SizeOf(p1), SizeOf(p2), SizeOf(p3), SizeOf(p4), SizeOf(p5),
                                          SizeOf(p6), SizeOf(p7)))
    BY Zenon
  <2>9. SevenHeld(t, q, n1, n2, n3, n4, n5, n6, n7, p1, p2, p3, p4, p5, p6, p7)
    BY ONLY <2>6, <2>7, <2>8, SevenPieces
  <2>10. t = tables /\ q = r
    BY ONLY <1>9, <2>1, <2>2, <2>3, <2>8, Zenon
  <2>5. QED
    BY ONLY <2>9, <2>10, Zenon DEF SevenHeld
<1>12. tables = KeptStruct(c)
  BY ONLY <1>2, <1>3, <1>4, <1>5, <1>6, <1>7, Zenon DEF KeptStruct, SevenOf
<1>13. r = KeptPart(c)
  BY ONLY <1>1, <1>7, Zenon DEF KeptPart, SevenJoined
<1>14. QED
  BY ONLY <1>1, <1>2, <1>8, <1>11, <1>12, <1>13, Zenon

\* The places of those of its extension, of the candidates and the data.
LEMMA MapPlaces ==
  ASSUME NEW c, ItemsAreWellFormed(c), DecisionsAreWellFormed(c)
  PROVE  /\ MapStruct(c).size = SizeOf(WriteMap(c))
         /\ Begins(WriteMap(c), KeptPart(c))
         /\ Holds(MapStruct(c), "extension", WriteMap(c), ExtraCounts(c))
         /\ Holds(MapStruct(c), "mapped", WriteMap(c), Longs(ExtraMapped(c)))
         /\ Holds(MapStruct(c), "groups", WriteMap(c), Longs(ExtraGroups(c)))
         /\ Holds(MapStruct(c), "infos", WriteMap(c), Longs(ExtraInfos(c)))
         /\ Holds(MapStruct(c), "candidates", WriteMap(c), CandidateTable(c))
         /\ Holds(MapStruct(c), "embedded", WriteMap(c), EmbeddedPart(c))
         /\ \A at, o : o \in Nat /\ Laid(at, o, WriteMap(c)) =>
              Laid(at, o + KeptStruct(c).size, ExtraCounts(c))
<1>1. PICK p1, p2, p3, p4, p5, p6, p7 :
        /\ p1 = KeptPart(c) /\ p2 = ExtraCounts(c) /\ p3 = Longs(ExtraMapped(c))
        /\ p4 = Longs(ExtraGroups(c)) /\ p5 = Longs(ExtraInfos(c)) /\ p6 = CandidateTable(c)
        /\ p7 = EmbeddedPart(c)
  BY Zenon
<1>2. PICK n1, n2, n3, n4, n5, n6, n7 :
        /\ n1 = "kept" /\ n2 = "extension" /\ n3 = "mapped" /\ n4 = "groups"
        /\ n5 = "infos" /\ n6 = "candidates" /\ n7 = "embedded"
  BY Zenon
<1>3. p1 \in Written /\ SizeOf(p1) = KeptStruct(c).size
  BY ONLY <1>1, ItemsAreWellFormed(c), DecisionsAreWellFormed(c), MapPieces, KeptPlaces, Zenon
<1>4. p2 \in Written /\ SizeOf(p2) = IF Extends(c) THEN 12 ELSE 0
  BY ONLY <1>1, ItemsAreWellFormed(c), DecisionsAreWellFormed(c), ExtensionPieces, Zenon
<1>5. /\ p3 \in Written /\ SizeOf(p3) = Len(ExtraMapped(c)) * 8
      /\ p4 \in Written /\ SizeOf(p4) = Len(ExtraGroups(c)) * 8
      /\ p5 \in Written /\ SizeOf(p5) = Len(ExtraInfos(c)) * 8
  <2>1. PairList(ExtraMapped(c)) /\ PairList(ExtraGroups(c)) /\ PairList(ExtraInfos(c))
    BY ONLY ItemsAreWellFormed(c), DecisionsAreWellFormed(c), MapLists, Zenon
  <2>2. QED
    BY ONLY <1>1, <2>1, PairListDef, Zenon
<1>6. /\ p6 \in Written /\ SizeOf(p6) = Len(AllVariants(c)) * 8
      /\ p7 \in Written /\ SizeOf(p7) = 4 * Len(EmbeddedOf(c))
  <2>1. PICK e, z, f : e = Len(EmbeddedOf(c)) /\ z = SizeOf(EmbeddedPart(c)) /\ f = EmbeddedData(c)
    BY Zenon
  <2>2. z = e * 4 /\ Column(e, f)
    BY ONLY <2>1, ItemsAreWellFormed(c), MapTables, Zenon
  <2>3. e \in Nat
    BY ONLY <2>2, Zenon DEF Column
  <2>4. z = 4 * e
    BY ONLY <2>2, <2>3
  <2>5. QED
    BY ONLY <1>1, <2>1, <2>4, ItemsAreWellFormed(c), MapTables, Zenon
<1>7. PICK names, w, r, tables :
        /\ names = SevenOf(n1, n2, n3, n4, n5, n6, n7)
        /\ w = SevenOf(SizeOf(p1), SizeOf(p2), SizeOf(p3), SizeOf(p4), SizeOf(p5), SizeOf(p6), SizeOf(p7))
        /\ r = SevenJoined(p1, p2, p3, p4, p5, p6, p7) /\ tables = Struct(names, w)
  BY Zenon
<1>8. /\ n1 # n2 /\ n1 # n3 /\ n1 # n4 /\ n1 # n5 /\ n1 # n6 /\ n1 # n7 /\ n2 # n3 /\ n2 # n4
      /\ n2 # n5 /\ n2 # n6 /\ n2 # n7 /\ n3 # n4 /\ n3 # n5 /\ n3 # n6 /\ n3 # n7
      /\ n4 # n5 /\ n4 # n6 /\ n4 # n7 /\ n5 # n6 /\ n5 # n7 /\ n6 # n7
      /\ n2 # Skip /\ n3 # Skip /\ n4 # Skip /\ n5 # Skip /\ n6 # Skip /\ n7 # Skip
  BY <1>2 DEF Skip
<1>9. names = SevenOf(n1, n2, n3, n4, n5, n6, n7)
  BY ONLY <1>7, Zenon
<1>10. Unambiguous(names)
  BY ONLY <1>8, <1>9 DEF Unambiguous, SevenOf
<1>a. p1 \in Written /\ p2 \in Written /\ p3 \in Written /\ p4 \in Written /\ p5 \in Written
        /\ p6 \in Written /\ p7 \in Written
  BY ONLY <1>3, <1>4, <1>5, <1>6
<1>b. r = p1 \o p2 \o p3 \o p4 \o p5 \o p6 \o p7
  BY ONLY <1>7, Zenon DEF SevenJoined
<1>11. /\ tables.size = SizeOf(r) /\ Begins(r, p1)
       /\ n2 # Skip => Holds(tables, n2, r, p2)
       /\ n3 # Skip => Holds(tables, n3, r, p3)
       /\ n4 # Skip => Holds(tables, n4, r, p4)
       /\ n5 # Skip => Holds(tables, n5, r, p5)
       /\ n6 # Skip => Holds(tables, n6, r, p6)
       /\ n7 # Skip => Holds(tables, n7, r, p7)
  <2>1. w = SevenOf(SizeOf(p1), SizeOf(p2), SizeOf(p3), SizeOf(p4), SizeOf(p5), SizeOf(p6), SizeOf(p7))
    BY ONLY <1>7, Zenon
  <2>2. r = SevenJoined(p1, p2, p3, p4, p5, p6, p7)
    BY ONLY <1>7, Zenon
  <2>3. tables = Struct(names, w)
    BY ONLY <1>7, Zenon
  <2>6. SevenWritten(p1, p2, p3, p4, p5, p6, p7)
    BY ONLY <1>a, Zenon DEF SevenWritten
  <2>7. Unambiguous(SevenOf(n1, n2, n3, n4, n5, n6, n7))
    BY ONLY <1>9, <1>10, Zenon
  <2>8. PICK t, q : /\ q = SevenJoined(p1, p2, p3, p4, p5, p6, p7)
                    /\ t = Struct(SevenOf(n1, n2, n3, n4, n5, n6, n7),
                                  SevenOf(SizeOf(p1), SizeOf(p2), SizeOf(p3), SizeOf(p4), SizeOf(p5),
                                          SizeOf(p6), SizeOf(p7)))
    BY Zenon
  <2>9. SevenHeld(t, q, n1, n2, n3, n4, n5, n6, n7, p1, p2, p3, p4, p5, p6, p7)
    BY ONLY <2>6, <2>7, <2>8, SevenPieces
  <2>10. t = tables /\ q = r
    BY ONLY <1>9, <2>1, <2>2, <2>3, <2>8, Zenon
  <2>5. QED
    BY ONLY <2>9, <2>10, Zenon DEF SevenHeld
<1>12. tables = MapStruct(c)
  BY ONLY <1>2, <1>3, <1>4, <1>5, <1>6, <1>7, Zenon DEF MapStruct, SevenOf
<1>13. r = WriteMap(c)
  BY ONLY <1>1, <1>7, ItemsAreWellFormed(c), DecisionsAreWellFormed(c), MapPieces, Zenon DEF SevenJoined
<1>14. \A at, o : o \in Nat /\ Laid(at, o, r) => Laid(at, o + SizeOf(p1), p2)
  <2>1. SUFFICES ASSUME NEW at, NEW o \in Nat, Laid(at, o, r) PROVE Laid(at, o + SizeOf(p1), p2)
    BY Zenon
  <2>2. PICK r2, r3, r4, r5, r6 : /\ r2 = p1 \o p2 /\ r3 = r2 \o p3 /\ r4 = r3 \o p4
                                  /\ r5 = r4 \o p5 /\ r6 = r5 \o p6
    BY Zenon
  <2>3. \A x, y : x \in Written /\ y \in Written => x \o y \in Written
    BY DEF Written
  <2>4. r2 \in Written /\ r3 \in Written /\ r4 \in Written /\ r5 \in Written /\ r6 \in Written
    BY ONLY <1>a, <2>2, <2>3, Zenon
  <2>5. r = r6 \o p7
    BY ONLY <1>b, <2>2, Zenon
  <2>6. Written \subseteq Fields
    BY WrittenIsFields
  <2>7. \A x, y : x \in Written /\ y \in Written /\ Laid(at, o, x \o y) =>
            Laid(at, o, x) /\ Laid(at, o + SizeOf(x), y)
    BY ONLY <2>6, o \in Nat, LaidConcat
  <2>8. Laid(at, o, r6) /\ Laid(at, o, r5) /\ Laid(at, o, r4) /\ Laid(at, o, r3) /\ Laid(at, o, r2)
    BY ONLY <1>a, <2>1, <2>2, <2>4, <2>5, <2>7, Zenon
  <2>9. QED
    BY ONLY <1>a, <2>2, <2>7, <2>8, Zenon
<1>15. QED
  BY ONLY <1>1, <1>2, <1>3, <1>8, <1>11, <1>12, <1>13, <1>14, Zenon

\* A map that is not extended counts no further entries.
LEMMA NoExtension ==
  LET none == [f \in DOMAIN TableExtensionHeader.at |-> 0]
  IN  /\ none.additional_item_to_iteminfo_group_entries = 0
      /\ none.additional_iteminfo_group_entries = 0
      /\ none.additional_iteminfo_entries = 0
<1>1. PICK n1, n2, n3 :
        /\ n1 = "additional_item_to_iteminfo_group_entries"
        /\ n2 = "additional_iteminfo_group_entries" /\ n3 = "additional_iteminfo_entries"
  BY Zenon
<1>2. n1 # n2 /\ n1 # n3 /\ n1 # Skip /\ n2 # n3 /\ n2 # Skip /\ n3 # Skip
  BY <1>1 DEF Skip
<1>3. PICK names, w, n : names = <<n1, n2, n3>> /\ w = <<4, 4, 4>> /\ n = 3
  BY Zenon
<1>4. Record(n, names, w) /\ n \in Nat
  BY <1>2, <1>3 DEF Record
<1>5. TableExtensionHeader = Struct(names, w)
  BY ONLY <1>1, <1>3, Zenon DEF TableExtensionHeader
<1>6. DOMAIN Struct(names, w).at = {names[i] : i \in {j \in 1 .. n : names[j] # Skip}}
  BY ONLY <1>4, StructDef
<1>7. n1 \in DOMAIN Struct(names, w).at /\ n2 \in DOMAIN Struct(names, w).at
      /\ n3 \in DOMAIN Struct(names, w).at
  BY ONLY <1>2, <1>3, <1>6
<1>8. QED
  BY ONLY <1>1, <1>5, <1>7, Zenon

\* The map a map section holds.
MapOf(c) ==
  [schema_index |-> 1, decision_index |-> 2, resource_value_types |-> TypesOf(c),
   items |-> ItemsBy(Props(c), InfoPairs(c)),
   candidates |-> [i \in 1 .. Len(AllVariants(c)) |-> CandidateOf(c, AllVariants(c)[i])]]

\* Its header.
LEMMA MapHeaderRead ==
  ASSUME NEW c, ItemsAreWellFormed(c), DecisionsAreWellFormed(c), NEW b \in Nat,
         Laid(file.at, b, WriteMap(c))
  PROVE  LET header == Get(ResourceMapHeader, b)
         IN  /\ header.environment_references_block_length = ReferenceSize(c, 556)
             /\ header.hierarchical_schema_section_index = 1
             /\ header.hierarchical_schema_reference_block_length = ReferenceSize(c, 32)
             /\ header.decision_info_section_index = 2
             /\ header.resource_value_type_table_entries = Len(TypesOf(c))
             /\ header.item_to_iteminfo_group_table_entries = Len(TableMapped(c))
             /\ header.iteminfo_group_table_entries = Len(TableGroups(c))
             /\ header.iteminfo_table_entries = Len(TableInfos(c))
             /\ header.number_of_candidates = Len(AllVariants(c))
             /\ header.embedded_data_block_length = 4 * Len(EmbeddedOf(c))
             /\ header.table_extension_block_length = SizeOf(Extension(c))
<1>1. Laid(file.at, b, MapCounts(c))
  <2>1. Begins(WriteMap(c), KeptPart(c))
    BY ONLY ItemsAreWellFormed(c), DecisionsAreWellFormed(c), MapPlaces, Zenon
  <2>2. Begins(KeptPart(c), MapCounts(c))
    BY ONLY ItemsAreWellFormed(c), DecisionsAreWellFormed(c), KeptPlaces, Zenon
  <2>3. QED
    BY <2>1, <2>2, Zenon DEF Begins
<1>2. PICK s : s = MapCounts(c)
  OBVIOUS
<1>3. Laid(file.at, b, s)
  BY <1>1, <1>2, Zenon
<1>4. /\ s \in Written /\ Widths(s) = <<2, 2, 2, 2, 2, 2, 2, 2, 4, 4, 4, 4>>
      /\ s[1][1] = ReferenceSize(c, 556) /\ s[3][1] = 1 /\ s[4][1] = ReferenceSize(c, 32)
      /\ s[5][1] = 2 /\ s[6][1] = Len(TypesOf(c)) /\ s[7][1] = Len(TableMapped(c))
      /\ s[8][1] = Len(TableGroups(c)) /\ s[9][1] = Len(TableInfos(c))
      /\ s[10][1] = Len(AllVariants(c)) /\ s[11][1] = 4 * Len(EmbeddedOf(c))
      /\ s[12][1] = SizeOf(Extension(c))
  <2>1. MapCounts(c) \in Written
    BY ONLY ItemsAreWellFormed(c), DecisionsAreWellFormed(c), MapCountsWritten, Zenon
  <2>2. Widths(MapCounts(c)) = <<2, 2, 2, 2, 2, 2, 2, 2, 4, 4, 4, 4>>
    BY ONLY ItemsAreWellFormed(c), DecisionsAreWellFormed(c), MapCountsWritten
  <2>a. MapCounts(c)[3][1] = 1
    BY ONLY ItemsAreWellFormed(c), DecisionsAreWellFormed(c), MapCountsWritten
  <2>b. MapCounts(c)[5][1] = 2
    BY ONLY ItemsAreWellFormed(c), DecisionsAreWellFormed(c), MapCountsWritten
  <2>c. MapCounts(c)[1][1] = ReferenceSize(c, 556) /\ MapCounts(c)[4][1] = ReferenceSize(c, 32)
    BY ONLY ItemsAreWellFormed(c), DecisionsAreWellFormed(c), MapCountsWritten
  <2>3. /\ MapCounts(c)[6][1] = Len(TypesOf(c))
        /\ MapCounts(c)[7][1] = Len(TableMapped(c))
        /\ MapCounts(c)[8][1] = Len(TableGroups(c))
        /\ MapCounts(c)[9][1] = Len(TableInfos(c))
    BY ONLY ItemsAreWellFormed(c), DecisionsAreWellFormed(c), MapCountsWritten, Zenon
  <2>4. /\ MapCounts(c)[10][1] = Len(AllVariants(c))
        /\ MapCounts(c)[11][1] = 4 * Len(EmbeddedOf(c))
        /\ MapCounts(c)[12][1] = SizeOf(Extension(c))
    BY ONLY ItemsAreWellFormed(c), DecisionsAreWellFormed(c), MapCountsWritten, Zenon
  <2>5. QED
    BY ONLY <1>2, <2>1, <2>2, <2>a, <2>b, <2>c, <2>3, <2>4, Zenon
<1>5. s \in Written
  BY <1>4
<1>6. Widths(s) = <<2, 2, 2, 2, 2, 2, 2, 2, 4, 4, 4, 4>>
  BY <1>4
<1>7. /\ Get(ResourceMapHeader, b).environment_references_block_length = s[1][1]
      /\ Get(ResourceMapHeader, b).hierarchical_schema_section_index = s[3][1]
      /\ Get(ResourceMapHeader, b).hierarchical_schema_reference_block_length = s[4][1]
      /\ Get(ResourceMapHeader, b).decision_info_section_index = s[5][1]
      /\ Get(ResourceMapHeader, b).resource_value_type_table_entries = s[6][1]
      /\ Get(ResourceMapHeader, b).item_to_iteminfo_group_table_entries = s[7][1]
      /\ Get(ResourceMapHeader, b).iteminfo_group_table_entries = s[8][1]
      /\ Get(ResourceMapHeader, b).iteminfo_table_entries = s[9][1]
      /\ Get(ResourceMapHeader, b).number_of_candidates = s[10][1]
      /\ Get(ResourceMapHeader, b).embedded_data_block_length = s[11][1]
      /\ Get(ResourceMapHeader, b).table_extension_block_length = s[12][1]
  BY ONLY <1>3, <1>5, <1>6, b \in Nat, ResourceMapHeaderRead
<1>8. QED
  BY ONLY <1>4, <1>7, Zenon

\* The counts of its extension; without one there are none.
LEMMA MapExtensionRead ==
  ASSUME NEW c, ItemsAreWellFormed(c), DecisionsAreWellFormed(c), NEW b \in Nat,
         Laid(file.at, b, WriteMap(c)), NEW more,
         more = IF Extends(c) THEN Get(TableExtensionHeader, b + KeptStruct(c).size)
                ELSE [f \in DOMAIN TableExtensionHeader.at |-> 0]
  PROVE  /\ more.additional_item_to_iteminfo_group_entries = Len(ExtraMapped(c))
         /\ more.additional_iteminfo_group_entries = Len(ExtraGroups(c))
         /\ more.additional_iteminfo_entries = Len(ExtraInfos(c))
<1>1. CASE ~Extends(c)
  <2>1. ExtraMapped(c) = <<>> /\ ExtraGroups(c) = <<>> /\ ExtraInfos(c) = <<>>
    BY ONLY <1>1, ItemsAreWellFormed(c), DecisionsAreWellFormed(c), MapLists, Zenon
  <2>2. Len(ExtraMapped(c)) = 0 /\ Len(ExtraGroups(c)) = 0 /\ Len(ExtraInfos(c)) = 0
    BY ONLY <2>1
  <2>3. more = [f \in DOMAIN TableExtensionHeader.at |-> 0]
    BY <1>1, Zenon
  <2>4. QED
    BY ONLY <2>2, <2>3, NoExtension, Zenon
<1>2. CASE Extends(c)
  <2>1. PICK k, o : k = KeptStruct(c).size /\ o = b + k
    BY Zenon
  <2>2. Laid(file.at, o, ExtraCounts(c))
    <3>1. \A at, p : p \in Nat /\ Laid(at, p, WriteMap(c)) => Laid(at, p + KeptStruct(c).size, ExtraCounts(c))
      BY ONLY ItemsAreWellFormed(c), DecisionsAreWellFormed(c), MapPlaces, Zenon
    <3>2. QED
      BY <2>1, <3>1, Zenon
  <2>3. o \in Nat
    <3>1. k = SizeOf(KeptPart(c)) /\ KeptPart(c) \in Written
      BY ONLY <2>1, ItemsAreWellFormed(c), DecisionsAreWellFormed(c), KeptPlaces, MapPieces, Zenon
    <3>2. k \in Nat
      BY ONLY <3>1, WrittenIsFields, FieldsDef
    <3>3. QED
      BY ONLY <2>1, <3>2, b \in Nat
  <2>4. PICK m, g, i, s : /\ m = Len(ExtraMapped(c)) /\ g = Len(ExtraGroups(c)) /\ i = Len(ExtraInfos(c))
                          /\ s = << <<m, 4>>, <<g, 4>>, <<i, 4>> >>
    BY Zenon
  <2>5. m \in Nat /\ g \in Nat /\ i \in Nat
    <3>1. PairList(ExtraMapped(c)) /\ PairList(ExtraGroups(c)) /\ PairList(ExtraInfos(c))
      BY ONLY ItemsAreWellFormed(c), DecisionsAreWellFormed(c), MapLists, Zenon
    <3>2. QED
      BY ONLY <2>4, <3>1, PairListDef, Zenon
  <2>6. ExtraCounts(c) = s
    BY ONLY <1>2, <2>4, Zenon DEF ExtraCounts, When
  <2>7. s \in Written /\ Widths(s) = <<4, 4, 4>> /\ s[1][1] = m /\ s[2][1] = g /\ s[3][1] = i
    <3>1. Int \subseteq Values
      BY DEF Values
    <3>2. QED
      BY ONLY <2>4, <2>5, <3>1 DEF Written, Widths
  <2>8. Laid(file.at, o, s)
    BY <2>2, <2>6
  <2>a. s \in Written
    BY <2>7
  <2>b. Widths(s) = <<4, 4, 4>>
    BY <2>7
  <2>9. /\ Get(TableExtensionHeader, o).additional_item_to_iteminfo_group_entries = s[1][1]
        /\ Get(TableExtensionHeader, o).additional_iteminfo_group_entries = s[2][1]
        /\ Get(TableExtensionHeader, o).additional_iteminfo_entries = s[3][1]
    BY ONLY <2>3, <2>8, <2>a, <2>b, TableExtensionHeaderRead
  <2>10. more = Get(TableExtensionHeader, o)
    BY <1>2, <2>1, Zenon
  <2>11. QED
    BY ONLY <2>4, <2>7, <2>9, <2>10, Zenon
<1>3. QED
  BY <1>1, <1>2

\* A map section reads back as the map of the contents, however the items are
\* packed, unless it is shorter than its tables: build_resource_map.
LEMMA MapRead ==
  ASSUME NEW c, ItemsAreWellFormed(c), DecisionsAreWellFormed(c), NEW range, range.base \in Nat,
         Laid(file.at, range.base, WriteMap(c))
  PROVE  BuildMap(range) = Built(Fits(range, 0, SizeOf(WriteMap(c))), MapOf(c))
<1> DEFINE
      header == Get(ResourceMapHeader, range.base)
      kept   == Struct(<<"header", "environments", "schema", "types", "mapped",
                         "groups", "infos">>,
                       <<ResourceMapHeader.size,
                         header.environment_references_block_length,
                         header.hierarchical_schema_reference_block_length,
                         header.resource_value_type_table_entries * ResourceValueTypeEntry.size,
                         header.item_to_iteminfo_group_table_entries * ItemToItemInfoGroupEntry.size,
                         header.iteminfo_group_table_entries * ItemInfoGroupEntry.size,
                         header.iteminfo_table_entries * ItemInfoEntry.size>>)
      extended == header.table_extension_block_length > 0
      more   == IF extended THEN Get(TableExtensionHeader, range.base + kept.size)
                ELSE [f \in DOMAIN TableExtensionHeader.at |-> 0]
      tables == Struct(<<"kept", "extension", "mapped", "groups", "infos",
                         "candidates", "embedded">>,
                       <<kept.size,
                         IF extended THEN TableExtensionHeader.size ELSE 0,
                         more.additional_item_to_iteminfo_group_entries * ItemToItemInfoGroupEntryExt.size,
                         more.additional_iteminfo_group_entries * ItemInfoGroupEntryExt.size,
                         more.additional_iteminfo_entries * ItemInfoEntryExt.size,
                         header.number_of_candidates * EmbeddedCandidate.size,
                         header.embedded_data_block_length>>)
      Kept(name) == range.base + kept.at[name][1]
      More(name) == range.base + tables.at[name][1]
      types  == Rows(ResourceValueTypeEntry, Kept("types"),
                     header.resource_value_type_table_entries)
      mapped1 == Pairs(ItemToItemInfoGroupEntry, Kept("mapped"),
                      header.item_to_iteminfo_group_table_entries,
                      "first_item_index_property", "iteminfo_group_index")
      mapped2 == Pairs(ItemToItemInfoGroupEntryExt, More("mapped"),
                         more.additional_item_to_iteminfo_group_entries,
                         "first_item_index_property", "iteminfo_group_index")
      groups1 == Pairs(ItemInfoGroupEntry, Kept("groups"), header.iteminfo_group_table_entries,
                      "number_of_iteminfos", "first_iteminfo_index")
      groups2 == Pairs(ItemInfoGroupEntryExt, More("groups"),
                         more.additional_iteminfo_group_entries,
                         "number_of_iteminfos", "first_iteminfo_index")
      infos1  == Pairs(ItemInfoEntry, Kept("infos"), header.iteminfo_table_entries,
                      "decision_index", "first_candidate_index")
      infos2 == Pairs(ItemInfoEntryExt, More("infos"), more.additional_iteminfo_entries,
                         "decision_index", "first_candidate_index")
      embedded  == Part(range, tables.at.embedded)
      At(i)     == More("candidates") + (i - 1) * EmbeddedCandidate.size
      items     == MapItems(mapped1 \o mapped2, groups1 \o groups2, infos1 \o infos2)
      typed     == \A i \in DOMAIN types : types[i].resource_value_type < Len(ResourceValueTypes)
      inside    == \A i \in 1 .. header.number_of_candidates : Lies(embedded, At(i))
      names     == [i \in DOMAIN types |-> ResourceValueTypes[types[i].resource_value_type + 1]]
      candidates == [i \in 1 .. header.number_of_candidates |-> Candidate(embedded, At(i))]
      map == [schema_index |-> header.hierarchical_schema_section_index,
              decision_index |-> header.decision_info_section_index,
              resource_value_types |-> names, items |-> items[1], candidates |-> candidates]
<1>1. BuildMap(range) = Built(/\ Fits(range, 0, tables.size) /\ typed /\ inside /\ items # <<>>, map)
  BY ONLY Zenon DEF BuildMap
<1>2. PICK b : b = range.base
  OBVIOUS
<1>3. b \in Nat /\ Laid(file.at, b, WriteMap(c))
  BY <1>2
<1>4. /\ header.environment_references_block_length = ReferenceSize(c, 556)
      /\ header.hierarchical_schema_section_index = 1
      /\ header.hierarchical_schema_reference_block_length = ReferenceSize(c, 32)
      /\ header.decision_info_section_index = 2
      /\ header.resource_value_type_table_entries = Len(TypesOf(c))
      /\ header.item_to_iteminfo_group_table_entries = Len(TableMapped(c))
      /\ header.iteminfo_group_table_entries = Len(TableGroups(c))
      /\ header.iteminfo_table_entries = Len(TableInfos(c))
      /\ header.number_of_candidates = Len(AllVariants(c))
      /\ header.embedded_data_block_length = 4 * Len(EmbeddedOf(c))
      /\ header.table_extension_block_length = SizeOf(Extension(c))
  BY ONLY <1>2, <1>3, ItemsAreWellFormed(c), DecisionsAreWellFormed(c), MapHeaderRead, Zenon
<1>5. kept = KeptStruct(c)
  <2>1. /\ ResourceMapHeader.size = 32 /\ ResourceValueTypeEntry.size = 8
        /\ ItemToItemInfoGroupEntry.size = 4 /\ ItemInfoGroupEntry.size = 4 /\ ItemInfoEntry.size = 4
    BY RecordSizes
  <2>2. QED
    BY ONLY <1>4, <2>1, Zenon DEF KeptStruct
<1>6. extended <=> Extends(c)
  <2>1. PICK s, e : s = SizeOf(Extension(c)) /\ e = Extends(c)
    OBVIOUS
  <2>2. (e => s > 0) /\ (~e => s = 0)
    BY ONLY <2>1, ItemsAreWellFormed(c), DecisionsAreWellFormed(c), ExtensionPieces, Zenon
  <2>3. s > 0 <=> e
    BY ONLY <2>2
  <2>4. QED
    BY ONLY <1>4, <2>1, <2>3, Zenon
<1> HIDE DEF header, kept
<1>7. /\ more.additional_item_to_iteminfo_group_entries = Len(ExtraMapped(c))
      /\ more.additional_iteminfo_group_entries = Len(ExtraGroups(c))
      /\ more.additional_iteminfo_entries = Len(ExtraInfos(c))
  <2>1. PICK m : m = more
    OBVIOUS
  <2>2. m = IF Extends(c) THEN Get(TableExtensionHeader, b + KeptStruct(c).size)
            ELSE [f \in DOMAIN TableExtensionHeader.at |-> 0]
    BY ONLY <1>2, <1>5, <1>6, <2>1, Zenon
  <2>3. b \in Nat
    BY <1>3
  <2>4. Laid(file.at, b, WriteMap(c))
    BY <1>3
  <2>5. /\ m.additional_item_to_iteminfo_group_entries = Len(ExtraMapped(c))
        /\ m.additional_iteminfo_group_entries = Len(ExtraGroups(c))
        /\ m.additional_iteminfo_entries = Len(ExtraInfos(c))
    BY ONLY <2>2, <2>3, <2>4, ItemsAreWellFormed(c), DecisionsAreWellFormed(c), MapExtensionRead, Zenon
  <2>6. QED
    BY ONLY <2>1, <2>5, Zenon
<1>8. tables = MapStruct(c)
  <2>1. /\ TableExtensionHeader.size = 12 /\ ItemToItemInfoGroupEntryExt.size = 8
        /\ ItemInfoGroupEntryExt.size = 8 /\ ItemInfoEntryExt.size = 8 /\ EmbeddedCandidate.size = 8
    BY RecordSizes
  <2> HIDE DEF more
  <2>2. QED
    BY ONLY <1>4, <1>5, <1>6, <1>7, <2>1, Zenon DEF MapStruct
<1> HIDE DEF extended, more, tables
<1>9. PICK k, t : k = kept /\ t = tables
  OBVIOUS
<1>10. /\ Holds(k, "types", KeptPart(c), TypeTable(c))
       /\ Holds(k, "mapped", KeptPart(c), Shorts(TableMapped(c)))
       /\ Holds(k, "groups", KeptPart(c), Shorts(TableGroups(c)))
       /\ Holds(k, "infos", KeptPart(c), Shorts(TableInfos(c)))
       /\ Laid(file.at, b, KeptPart(c))
  <2>1. k = KeptStruct(c)
    BY ONLY <1>5, <1>9, Zenon
  <2>2. Begins(WriteMap(c), KeptPart(c))
    BY ONLY ItemsAreWellFormed(c), DecisionsAreWellFormed(c), MapPlaces, Zenon
  <2>3. Laid(file.at, b, KeptPart(c))
    BY ONLY <1>3, <2>2, Zenon DEF Begins
  <2>4. QED
    BY ONLY <2>1, <2>3, ItemsAreWellFormed(c), DecisionsAreWellFormed(c), KeptPlaces, Zenon
<1>11. /\ Holds(t, "mapped", WriteMap(c), Longs(ExtraMapped(c)))
       /\ Holds(t, "groups", WriteMap(c), Longs(ExtraGroups(c)))
       /\ Holds(t, "infos", WriteMap(c), Longs(ExtraInfos(c)))
       /\ Holds(t, "candidates", WriteMap(c), CandidateTable(c))
       /\ Holds(t, "embedded", WriteMap(c), EmbeddedPart(c))
       /\ t.size = SizeOf(WriteMap(c))
  <2>1. t = MapStruct(c)
    BY ONLY <1>8, <1>9, Zenon
  <2>2. QED
    BY ONLY <2>1, ItemsAreWellFormed(c), DecisionsAreWellFormed(c), MapPlaces, Zenon
<1>12. PICK o1, o2, o3, o4, o5, o6, o7, o8, o9 :
         /\ o1 = Kept("types") /\ o2 = Kept("mapped") /\ o3 = Kept("groups") /\ o4 = Kept("infos")
         /\ o5 = More("mapped") /\ o6 = More("groups") /\ o7 = More("infos")
         /\ o8 = More("candidates") /\ o9 = embedded.base
  BY Zenon
<1>13. \A x, name, r, p : Holds(x, name, r, p) /\ Laid(file.at, b, r) =>
          b + x.at[name][1] \in Nat /\ Laid(file.at, b + x.at[name][1], p) /\ x.at[name][2] = SizeOf(p)
  <2>1. SUFFICES ASSUME NEW x, NEW name, NEW r, NEW p, Holds(x, name, r, p), Laid(file.at, b, r)
                 PROVE  b + x.at[name][1] \in Nat /\ Laid(file.at, b + x.at[name][1], p)
                        /\ x.at[name][2] = SizeOf(p)
    BY Zenon
  <2>2. /\ x.at[name][1] \in Nat /\ x.at[name][2] = SizeOf(p)
        /\ \A at, o : o \in Nat /\ Laid(at, o, r) => Laid(at, o + x.at[name][1], p)
    BY ONLY <2>1, Zenon DEF Holds
  <2>3. PICK d : d = x.at[name][1]
    OBVIOUS
  <2>4. d \in Nat
    BY <2>2, <2>3
  <2>5. b + d \in Nat
    BY ONLY <2>4, <1>3
  <2>6. QED
    BY ONLY <1>3, <2>1, <2>2, <2>3, <2>5, Zenon
<1>14. /\ o1 \in Nat /\ Laid(file.at, o1, TypeTable(c))
       /\ o2 \in Nat /\ Laid(file.at, o2, Shorts(TableMapped(c)))
       /\ o3 \in Nat /\ Laid(file.at, o3, Shorts(TableGroups(c)))
       /\ o4 \in Nat /\ Laid(file.at, o4, Shorts(TableInfos(c)))
  BY ONLY <1>2, <1>9, <1>10, <1>12, <1>13, Zenon
<1>15. /\ o5 \in Nat /\ Laid(file.at, o5, Longs(ExtraMapped(c)))
       /\ o6 \in Nat /\ Laid(file.at, o6, Longs(ExtraGroups(c)))
       /\ o7 \in Nat /\ Laid(file.at, o7, Longs(ExtraInfos(c)))
       /\ o8 \in Nat /\ Laid(file.at, o8, CandidateTable(c))
  BY ONLY <1>2, <1>3, <1>9, <1>11, <1>12, <1>13, Zenon
<1>16. PICK e : e = embedded
  OBVIOUS
<1>17. Embeds(c, e)
  <2>1. e.base = b + t.at["embedded"][1] /\ e.len = t.at["embedded"][2]
    BY ONLY <1>2, <1>9, <1>16, Zenon DEF Part
  <2>2. e.base \in Nat /\ Laid(file.at, e.base, EmbeddedPart(c)) /\ e.len = SizeOf(EmbeddedPart(c))
    <3>1. PICK f, r, p : f = "embedded" /\ r = WriteMap(c) /\ p = EmbeddedPart(c)
      BY Zenon
    <3>2. Holds(t, f, r, p) /\ Laid(file.at, b, r)
      BY ONLY <1>3, <1>11, <3>1, Zenon
    <3>3. b + t.at[f][1] \in Nat /\ Laid(file.at, b + t.at[f][1], p) /\ t.at[f][2] = SizeOf(p)
      BY ONLY <1>13, <3>2, Zenon
    <3>4. QED
      BY ONLY <2>1, <3>1, <3>3, Zenon
  <2>3. SizeOf(EmbeddedPart(c)) = Len(EmbeddedOf(c)) * 4
    BY ONLY ItemsAreWellFormed(c), MapTables, Zenon
  <2>4. QED
    BY ONLY <2>2, <2>3, Zenon DEF Embeds, EmbeddedPart
<1>18. /\ mapped1 = TableMapped(c) /\ mapped2 = ExtraMapped(c) /\ groups1 = TableGroups(c)
       /\ groups2 = ExtraGroups(c) /\ infos1 = TableInfos(c) /\ infos2 = ExtraInfos(c)
  <2>1. /\ PairList(TableMapped(c)) /\ PairList(TableGroups(c)) /\ PairList(TableInfos(c))
        /\ PairList(ExtraMapped(c)) /\ PairList(ExtraGroups(c)) /\ PairList(ExtraInfos(c))
    BY ONLY ItemsAreWellFormed(c), DecisionsAreWellFormed(c), MapLists, Zenon
  <2>2. /\ mapped1 = Pairs(ItemToItemInfoGroupEntry, o2, Len(TableMapped(c)),
                           "first_item_index_property", "iteminfo_group_index")
        /\ groups1 = Pairs(ItemInfoGroupEntry, o3, Len(TableGroups(c)),
                           "number_of_iteminfos", "first_iteminfo_index")
        /\ infos1 = Pairs(ItemInfoEntry, o4, Len(TableInfos(c)),
                          "decision_index", "first_candidate_index")
    BY ONLY <1>4, <1>12, Zenon
  <2>3. /\ mapped2 = Pairs(ItemToItemInfoGroupEntryExt, o5, Len(ExtraMapped(c)),
                           "first_item_index_property", "iteminfo_group_index")
        /\ groups2 = Pairs(ItemInfoGroupEntryExt, o6, Len(ExtraGroups(c)),
                           "number_of_iteminfos", "first_iteminfo_index")
        /\ infos2 = Pairs(ItemInfoEntryExt, o7, Len(ExtraInfos(c)),
                          "decision_index", "first_candidate_index")
    BY ONLY <1>7, <1>12, Zenon
  <2> HIDE DEF mapped1, mapped2, groups1, groups2, infos1, infos2
  <2>4. mapped1 = TableMapped(c) /\ groups1 = TableGroups(c) /\ infos1 = TableInfos(c)
    BY ONLY <1>14, <2>1, <2>2, PairsRead, Zenon
  <2>5. mapped2 = ExtraMapped(c) /\ groups2 = ExtraGroups(c) /\ infos2 = ExtraInfos(c)
    BY ONLY <1>15, <2>1, <2>3, PairsRead, Zenon
  <2>6. QED
    BY ONLY <2>4, <2>5, Zenon
<1> HIDE DEF mapped1, mapped2, groups1, groups2, infos1, infos2
<1>19. items = <<ItemsBy(Props(c), InfoPairs(c))>>
  <2>1. PICK m, g, i, n, p : /\ m = TableMapped(c) \o ExtraMapped(c) /\ g = TableGroups(c) \o ExtraGroups(c)
                             /\ i = InfoPairs(c) /\ n = Len(InfoPairs(c)) /\ p = Props(c)
    BY Zenon
  <2>2. n = Len(c.items)
    <3>1. DOMAIN c.items = 1 .. Len(c.items) /\ Len(c.items) \in Nat
      BY ONLY ItemsAreWellFormed(c), DecisionsAreWellFormed(c), ItemParts
    <3>2. DOMAIN i = DOMAIN c.items
      BY ONLY <2>1, Zenon DEF InfoPairs
    <3>3. i = [j \in DOMAIN c.items |-> i[j]]
      BY ONLY <2>1, <3>2, Zenon DEF InfoPairs
    <3>4. n = Len(i)
      BY ONLY <2>1, Zenon
    <3>5. QED
      BY ONLY <3>1, <3>3, <3>4
  <2>3. Packs(m, g, n, p)
    BY ONLY <2>1, <2>2, ItemsAreWellFormed(c), DecisionsAreWellFormed(c), MapLists, Zenon
  <2>4. \A r \in RunsOf(m, g, n) : r[1] \in Nat
    BY ONLY TRUE DEF RunsOf
  <2>5. n = Len(i)
    BY ONLY <2>1, Zenon
  <2>6. MapItems(m, g, i) = <<ItemsBy(p, i)>>
    BY ONLY <2>3, <2>4, <2>5, ItemsMapped
  <2>7. infos1 \o infos2 = i
    BY ONLY <1>18, <2>1, ItemsAreWellFormed(c), DecisionsAreWellFormed(c), MapLists, Zenon
  <2>8. QED
    BY ONLY <1>18, <2>1, <2>6, <2>7, Zenon
<1>20. items # <<>> /\ items[1] = ItemsBy(Props(c), InfoPairs(c))
  <2>1. PICK x, y : x = items /\ y = ItemsBy(Props(c), InfoPairs(c))
    OBVIOUS
  <2>2. x = <<y>>
    BY ONLY <1>19, <2>1, Zenon
  <2>3. x # <<>> /\ x[1] = y
    BY ONLY <2>2
  <2>4. QED
    BY ONLY <2>1, <2>3, Zenon
<1>21. typed /\ names = TypesOf(c)
  <2>1. PICK n, T, f, g, l : /\ n = Len(TypesOf(c)) /\ T = TypesOf(c) /\ f = Fours(n)
                             /\ g = TypeNumbers(c) /\ l = Len(ResourceValueTypes)
    BY Zenon
  <2>2. types = [i \in 1 .. n |-> Get(ResourceValueTypeEntry, o1 + (i - 1) * 8)]
    <3>1. ResourceValueTypeEntry.size = 8
      BY RecordSizes
    <3>2. QED
      BY ONLY <1>4, <1>12, <2>1, <3>1, Zenon DEF Rows
  <2>3. /\ DOMAIN T = 1 .. n
        /\ \A i \in 1 .. n : /\ IndexIn(ResourceValueTypes, T[i]) \in 0 .. 6
                             /\ ResourceValueTypes[IndexIn(ResourceValueTypes, T[i]) + 1] = T[i]
    BY ONLY <2>1, ItemsAreWellFormed(c), TypesList, Zenon
  <2>4. Column(n, f) /\ Column(n, g) /\ Laid(file.at, o1, Couples(n, 4, f, g))
    BY ONLY <1>14, <2>1, ItemsAreWellFormed(c), MapTables, Zenon DEF TypeTable
  <2>5. ASSUME NEW i \in 1 .. n PROVE types[i].resource_value_type = IndexIn(ResourceValueTypes, T[i])
    <3>1. Get(ResourceValueTypeEntry, o1 + (i - 1) * 8).resource_value_type = g[i]
      BY ONLY <1>14, <2>4, <2>5, LongPairsRead
    <3>2. g[i] = IndexIn(ResourceValueTypes, T[i])
      BY ONLY <2>1, <2>5, Zenon DEF TypeNumbers
    <3>3. types[i] = Get(ResourceValueTypeEntry, o1 + (i - 1) * 8)
      BY ONLY <2>2, <2>5, Zenon
    <3>4. QED
      BY ONLY <3>1, <3>2, <3>3, Zenon
  <2>6. l = 7
    BY ONLY <2>1 DEF ResourceValueTypes
  <2>7. ASSUME NEW i \in 1 .. n PROVE IndexIn(ResourceValueTypes, T[i]) < l
    BY ONLY <2>3, <2>6, <2>7
  <2> HIDE DEF types
  <2>8. DOMAIN types = 1 .. n
    BY ONLY <2>2, Zenon
  <2>9. typed
    BY ONLY <2>1, <2>5, <2>7, <2>8, Zenon
  <2>10. names = [i \in 1 .. n |-> T[i]]
    <3>1. names = [i \in 1 .. n |-> ResourceValueTypes[types[i].resource_value_type + 1]]
      BY ONLY <2>8, Zenon
    <3>2. \A i \in 1 .. n : ResourceValueTypes[types[i].resource_value_type + 1] = T[i]
      BY ONLY <2>3, <2>5, Zenon
    <3>3. QED
      BY ONLY <3>1, <3>2, Zenon
  <2>11. T = [i \in 1 .. n |-> T[i]]
    <3>1. T = [i \in DOMAIN T |-> T[i]]
      <4>1. PICK V : V = {v.type : v \in Range(AllVariants(c))} \cup Range(ResourceValueTypes)
        OBVIOUS
      <4>2. PICK U : (\A x \in U : IsVariant(x)) /\ AllVariants(c) \in Seq(U)
        BY VariantList
      <4>3. PICK a, s, m : a = AllVariants(c) /\ m = Len(AllVariants(c)) /\ s = [i \in DOMAIN a |-> a[i].type]
        OBVIOUS
      <4>4. m \in Nat /\ DOMAIN a = 1 .. m /\ a \in [1 .. m -> U]
        BY ONLY <4>2, <4>3
      <4>5. PICK W : W = {a[i].type : i \in 1 .. m}
        OBVIOUS
      <4>6. s \in [1 .. m -> W]
        BY ONLY <4>3, <4>4, <4>5
      <4>7. Reduces(W, m, s, Distinct(s))
        BY ONLY <4>4, <4>6, DistinctList
      <4>8. T = Distinct(s)
        BY ONLY <2>1, <4>3, Zenon DEF TypesOf
      <4>9. T \in Seq(W)
        BY ONLY <4>7, <4>8, Zenon DEF Reduces
      <4>10. QED
        BY ONLY <4>9
    <3>2. QED
      BY ONLY <2>3, <3>1, Zenon
  <2>12. QED
    BY ONLY <2>1, <2>9, <2>10, <2>11, Zenon
<1>22. inside /\ candidates = MapOf(c).candidates
  <2>1. PICK n, a : n = Len(AllVariants(c)) /\ a = AllVariants(c)
    OBVIOUS
  <2>2. EmbeddedCandidate.size = 8
    BY RecordSizes
  <2>3. ASSUME NEW i \in 1 .. n PROVE Candidate(e, At(i)) = CandidateOf(c, a[i]) /\ Lies(e, At(i))
    <3>1. PICK o, v, s : o = o8 + (i - 1) * 8 /\ v = a[i] /\ s = CandidateRow(c, v)
      BY Zenon
    <3>2. At(i) = o
      BY ONLY <1>12, <2>2, <3>1, Zenon
    <3>3. o \in Nat
      <4>1. n \in Nat
        BY ONLY <2>1, ItemsAreWellFormed(c), MapTables, Zenon
      <4>2. QED
        BY ONLY <1>15, <2>3, <3>1, <4>1
    <3>4. Laid(file.at, o, s)
      <4>1. \A at, p : p \in Nat /\ Laid(at, p, CandidateTable(c)) =>
               \A j \in 1 .. Len(AllVariants(c)) :
                 Laid(at, p + (j - 1) * 8, CandidateRow(c, AllVariants(c)[j]))
        BY ONLY ItemsAreWellFormed(c), MapTables, Zenon
      <4>2. QED
        BY ONLY <1>15, <2>1, <2>3, <3>1, <4>1, Zenon
    <3>5. i \in 1 .. Len(AllVariants(c)) /\ v = AllVariants(c)[i]
      BY ONLY <2>1, <2>3, <3>1, Zenon
    <3>6. \A x, p : p \in Nat /\ Laid(file.at, p, s) /\ Embeds(c, x) =>
              Candidate(x, p) = CandidateOf(c, v) /\ Lies(x, p)
      BY ONLY <3>1, <3>5, ItemsAreWellFormed(c), CandidateRead
    <3>7. QED
      BY ONLY <1>17, <3>1, <3>2, <3>3, <3>4, <3>6, Zenon
  <2> HIDE DEF At
  <2>4. inside
    BY ONLY <1>4, <1>16, <2>1, <2>3, Zenon
  <2>5. candidates = [i \in 1 .. n |-> Candidate(e, At(i))]
    BY ONLY <1>4, <1>16, <2>1, Zenon
  <2>6. [i \in 1 .. n |-> Candidate(e, At(i))] = [i \in 1 .. n |-> CandidateOf(c, a[i])]
    BY ONLY <2>3
  <2>7. MapOf(c).candidates = [i \in 1 .. n |-> CandidateOf(c, a[i])]
    BY ONLY <2>1, Zenon DEF MapOf
  <2>8. QED
    BY ONLY <2>4, <2>5, <2>6, <2>7, Zenon
<1> HIDE DEF typed, inside, items, names, candidates
<1>23. map = MapOf(c)
  <2>1. MapOf(c).candidates = [i \in 1 .. Len(AllVariants(c)) |-> CandidateOf(c, AllVariants(c)[i])]
    BY ONLY Zenon DEF MapOf
  <2>2. QED
    BY ONLY <1>4, <1>20, <1>21, <1>22, <2>1, Zenon DEF MapOf
<1>24. Fits(range, 0, tables.size) = Fits(range, 0, SizeOf(WriteMap(c)))
  BY ONLY <1>9, <1>11, Zenon
<1>25. QED
  BY ONLY <1>1, <1>20, <1>21, <1>22, <1>23, <1>24, Zenon DEF Built

-----------------------------------------------------------------------------
\* The schema section: paths that are followed from a name to the root.

\* The paths of a name table: each not empty, no two the same, each below
\* another one of the table or of a single name.
PathTable(T, n, path) ==
  /\ n \in Nat /\ path \in [1 .. n -> Seq(T) \ {<<>>}]
  /\ \A i, j \in 1 .. n : path[i] = path[j] => i = j
  /\ \A i \in 1 .. n : Len(path[i]) > 1 => \E j \in 1 .. n : path[j] = Front(path[i])

\* No path is longer than the table, as it holds all the paths above.
LEMMA PathsAreShort ==
  ASSUME NEW T, NEW n, NEW path, PathTable(T, n, path), NEW i \in 1 .. n
  PROVE  Len(path[i]) \in 1 .. n
<1>1. /\ n \in Nat /\ path \in [1 .. n -> Seq(T) \ {<<>>}]
      /\ \A a, b \in 1 .. n : path[a] = path[b] => a = b
      /\ \A a \in 1 .. n : Len(path[a]) > 1 => \E j \in 1 .. n : path[j] = Front(path[a])
  BY DEF PathTable
<1>2. PICK p, L : p = path[i] /\ L = Len(p)
  OBVIOUS
<1>3. p \in Seq(T) /\ L \in Nat /\ L > 0
  BY <1>1, <1>2
<1> DEFINE S == {d \in Nat : d < L => \E j \in 1 .. n : path[j] = SubSeq(p, 1, L - d)}
<1>4. 0 \in S
  <2>1. SubSeq(p, 1, L - 0) = p
    BY <1>2, <1>3
  <2>2. QED
    BY <1>2, <2>1
<1>5. ASSUME NEW d \in S PROVE d + 1 \in S
  <2>1. SUFFICES ASSUME d + 1 < L PROVE \E j \in 1 .. n : path[j] = SubSeq(p, 1, L - (d + 1))
    OBVIOUS
  <2>2. d \in Nat /\ d < L
    BY <1>3, <2>1
  <2>3. PICK k \in 1 .. n : path[k] = SubSeq(p, 1, L - d)
    BY <2>2
  <2>4. Len(path[k]) = L - d /\ L - d > 1
    BY <1>2, <1>3, <2>1, <2>2, <2>3
  <2>5. PICK j \in 1 .. n : path[j] = Front(path[k])
    BY <1>1, <2>4
  <2>6. Front(path[k]) = SubSeq(path[k], 1, (L - d) - 1)
    BY <2>4 DEF Front
  <2>7. SubSeq(SubSeq(p, 1, L - d), 1, (L - d) - 1) = SubSeq(p, 1, L - (d + 1))
    BY <1>2, <1>3, <2>1, <2>2
  <2>8. QED
    BY <2>3, <2>5, <2>6, <2>7
<1>6. S = Nat
  <2>1. S \subseteq Nat
    OBVIOUS
  <2> HIDE DEF S
  <2>2. QED
    BY <1>4, <1>5, <2>1, InductionOnSet
<1>7. \A m \in 1 .. L : \E j \in 1 .. n : path[j] = SubSeq(p, 1, m)
  <2>1. SUFFICES ASSUME NEW m \in 1 .. L PROVE \E j \in 1 .. n : path[j] = SubSeq(p, 1, m)
    OBVIOUS
  <2>2. L - m \in Nat /\ L - m < L /\ L - (L - m) = m
    BY <1>3
  <2>3. L - m \in S
    BY <1>6, <2>2
  <2>4. QED
    BY <2>2, <2>3
<1>8. PICK f : f \in [1 .. L -> 1 .. n] /\ \A m \in 1 .. L : path[f[m]] = SubSeq(p, 1, m)
  <2>1. PICK f : f = [m \in 1 .. L |-> CHOOSE j \in 1 .. n : path[j] = SubSeq(p, 1, m)]
    OBVIOUS
  <2>2. \A m \in 1 .. L : f[m] \in 1 .. n /\ path[f[m]] = SubSeq(p, 1, m)
    BY <1>7, <2>1
  <2>3. QED
    BY <2>1, <2>2
<1>9. \A a, b \in 1 .. L : f[a] = f[b] => a = b
  <2>1. \A m \in 1 .. L : Len(path[f[m]]) = m
    BY <1>2, <1>3, <1>8
  <2>2. QED
    BY <2>1
<1>10. IsFiniteSet(1 .. L) /\ IsFiniteSet(1 .. n) /\ Cardinality(1 .. L) = L /\ Cardinality(1 .. n) = n
  BY <1>1, <1>3, FS_Interval
<1>11. ~(n < L)
  <2>1. SUFFICES ASSUME n < L PROVE FALSE
    OBVIOUS
  <2>2. PICK A, B : A = 1 .. L /\ B = 1 .. n
    OBVIOUS
  <2>3. IsFiniteSet(A) /\ IsFiniteSet(B) /\ Cardinality(B) < Cardinality(A) /\ f \in [A -> B]
    BY ONLY <1>8, <1>10, <2>1, <2>2
  <2>4. \E x, y \in A : x # y /\ f[x] = f[y]
    BY ONLY <2>3, FS_PigeonHole
  <2>5. QED
    BY ONLY <1>9, <2>2, <2>4, Zenon
<1>12. QED
  BY <1>1, <1>2, <1>3, <1>11

\* The last names of a path, as many as steps to the root are taken.
LastOf(p, s) == SubSeq(p, IF s < Len(p) THEN Len(p) - s ELSE 1, Len(p))

\* The last names of a path, step by step up.
LEMMA LastOfDef ==
  ASSUME NEW T, NEW p \in Seq(T), p # <<>>, NEW s \in Nat
  PROVE  /\ LastOf(p, 0) = <<Last(p)>>
         /\ Len(p) = 1 => LastOf(p, s) = <<Last(p)>>
         /\ Len(p) > 1 => LastOf(p, s + 1) = Append(LastOf(Front(p), s), Last(p))
         /\ Len(p) <= s => LastOf(p, s) = p
<1>a. PICK L : L = Len(p)
  OBVIOUS
<1>0. L \in Nat /\ L > 0
  BY <1>a
<1>1. L \in Nat /\ L > 0 /\ Last(p) = p[L] /\ p \in [1 .. L -> T]
  <2>1. Last(p) = p[L]
    BY ONLY <1>a, Zenon DEF Last
  <2>2. p \in [1 .. L -> T]
    BY ONLY <1>a, p \in Seq(T)
  <2>3. QED
    BY ONLY <1>0, <2>1, <2>2
<1>b. SubSeq(p, L, L) = <<p[L]>> /\ SubSeq(p, 1, L) = p
  <2>1. PICK x, y, z : x = SubSeq(p, L, L) /\ y = <<p[L]>> /\ z = SubSeq(p, 1, L)
    OBVIOUS
  <2>2. x \in Seq(T) /\ Len(x) = 1 /\ x[1] = p[L]
    BY ONLY <1>a, <1>0, <2>1, p \in Seq(T)
  <2>a. PICK v : v = p[L]
    OBVIOUS
  <2>b. y = <<v>>
    BY ONLY <2>1, <2>a, Zenon
  <2>c. x[1] = v
    BY ONLY <2>2, <2>a, Zenon
  <2>d. x = [i \in 1 .. 1 |-> x[i]]
    BY ONLY <2>2
  <2>3. x = y
    BY ONLY <2>b, <2>c, <2>d
  <2>4. z \in Seq(T) /\ Len(z) = L /\ \A i \in 1 .. L : z[i] = p[i]
    BY ONLY <1>a, <1>0, <2>1, p \in Seq(T)
  <2>5. z = p
    BY ONLY <1>a, <2>4, p \in Seq(T)
  <2>6. QED
    BY ONLY <2>1, <2>3, <2>5
<1>2. LastOf(p, 0) = <<Last(p)>>
  <2>1. LastOf(p, 0) = SubSeq(p, L, L)
    BY ONLY <1>a, <1>1 DEF LastOf
  <2>2. QED
    BY ONLY <1>1, <1>b, <2>1
<1>3. ASSUME L = 1 PROVE LastOf(p, s) = <<Last(p)>>
  <2>1. LastOf(p, s) = SubSeq(p, L, L)
    BY ONLY <1>a, <1>3, s \in Nat DEF LastOf
  <2>2. QED
    BY ONLY <1>1, <1>b, <2>1
<1>4. ASSUME L <= s PROVE LastOf(p, s) = p
  <2>1. (IF s < L THEN L - s ELSE 1) = 1
    BY ONLY <1>0, <1>4, s \in Nat
  <2>3. LastOf(p, s) = SubSeq(p, 1, L)
    BY ONLY <1>a, <2>1, Zenon DEF LastOf
  <2>2. QED
    BY ONLY <1>b, <2>3
<1>5. ASSUME L > 1 PROVE LastOf(p, s + 1) = Append(LastOf(Front(p), s), Last(p))
  <2>1. PICK q : q = Front(p)
    OBVIOUS
  <2>2. q = SubSeq(p, 1, L - 1)
    BY <1>a, <2>1 DEF Front
  <2>3. q \in Seq(T) /\ Len(q) = L - 1 /\ \A i \in 1 .. L - 1 : q[i] = p[i]
    BY ONLY <1>a, <1>1, <1>5, <2>2, p \in Seq(T)
  <2>4. PICK a : a = (IF s < L - 1 THEN (L - 1) - s ELSE 1)
    OBVIOUS
  <2>a. a \in Nat /\ a \in 1 .. L - 1
    BY ONLY <1>1, <1>5, <2>4, s \in Nat
  <2>5. a = IF s + 1 < L THEN L - (s + 1) ELSE 1
    BY ONLY <1>1, <1>5, <2>4, s \in Nat
  <2>6. LastOf(p, s + 1) = SubSeq(p, a, L)
    BY ONLY <1>a, <2>5 DEF LastOf
  <2>7. LastOf(q, s) = SubSeq(q, a, L - 1)
    BY ONLY <2>3, <2>4 DEF LastOf
  <2>b. PICK x, y, z : x = SubSeq(p, a, L) /\ y = SubSeq(q, a, L - 1) /\ z = Append(y, p[L])
    OBVIOUS
  <2>c. /\ x \in Seq(T) /\ Len(x) = L - a + 1 /\ \A i \in 1 .. L - a + 1 : x[i] = p[a + i - 1]
    BY ONLY <1>a, <1>1, <2>a, <2>b, p \in Seq(T)
  <2>d. /\ y \in Seq(T) /\ Len(y) = L - a /\ \A i \in 1 .. L - a : y[i] = q[a + i - 1]
    BY ONLY <1>1, <1>5, <2>3, <2>a, <2>b
  <2>e. /\ z \in Seq(T) /\ Len(z) = L - a + 1 /\ z[L - a + 1] = p[L]
        /\ \A i \in 1 .. L - a : z[i] = y[i]
    BY ONLY <1>1, <2>a, <2>b, <2>d
  <2>f. \A i \in 1 .. L - a + 1 : x[i] = z[i]
    <3>1. SUFFICES ASSUME NEW i \in 1 .. L - a + 1 PROVE x[i] = z[i]
      OBVIOUS
    <3>2. CASE i = L - a + 1
      BY ONLY <1>1, <2>a, <2>c, <2>e, <3>2
    <3>3. CASE i # L - a + 1
      <4>1. i \in 1 .. L - a /\ a + i - 1 \in 1 .. L - 1
        BY ONLY <1>1, <2>a, <3>1, <3>3
      <4>2. QED
        BY ONLY <2>3, <2>c, <2>d, <2>e, <3>1, <4>1
    <3>4. QED
      BY <3>2, <3>3
  <2>8. x = z
    BY ONLY <2>c, <2>e, <2>f
  <2>9. QED
    BY ONLY <1>1, <2>1, <2>6, <2>7, <2>8, <2>b, Zenon
<1>6. QED
  BY ONLY <1>a, <1>2, <1>3, <1>4, <1>5

\* A table of entries whose parents are those of the paths.
Linked(n, names, own, path) ==
  /\ DOMAIN names = 1 .. n /\ Len(names) = n
  /\ \A i \in 1 .. n :
       /\ own[i] = Last(path[i])
       /\ Len(path[i]) = 1 => names[i].parent_scope_index = i - 1
       /\ Len(path[i]) > 1 => /\ names[i].parent_scope_index \in Nat
                              /\ names[i].parent_scope_index + 1 \in 1 .. n
                              /\ path[names[i].parent_scope_index + 1] = Front(path[i])

\* Following the parents gives the paths back.
LEMMA PathsFollowed ==
  ASSUME NEW T, NEW n, NEW path, PathTable(T, n, path), NEW names, NEW own,
         Linked(n, names, own, path)
  PROVE  FullPaths(names, own) = path
<1>1. /\ n \in Nat /\ path \in [1 .. n -> Seq(T) \ {<<>>}] /\ Len(names) = n
  BY DEF PathTable, Linked
<1> DEFINE Parent(i) == names[i].parent_scope_index + 1
           Next_(up) == [i \in 1 .. n |-> IF Parent(i) = i \/ Parent(i) > n THEN <<own[i]>>
                                         ELSE Append(up[Parent(i)], own[i])]
           Is(up) == up = [s \in 0 .. n |-> IF s = 0 THEN [i \in 1 .. n |-> <<own[i]>>]
                                            ELSE Next_(up[s - 1])]
           At(s) == [i \in 1 .. n |-> LastOf(path[i], s)]
           up == CHOOSE u : Is(u)
<1>2. FullPaths(names, own) = up[n]
  BY <1>1, Zenon DEF FullPaths
<1>3. At(0) = [i \in 1 .. n |-> <<own[i]>>]
  <2>1. ASSUME NEW i \in 1 .. n PROVE LastOf(path[i], 0) = <<own[i]>>
    <3>1. PICK p : p = path[i]
      OBVIOUS
    <3>2. p \in Seq(T) /\ p # <<>>
      BY <1>1, <3>1
    <3>3. LastOf(p, 0) = <<Last(p)>>
      BY ONLY <3>2, 0 \in Nat, LastOfDef
    <3>4. QED
      BY <3>1, <3>3, Zenon DEF Linked
  <2>2. QED
    BY ONLY <2>1
<1>4. ASSUME NEW s \in Nat PROVE At(s + 1) = Next_(At(s))
  <2>1. ASSUME NEW i \in 1 .. n
        PROVE  LastOf(path[i], s + 1) = IF Parent(i) = i \/ Parent(i) > n THEN <<own[i]>>
                                        ELSE Append(At(s)[Parent(i)], own[i])
    <3>1. PICK p, j, l : p = path[i] /\ j = Parent(i) /\ l = Last(p)
      BY Zenon
    <3>2. p \in Seq(T) /\ p # <<>> /\ Len(p) \in Nat /\ Len(p) > 0
      BY <1>1, <3>1
    <3>7. PICK m : m = Len(p)
      OBVIOUS
    <3>8. m \in Nat /\ m > 0
      BY ONLY <3>2, <3>7, Zenon
    <3>3. own[i] = l
      BY ONLY <3>1, Linked(n, names, own, path), i \in 1 .. n, Zenon DEF Linked
    <3>4. CASE Len(p) = 1
      <4>1. LastOf(p, s + 1) = <<l>>
        BY ONLY <3>1, <3>2, <3>4, s \in Nat, s + 1 \in Nat, LastOfDef
      <4>2. names[i].parent_scope_index = i - 1
        BY ONLY <3>1, <3>4, Linked(n, names, own, path), i \in 1 .. n, Zenon DEF Linked
      <4>3. j = i
        <5>1. (i - 1) + 1 = i
          BY <1>1
        <5>2. QED
          BY ONLY <3>1, <4>2, <5>1, Zenon
      <4>4. QED
        BY ONLY <3>1, <3>3, <4>1, <4>3, Zenon
    <3>5. CASE Len(p) # 1
      <4>1. Len(p) > 1
        <5>1. m # 1
          BY ONLY <3>5, <3>7, Zenon
        <5>2. m > 1
          BY ONLY <3>8, <5>1
        <5>3. QED
          BY ONLY <3>7, <5>2, Zenon
      <4>2. j \in 1 .. n /\ path[j] = Front(p)
        BY ONLY <3>1, <4>1, Linked(n, names, own, path), i \in 1 .. n, Zenon DEF Linked
      <4>3. j # i
        <5>1. Len(Front(p)) = Len(p) - 1
          BY <3>2, <4>1 DEF Front
        <5>2. QED
          BY <3>1, <3>2, <4>2, <5>1
      <4>4. ~(j > n)
        BY ONLY <1>1, <4>2
      <4>5. LastOf(p, s + 1) = Append(LastOf(Front(p), s), l)
        BY ONLY <3>1, <3>2, <4>1, s \in Nat, LastOfDef
      <4>6. At(s)[j] = LastOf(Front(p), s)
        BY ONLY <4>2, Zenon
      <4>7. QED
        BY ONLY <3>1, <3>3, <4>3, <4>4, <4>5, <4>6, Zenon
    <3>6. QED
      BY <3>4, <3>5
  <2> HIDE DEF Parent
  <2>2. QED
    BY ONLY <2>1, Zenon
<1> HIDE DEF At, Next_
<1>5. Is(up)
  <2>1. PICK u : u = [s \in 0 .. n |-> At(s)]
    OBVIOUS
  <2>2. \A s \in 0 .. n : u[s] = IF s = 0 THEN [i \in 1 .. n |-> <<own[i]>>] ELSE Next_(u[s - 1])
    <3>1. SUFFICES ASSUME NEW s \in 0 .. n
                   PROVE  u[s] = IF s = 0 THEN [i \in 1 .. n |-> <<own[i]>>] ELSE Next_(u[s - 1])
      BY Zenon
    <3>2. CASE s = 0
      <4>1. u[0] = At(0)
        BY <1>1, <2>1
      <4>2. QED
        BY ONLY <3>2, <4>1, <1>3, Zenon
    <3>3. CASE s # 0
      <4>1. s - 1 \in Nat /\ (s - 1) + 1 = s /\ u[s] = At(s) /\ u[s - 1] = At(s - 1)
        BY <1>1, <2>1, <3>3
      <4>2. At((s - 1) + 1) = Next_(At(s - 1))
        BY ONLY <1>4, <4>1, Zenon
      <4>3. QED
        BY ONLY <3>3, <4>1, <4>2, Zenon
    <3>4. QED
      BY <3>2, <3>3
  <2>3. Is(u)
    BY ONLY <2>1, <2>2, Zenon
  <2> HIDE DEF Is
  <2>4. QED
    BY <2>3, Zenon
<1>6. PICK v : v = up
  OBVIOUS
<1>7. v = [s \in 0 .. n |-> IF s = 0 THEN [i \in 1 .. n |-> <<own[i]>>] ELSE Next_(v[s - 1])]
  <2> HIDE DEF up
  <2>1. QED
    BY ONLY <1>5, <1>6, Zenon
<1> DEFINE S == {s \in Nat : s <= n => v[s] = At(s)}
<1>8. S = Nat
  <2>1. 0 \in S
    <3>1. v[0] = [i \in 1 .. n |-> <<own[i]>>]
      BY ONLY <1>1, <1>7
    <3>2. QED
      BY ONLY <3>1, <1>3
  <2>2. ASSUME NEW s \in S PROVE s + 1 \in S
    <3>1. SUFFICES ASSUME s + 1 <= n PROVE v[s + 1] = At(s + 1)
      OBVIOUS
    <3>2. s \in Nat /\ s + 1 \in 0 .. n /\ s + 1 # 0 /\ (s + 1) - 1 = s /\ v[s] = At(s)
      BY <1>1, <3>1
    <3>3. v[s + 1] = Next_(v[(s + 1) - 1])
      BY ONLY <1>7, <3>2, Zenon
    <3>4. QED
      BY ONLY <1>4, <3>2, <3>3, Zenon
  <2>3. S \subseteq Nat
    OBVIOUS
  <2> HIDE DEF S
  <2>4. QED
    BY <2>1, <2>2, <2>3, InductionOnSet
<1>9. v[n] = At(n)
  BY <1>1, <1>8
<1>10. ASSUME NEW i \in 1 .. n PROVE LastOf(path[i], n) = path[i]
  <2>1. Len(path[i]) \in 1 .. n
    BY PathsAreShort
  <2>2. PICK p : p = path[i]
    OBVIOUS
  <2>3. p \in Seq(T) /\ p # <<>> /\ Len(p) <= n
    BY <1>1, <2>1, <2>2
  <2>4. QED
    BY ONLY <1>1, <2>2, <2>3, LastOfDef
<1>11. At(n) = path
  BY <1>1, <1>10 DEF At
<1>12. QED
  BY ONLY <1>2, <1>6, <1>9, <1>11, Zenon

\* The names of a schema and what is written of each.
PathsOf(c)      == [i \in DOMAIN c.names |-> c.names[i].path]
AsciiNames(c)   == Those(c.names, {i \in DOMAIN c.names : c.names[i].ascii})
UnicodeNames(c) == Those(c.names, {i \in DOMAIN c.names : ~c.names[i].ascii})
NamesBeside(c, e) == IF e.ascii THEN AsciiNames(c) ELSE UnicodeNames(c)
ParentOf(c, i)  == IF Len(c.names[i].path) = 1 THEN i - 1
                   ELSE IndexIn(PathsOf(c), Front(c.names[i].path))
FlagsOf(e)      == (IF e.scope THEN 16 ELSE 0) + (IF e.ascii THEN 32 ELSE 0)
LengthOf(e)     == IF e.z THEN 0 ELSE Chars
ShortNames(s)   == [i \in DOMAIN s |-> Last(s[i].path)]

Names == [path : Seq(STRING) \ {<<>>}, prop : Nat, scope : BOOLEAN, ascii : BOOLEAN, z : BOOLEAN]
IsName(e) ==
  /\ e.path \in Seq(STRING) /\ e.path # <<>> /\ Len(e.path) \in Nat /\ Last(e.path) \in Values
  /\ e.prop \in Nat /\ e.scope \in BOOLEAN /\ e.ascii \in BOOLEAN /\ e.z \in BOOLEAN

\* The names of the contents, by their places.
LEMMA NameParts ==
  ASSUME NEW c, NamesAreWellFormed(c)
  PROVE  /\ Len(c.names) \in Nat /\ DOMAIN c.names = 1 .. Len(c.names)
         /\ c.names \in [1 .. Len(c.names) -> Names]
         /\ \A e \in Names : IsName(e)
         /\ PathTable(STRING, Len(c.names), PathsOf(c))
         /\ \A i \in 1 .. Len(c.names) : PathsOf(c)[i] = c.names[i].path
<1>1. PICK T, N, n, path, M :
        T = STRING /\ N = c.names /\ n = Len(N) /\ path = PathsOf(c) /\ M = Names
  BY Zenon
<1>2. N \in Seq(M)
  BY ONLY <1>1, NamesAreWellFormed(c), Zenon DEF NamesAreWellFormed, Names
<1>3. n \in Nat /\ DOMAIN N = 1 .. n /\ N \in [1 .. n -> M]
  BY ONLY <1>1, <1>2
<1>4. ASSUME NEW e \in M PROVE IsName(e)
  <2>1. e \in [path : Seq(T) \ {<<>>}, prop : Nat, scope : BOOLEAN, ascii : BOOLEAN, z : BOOLEAN]
    BY ONLY <1>1, <1>4, Zenon DEF Names
  <2>2. PICK A, B, C : A = Seq(T) \ {<<>>} /\ B = Nat /\ C = BOOLEAN
    BY Zenon
  <2>3. e \in [path : A, prop : B, scope : C, ascii : C, z : C]
    BY ONLY <2>1, <2>2, Zenon
  <2>4. e.path \in A /\ e.prop \in B /\ e.scope \in C /\ e.ascii \in C /\ e.z \in C
    BY ONLY <2>3
  <2>5. PICK p : p = e.path
    OBVIOUS
  <2>6. p \in Seq(T) /\ p # <<>>
    BY ONLY <2>2, <2>4, <2>5, Zenon
  <2>7. Len(p) \in Nat /\ Last(p) \in T
    <3>1. Len(p) \in Nat /\ Len(p) # 0
      BY ONLY <2>6
    <3>2. p[Len(p)] \in T
      BY ONLY <2>6, <3>1
    <3>3. QED
      BY ONLY <3>1, <3>2, Zenon DEF Last
  <2>8. T \subseteq Values
    BY ONLY <1>1, Zenon DEF Values
  <2>9. QED
    BY ONLY <1>1, <2>2, <2>4, <2>5, <2>6, <2>7, <2>8, Zenon DEF IsName
<1>5. \A i \in 1 .. n : path[i] = N[i].path
  BY ONLY <1>1, <1>3, Zenon DEF PathsOf
<1>6. path \in [1 .. n -> Seq(T) \ {<<>>}]
  <2>1. PICK U : U = Seq(T) \ {<<>>}
    OBVIOUS
  <2>2. \A i \in 1 .. n : path[i] \in U
    BY ONLY <1>1, <1>3, <1>4, <1>5, <2>1, Zenon DEF IsName
  <2>3. path = [i \in 1 .. n |-> N[i].path]
    BY ONLY <1>1, <1>3, Zenon DEF PathsOf
  <2>4. path \in [1 .. n -> U]
    BY ONLY <2>2, <2>3
  <2>5. QED
    BY ONLY <2>1, <2>4, Zenon
<1>7. \A i, j \in 1 .. n : path[i] = path[j] => i = j
  <2>1. \A i, j \in DOMAIN c.names : c.names[i].path = c.names[j].path => i = j
    BY ONLY NamesAreWellFormed(c), Zenon DEF NamesAreWellFormed
  <2>2. DOMAIN c.names = 1 .. n /\ \A i \in 1 .. n : path[i] = c.names[i].path
    BY ONLY <1>1, <1>3, <1>5, Zenon
  <2>3. QED
    BY ONLY <2>1, <2>2, Zenon
<1>8. \A i \in 1 .. n : Len(path[i]) > 1 => \E j \in 1 .. n : path[j] = Front(path[i])
  <2>1. \A i \in DOMAIN c.names : Len(c.names[i].path) > 1 =>
            \E j \in DOMAIN c.names : c.names[j].path = Front(c.names[i].path)
    BY ONLY NamesAreWellFormed(c), Zenon DEF NamesAreWellFormed
  <2>2. DOMAIN c.names = 1 .. n /\ \A i \in 1 .. n : path[i] = c.names[i].path
    BY ONLY <1>1, <1>3, <1>5, Zenon
  <2>3. ASSUME NEW i \in 1 .. n, Len(path[i]) > 1 PROVE \E j \in 1 .. n : path[j] = Front(path[i])
    <3>1. path[i] = c.names[i].path /\ i \in DOMAIN c.names
      BY ONLY <2>2, <2>3, Zenon
    <3>2. PICK j \in DOMAIN c.names : c.names[j].path = Front(path[i])
      BY ONLY <2>1, <2>3, <3>1, Zenon
    <3>3. QED
      BY ONLY <2>2, <3>2, Zenon
  <2>4. QED
    BY ONLY <2>3, Zenon
<1>9. PathTable(T, n, path)
  BY ONLY <1>3, <1>6, <1>7, <1>8, Zenon DEF PathTable
<1>10. QED
  BY ONLY <1>1, <1>3, <1>4, <1>5, <1>9, Zenon

\* A name is among those of its block, and its place there is what is written.
LEMMA NamePlace ==
  ASSUME NEW c, NamesAreWellFormed(c), NEW i \in 1 .. Len(c.names), NEW e, e = c.names[i]
  PROVE  /\ IndexIn(NamesBeside(c, e), e) \in Nat
         /\ IndexIn(NamesBeside(c, e), e) + 1 \in 1 .. Len(NamesBeside(c, e))
         /\ NamesBeside(c, e)[IndexIn(NamesBeside(c, e), e) + 1] = e
<1>1. PICK N, n, b, places :
        /\ N = c.names /\ n = Len(N) /\ b = NamesBeside(c, e)
        /\ places = {j \in 1 .. n : c.names[j].ascii = e.ascii}
  BY Zenon
<1>2. n \in Nat /\ DOMAIN N = 1 .. n /\ N \in [1 .. n -> Names] /\ \A x \in Names : IsName(x)
  BY ONLY <1>1, NamesAreWellFormed(c), NameParts, Zenon
<1>3. \A j \in 1 .. n : c.names[j].ascii \in BOOLEAN
  BY ONLY <1>1, <1>2, Zenon DEF IsName
<1>4. e.ascii \in BOOLEAN
  BY ONLY <1>1, <1>3, i \in 1 .. Len(c.names), e = c.names[i], Zenon
<1>5. b = Those(N, places)
  <2>1. CASE e.ascii
    <3>1. places = {j \in DOMAIN c.names : c.names[j].ascii}
      BY ONLY <1>1, <1>2, <1>3, <1>4, <2>1, Zenon
    <3>2. QED
      BY ONLY <1>1, <2>1, <3>1, Zenon DEF NamesBeside, AsciiNames
  <2>2. CASE ~e.ascii
    <3>1. places = {j \in DOMAIN c.names : ~c.names[j].ascii}
      BY ONLY <1>1, <1>2, <1>3, <1>4, <2>2, Zenon
    <3>2. QED
      BY ONLY <1>1, <2>2, <3>1, Zenon DEF NamesBeside, UnicodeNames
  <2>3. QED
    BY <2>1, <2>2
<1>6. /\ b \in Seq(Names)
      /\ \A j \in (1 .. n) \cap places : \E k \in 1 .. Len(b) : b[k] = N[j]
  BY ONLY <1>2, <1>5, ThoseList
<1>7. i \in (1 .. n) \cap places /\ N[i] = e
  BY ONLY <1>1, i \in 1 .. Len(c.names), e = c.names[i], Zenon
<1>8. \E k \in 1 .. Len(b) : b[k] = e
  BY ONLY <1>6, <1>7, Zenon
<1>9. PICK m : m = Len(b)
  OBVIOUS
<1>10. m \in Nat /\ DOMAIN b = 1 .. m
  BY ONLY <1>6, <1>9
<1>11. Has(m, b, e)
  BY ONLY <1>8, <1>9, <1>10, Zenon DEF Has
<1>12. IndexIn(b, e) \in Nat /\ IndexIn(b, e) + 1 \in 1 .. m /\ b[IndexIn(b, e) + 1] = e
  BY ONLY <1>11, IndexInDef
<1>13. QED
  BY ONLY <1>1, <1>9, <1>12, Zenon

\* The parent of a name is the entry of the path above it.
LEMMA ParentPlace ==
  ASSUME NEW c, NamesAreWellFormed(c), NEW i \in 1 .. Len(c.names), NEW p, p = c.names[i].path
  PROVE  /\ ParentOf(c, i) \in Nat
         /\ Len(p) = 1 => ParentOf(c, i) = i - 1
         /\ Len(p) > 1 => /\ ParentOf(c, i) + 1 \in 1 .. Len(c.names)
                          /\ PathsOf(c)[ParentOf(c, i) + 1] = Front(p)
<1>1. PICK n, path, T, f, q : /\ n = Len(c.names) /\ path = PathsOf(c) /\ T = STRING /\ f = Front(p)
                              /\ q = ParentOf(c, i)
  BY Zenon
<1>2. PathTable(T, n, path) /\ path[i] = p
  BY ONLY <1>1, i \in 1 .. Len(c.names), p = c.names[i].path, NamesAreWellFormed(c), NameParts, Zenon
<1>3. i \in 1 .. n
  BY ONLY <1>1, i \in 1 .. Len(c.names), Zenon
<1>4. PICK m : m = Len(p)
  OBVIOUS
<1>5. m \in 1 .. n
  <2>1. Len(path[i]) \in 1 .. n
    BY ONLY <1>2, <1>3, PathsAreShort
  <2>2. QED
    BY ONLY <1>2, <1>4, <2>1, Zenon
<1>6. n \in Nat /\ DOMAIN path = 1 .. n /\ (m > 1 => \E j \in 1 .. n : path[j] = f)
  <2>1. n \in Nat /\ (m > 1 => \E j \in 1 .. n : path[j] = f)
    BY ONLY <1>1, <1>2, <1>3, <1>4, Zenon DEF PathTable
  <2>2. PICK U : U = Seq(T) \ {<<>>}
    OBVIOUS
  <2>3. path \in [1 .. n -> U]
    BY ONLY <1>2, <2>2, Zenon DEF PathTable
  <2>4. DOMAIN path = 1 .. n
    BY ONLY <2>3
  <2>5. QED
    BY ONLY <2>1, <2>4
<1>7. CASE m = 1
  <2>1. q = i - 1
    BY ONLY <1>1, <1>4, <1>7, p = c.names[i].path, Zenon DEF ParentOf
  <2>2. i - 1 \in Nat /\ ~(m > 1)
    BY ONLY <1>3, <1>6, <1>7
  <2>3. QED
    BY ONLY <1>1, <1>4, <2>1, <2>2, Zenon
<1>8. CASE m # 1
  <2>1. m > 1
    BY ONLY <1>5, <1>6, <1>8
  <2>2. q = IndexIn(path, f)
    BY ONLY <1>1, <1>4, <1>8, p = c.names[i].path, Zenon DEF ParentOf
  <2>3. Has(n, path, f)
    BY ONLY <1>6, <2>1, Zenon DEF Has
  <2>4. IndexIn(path, f) \in Nat /\ IndexIn(path, f) + 1 \in 1 .. n /\ path[IndexIn(path, f) + 1] = f
    BY ONLY <2>3, IndexInDef
  <2>5. QED
    BY ONLY <1>1, <1>4, <1>8, <2>2, <2>4, Zenon
<1>9. QED
  BY <1>7, <1>8

\* The pieces of a schema section.
NameRow(c, i) ==
  << <<ParentOf(c, i), 2>>, <<Len(c.names[i].path) * 5, 2>>, <<0, 2>>, <<LengthOf(c.names[i]), 1>>,
     <<FlagsOf(c.names[i]), 1>>,
     <<5 * IndexIn(NamesBeside(c, c.names[i]), c.names[i]), 2>>, <<c.names[i].prop, 2>> >>
NameRows(c)  == [i \in 1 .. Len(c.names) |-> NameRow(c, i)]
NameTable(c) == FlattenSeq(NameRows(c))
ListedScopes(c) == Those(Upto(c.names), {i \in DOMAIN c.names : c.names[i].scope})
ListedItems(c)  == Those(Upto(c.names), {i \in DOMAIN c.names : ~c.names[i].scope})
ScopeRow(i)    == << <<i - 1, 2>>, <<0, 2>>, <<0, 2>>, <<0, 2>> >>
ScopeRows(c)   == [k \in DOMAIN ListedScopes(c) |-> ScopeRow(ListedScopes(c)[k])]
ItemNumbers(c) == [k \in DOMAIN ListedItems(c) |-> ListedItems(c)[k] - 1]
ScopeTable(c)  == FlattenSeq(ScopeRows(c))
ItemTable(c)   == Singles(Len(ListedItems(c)), 2, ItemNumbers(c))
UnicodeBlock(c) == TextBlock(ShortNames(UnicodeNames(c)), 2)
AsciiBlock(c)   == When(c.extended, TextBlock(ShortNames(AsciiNames(c)), 1))
SchemaPrefix == << <<1, 2>>, <<1, 2>>, <<1, 2>>, <<0, 2>> >>
HName(c)     == When(c.extended, << <<"hnamesx", 16>> >>)
Version      == << <<0, 20>> >>
Unnamed      == << <<0, 2>> >>
SchemaTrailer(c) ==
  << <<0, 2>>, <<20, 2>>, <<0, 2>>, <<Len(c.names), 4>>, <<Len(ListedScopes(c)), 4>>,
     <<Len(ListedItems(c)), 4>>, <<5 * Len(UnicodeNames(c)), 4>>, <<0, 4>> >>
AsciiLength(c) == When(c.extended, << <<5 * Len(AsciiNames(c)), 4>> >>)
SchemaHead(c) ==
  SchemaPrefix \o HName(c) \o Version \o Unnamed \o Unnamed \o SchemaTrailer(c) \o AsciiLength(c)

\* The row of a name as it is written.
LEMMA NameRowWritten ==
  ASSUME NEW c, NamesAreWellFormed(c), NEW i \in 1 .. Len(c.names)
  PROVE  /\ NameRow(c, i) \in Written /\ Widths(NameRow(c, i)) = <<2, 2, 2, 1, 1, 2, 2>>
         /\ SizeOf(NameRow(c, i)) = 12
         /\ NameRow(c, i)[1][1] = ParentOf(c, i) /\ NameRow(c, i)[4][1] = LengthOf(c.names[i])
         /\ NameRow(c, i)[5][1] = FlagsOf(c.names[i])
         /\ NameRow(c, i)[6][1] = 5 * IndexIn(NamesBeside(c, c.names[i]), c.names[i])
         /\ NameRow(c, i)[7][1] = c.names[i].prop
<1>1. PICK s, e, p, l, z, f, o, k, q :
        /\ s = NameRow(c, i) /\ e = c.names[i] /\ p = ParentOf(c, i) /\ l = Len(e.path) /\ z = LengthOf(e)
        /\ f = FlagsOf(e) /\ k = IndexIn(NamesBeside(c, e), e) /\ o = 5 * k /\ q = e.prop
  BY Zenon
<1>2. l \in Nat /\ q \in Nat
  <2>1. IsName(e)
    <3>1. PICK m, N, M : m = Len(c.names) /\ N = c.names /\ M = Names
      BY Zenon
    <3>2. N \in [1 .. m -> M] /\ \A x \in M : IsName(x)
      BY ONLY <3>1, NamesAreWellFormed(c), NameParts, Zenon
    <3>3. i \in 1 .. m /\ e = N[i]
      BY ONLY <1>1, <3>1, i \in 1 .. Len(c.names), Zenon
    <3>4. e \in M
      BY ONLY <3>2, <3>3
    <3>5. QED
      BY ONLY <3>2, <3>4, Zenon
  <2>2. QED
    BY ONLY <1>1, <2>1, Zenon DEF IsName
<1>3. p \in Nat
  BY ONLY <1>1, i \in 1 .. Len(c.names), NamesAreWellFormed(c), ParentPlace, Zenon
<1>4. k \in Nat
  BY ONLY <1>1, i \in 1 .. Len(c.names), NamesAreWellFormed(c), NamePlace, Zenon
<1>5. z \in Nat
  BY ONLY <1>1 DEF LengthOf, Chars
<1>6. f \in Nat
  <2>1. PICK a, b : a = e.scope /\ b = e.ascii
    OBVIOUS
  <2>2. f = (IF a THEN 16 ELSE 0) + (IF b THEN 32 ELSE 0)
    BY ONLY <1>1, <2>1, Zenon DEF FlagsOf
  <2>3. QED
    BY ONLY <2>2
<1>7. Int \subseteq Values
  BY DEF Values
<1>8. /\ p \in Values /\ l * 5 \in Values /\ 0 \in Values /\ z \in Values /\ f \in Values
      /\ o \in Values /\ q \in Values
  <2>1. o \in Int /\ l * 5 \in Int
    <3>1. o = 5 * k
      BY ONLY <1>1, Zenon
    <3>2. QED
      BY ONLY <1>2, <1>4, <3>1
  <2>2. QED
    BY ONLY <1>2, <1>3, <1>5, <1>6, <1>7, <2>1
<1>9. PICK m : m = l * 5
  OBVIOUS
<1>10. m \in Values
  BY ONLY <1>8, <1>9, Zenon
<1>11. s = << <<p, 2>>, <<m, 2>>, <<0, 2>>, <<z, 1>>, <<f, 1>>, <<o, 2>>, <<q, 2>> >>
  BY ONLY <1>1, <1>9, Zenon DEF NameRow
<1>12. s \in Written /\ Widths(s) = <<2, 2, 2, 1, 1, 2, 2>>
  BY ONLY <1>8, <1>10, <1>11 DEF Written, Widths
<1>13. SizeOf(s) = 12
  BY ONLY <1>12, ResourceNameEntryRead
<1>14. s[1][1] = p /\ s[4][1] = z /\ s[5][1] = f /\ s[6][1] = o /\ s[7][1] = q
  BY ONLY <1>11
<1>15. QED
  BY ONLY <1>1, <1>12, <1>13, <1>14, Zenon

\* The rows of the names, one after another.
LEMMA NameTableWritten ==
  ASSUME NEW c, NamesAreWellFormed(c)
  PROVE  /\ NameTable(c) \in Written /\ SizeOf(NameTable(c)) = Len(c.names) * 12
         /\ \A at, o : o \in Nat /\ Laid(at, o, NameTable(c)) =>
              \A i \in 1 .. Len(c.names) : Laid(at, o + (i - 1) * 12, NameRow(c, i))
<1>1. PICK n, ss, z : n = Len(c.names) /\ ss = NameRows(c) /\ z = 12
  BY Zenon
<1>2. n \in Nat
  BY ONLY <1>1, NamesAreWellFormed(c), NameParts, Zenon
<1>3. ss = [i \in 1 .. n |-> NameRow(c, i)]
  BY ONLY <1>1, Zenon DEF NameRows
<1>4. ASSUME NEW i \in 1 .. n PROVE NameRow(c, i) \in Written /\ SizeOf(NameRow(c, i)) = z
  <2>1. i \in 1 .. Len(c.names)
    BY ONLY <1>1, <1>4, Zenon
  <2>2. NameRow(c, i) \in Written /\ SizeOf(NameRow(c, i)) = 12
    BY ONLY <2>1, NamesAreWellFormed(c), NameRowWritten
  <2>3. QED
    BY ONLY <1>1, <2>2, Zenon
<1>5. ss \in [1 .. n -> Written]
  BY ONLY <1>3, <1>4
<1>6. \A i \in 1 .. n : SizeOf(ss[i]) = z
  BY ONLY <1>3, <1>4
<1>7. z \in Nat
  BY ONLY <1>1
<1>8. /\ FlattenSeq(ss) \in Written /\ SizeOf(FlattenSeq(ss)) = n * z
      /\ \A at, o : o \in Nat /\ Laid(at, o, FlattenSeq(ss)) =>
           \A i \in 1 .. n : Laid(at, o + (i - 1) * z, ss[i])
  BY ONLY <1>2, <1>5, <1>6, <1>7, EachWritten
<1>9. \A i \in 1 .. n : ss[i] = NameRow(c, i)
  BY ONLY <1>3
<1>10. NameTable(c) = FlattenSeq(ss)
  BY ONLY <1>1, Zenon DEF NameTable
<1>11. /\ FlattenSeq(ss) \in Written /\ SizeOf(FlattenSeq(ss)) = n * 12
       /\ \A at, o : o \in Nat /\ Laid(at, o, FlattenSeq(ss)) =>
            \A i \in 1 .. n : Laid(at, o + (i - 1) * 12, NameRow(c, i))
  BY ONLY <1>1, <1>8, <1>9, Zenon
<1>12. QED
  BY ONLY <1>1, <1>10, <1>11, Zenon

\* The numbers of the scopes and of the items.
LEMMA NumbersListed ==
  ASSUME NEW c, NamesAreWellFormed(c), NEW places
  PROVE  /\ Those(Upto(c.names), places) \in Seq(Nat \ {0})
         /\ Len(Those(Upto(c.names), places)) \in Nat
<1>1. PICK n, s : n = Len(c.names) /\ s = Upto(c.names)
  OBVIOUS
<1>2. n \in Nat /\ DOMAIN c.names = 1 .. n
  BY ONLY <1>1, NamesAreWellFormed(c), NameParts, Zenon
<1>3. s = [i \in 1 .. n |-> i]
  BY ONLY <1>1, <1>2, Zenon DEF Upto
<1>4. PICK T : T = Nat \ {0}
  OBVIOUS
<1>5. s \in [1 .. n -> T]
  BY ONLY <1>2, <1>3, <1>4
<1>6. Those(s, places) \in Seq(T)
  BY ONLY <1>2, <1>5, ThoseList
<1>7. Len(Those(s, places)) \in Nat
  BY ONLY <1>6
<1>8. QED
  BY ONLY <1>1, <1>4, <1>6, <1>7, Zenon

\* What the table of scopes takes.
LEMMA ScopeTableWritten ==
  ASSUME NEW c, NamesAreWellFormed(c)
  PROVE  /\ ScopeTable(c) \in Written /\ SizeOf(ScopeTable(c)) = Len(ListedScopes(c)) * 8
         /\ Len(ListedScopes(c)) \in Nat
<1>1. PICK l, n, ss, z : l = ListedScopes(c) /\ n = Len(l) /\ ss = ScopeRows(c) /\ z = 8
  BY Zenon
<1>2. l \in Seq(Nat \ {0}) /\ n \in Nat
  <2>1. PICK P : P = {i \in DOMAIN c.names : c.names[i].scope}
    OBVIOUS
  <2>2. l = Those(Upto(c.names), P)
    BY ONLY <1>1, <2>1, Zenon DEF ListedScopes
  <2>3. QED
    BY ONLY <1>1, <2>2, NamesAreWellFormed(c), NumbersListed, Zenon
<1>3. DOMAIN l = 1 .. n /\ \A k \in 1 .. n : l[k] \in Nat /\ l[k] - 1 \in Nat
  BY ONLY <1>1, <1>2
<1>4. ss = [k \in 1 .. n |-> ScopeRow(l[k])]
  BY ONLY <1>1, <1>3, Zenon DEF ScopeRows
<1>5. ASSUME NEW k \in 1 .. n PROVE ScopeRow(l[k]) \in Written /\ SizeOf(ScopeRow(l[k])) = z
  <2>1. PICK s, v : s = ScopeRow(l[k]) /\ v = l[k] - 1
    OBVIOUS
  <2>2. s = << <<v, 2>>, <<0, 2>>, <<0, 2>>, <<0, 2>> >>
    BY ONLY <2>1, Zenon DEF ScopeRow
  <2>3. v \in Nat
    BY ONLY <1>3, <1>5, <2>1, Zenon
  <2>4. Int \subseteq Values
    BY DEF Values
  <2>5. s \in Written /\ Widths(s) = <<2, 2, 2, 2>>
    BY ONLY <2>2, <2>3, <2>4 DEF Written, Widths
  <2>6. SizeOf(s) = 8
    BY ONLY <2>5, ScopeEntryRead
  <2>7. QED
    BY ONLY <1>1, <2>1, <2>5, <2>6, Zenon
<1>6. ss \in [1 .. n -> Written]
  BY ONLY <1>4, <1>5
<1>7. \A i \in 1 .. n : SizeOf(ss[i]) = z
  BY ONLY <1>4, <1>5
<1>8. z \in Nat
  BY ONLY <1>1
<1>9. FlattenSeq(ss) \in Written /\ SizeOf(FlattenSeq(ss)) = n * z
  BY ONLY <1>2, <1>6, <1>7, <1>8, EachWritten
<1>10. ScopeTable(c) = FlattenSeq(ss)
  BY ONLY <1>1, Zenon DEF ScopeTable
<1>11. QED
  BY ONLY <1>1, <1>2, <1>9, <1>10, Zenon

\* What the table of items takes.
LEMMA ItemTableWritten ==
  ASSUME NEW c, NamesAreWellFormed(c)
  PROVE  /\ ItemTable(c) \in Written /\ SizeOf(ItemTable(c)) = Len(ListedItems(c)) * 2
         /\ Len(ListedItems(c)) \in Nat /\ DOMAIN ListedItems(c) = 1 .. Len(ListedItems(c))
<1>1. PICK l, n, f, k : l = ListedItems(c) /\ n = Len(l) /\ f = ItemNumbers(c) /\ k = 2
  BY Zenon
<1>2. l \in Seq(Nat \ {0}) /\ n \in Nat
  <2>1. PICK P : P = {i \in DOMAIN c.names : ~c.names[i].scope}
    OBVIOUS
  <2>2. l = Those(Upto(c.names), P)
    BY ONLY <1>1, <2>1, Zenon DEF ListedItems
  <2>3. QED
    BY ONLY <1>1, <2>2, NamesAreWellFormed(c), NumbersListed, Zenon
<1>3. DOMAIN l = 1 .. n /\ \A j \in 1 .. n : l[j] - 1 \in Int
  BY ONLY <1>1, <1>2
<1>4. f = [j \in 1 .. n |-> l[j] - 1]
  BY ONLY <1>1, <1>3, Zenon DEF ItemNumbers
<1>5. Int \subseteq Values
  BY DEF Values
<1>6. f \in [1 .. n -> Values]
  BY ONLY <1>3, <1>4, <1>5
<1>7. Column(n, f)
  BY ONLY <1>2, <1>6, Zenon DEF Column
<1>8. Positive(k)
  BY ONLY <1>1 DEF Positive
<1>9. Singles(n, k, f) \in Written /\ SizeOf(Singles(n, k, f)) = n * k
  BY ONLY <1>7, <1>8, SingleTable
<1>10. QED
  BY ONLY <1>1, <1>2, <1>3, <1>9, Zenon DEF ItemTable

\* A block of names: the last of each path, of one width.
LEMMA NameBlockWritten ==
  ASSUME NEW c, NamesAreWellFormed(c), NEW places, NEW s, s = Those(c.names, places)
  PROVE  /\ Len(s) \in Nat /\ DOMAIN s = 1 .. Len(s)
         /\ ShortNames(s) \in [1 .. Len(s) -> Values]
         /\ \A k \in 1 .. Len(s) : ShortNames(s)[k] = Last(s[k].path)
         /\ TextBlock(ShortNames(s), 2) \in Written /\ SizeOf(TextBlock(ShortNames(s), 2)) = Len(s) * 10
         /\ TextBlock(ShortNames(s), 1) \in Written /\ SizeOf(TextBlock(ShortNames(s), 1)) = Len(s) * 5
<1>1. PICK N, n, M, m, t, two, one, five :
        /\ N = c.names /\ n = Len(N) /\ M = Names /\ m = Len(s) /\ t = ShortNames(s)
        /\ one = 1 /\ two = 2 /\ five = Chars + 1
  BY Zenon
<1>2. n \in Nat /\ N \in [1 .. n -> M] /\ \A e \in M : IsName(e)
  BY ONLY <1>1, NamesAreWellFormed(c), NameParts, Zenon
<1>3. s \in Seq(M)
  <2>1. Those(N, places) \in Seq(M)
    BY ONLY <1>2, ThoseList
  <2>2. QED
    BY ONLY <1>1, <2>1, s = Those(c.names, places), Zenon
<1>4. m \in Nat /\ DOMAIN s = 1 .. m /\ \A k \in 1 .. m : s[k] \in M
  BY ONLY <1>1, <1>3
<1>5. t = [k \in 1 .. m |-> Last(s[k].path)]
  BY ONLY <1>1, <1>4, Zenon DEF ShortNames
<1>6. \A k \in 1 .. m : Last(s[k].path) \in Values
  BY ONLY <1>2, <1>4, Zenon DEF IsName
<1>7. t \in [1 .. m -> Values] /\ \A k \in 1 .. m : t[k] = Last(s[k].path)
  BY ONLY <1>5, <1>6
<1>8. one \in {1, 2} /\ two \in {1, 2}
  BY ONLY <1>1
<1>a. t \in [1 .. m -> Values]
  BY ONLY <1>7
<1>b. m \in Nat
  BY ONLY <1>4
<1>c. one \in {1, 2}
  BY ONLY <1>8
<1>d. two \in {1, 2}
  BY ONLY <1>8
<1>9. TextBlock(t, one) \in Written /\ SizeOf(TextBlock(t, one)) = m * (one * (Chars + 1))
  BY ONLY <1>a, <1>b, <1>c, TextBlockWritten
<1>10. TextBlock(t, two) \in Written /\ SizeOf(TextBlock(t, two)) = m * (two * (Chars + 1))
  BY ONLY <1>a, <1>b, <1>d, TextBlockWritten
<1>11. m * (one * (Chars + 1)) = m * 5 /\ m * (two * (Chars + 1)) = m * 10
  BY ONLY <1>1, <1>b DEF Chars
<1>12. /\ TextBlock(t, one) \in Written /\ SizeOf(TextBlock(t, one)) = m * 5
       /\ TextBlock(t, two) \in Written /\ SizeOf(TextBlock(t, two)) = m * 10
  BY ONLY <1>9, <1>10, <1>11, Zenon
<1>13. QED
  BY ONLY <1>1, <1>4, <1>7, <1>12, Zenon

\* The pieces of the head, and what the entries and blocks of a schema count.
LEMMA SchemaTrailerWritten ==
  ASSUME NEW c, NamesAreWellFormed(c)
  PROVE  /\ SchemaTrailer(c) \in Written
         /\ Widths(SchemaTrailer(c)) = <<2, 2, 2, 4, 4, 4, 4, 4>> /\ SizeOf(SchemaTrailer(c)) = 26
         /\ SchemaTrailer(c)[4][1] = Len(c.names) /\ SchemaTrailer(c)[5][1] = Len(ListedScopes(c))
         /\ SchemaTrailer(c)[6][1] = Len(ListedItems(c))
         /\ SchemaTrailer(c)[7][1] = 5 * Len(UnicodeNames(c))
<1>1. PICK s, n, k, l, u, v :
        /\ s = SchemaTrailer(c) /\ n = Len(c.names) /\ k = Len(ListedScopes(c))
        /\ l = Len(ListedItems(c)) /\ u = Len(UnicodeNames(c)) /\ v = 5 * u
  BY Zenon
<1>2. n \in Nat /\ k \in Nat /\ l \in Nat
  BY ONLY <1>1, NamesAreWellFormed(c), NameParts, ScopeTableWritten, ItemTableWritten, Zenon
<1>3. u \in Nat
  <2>1. PICK P, t : P = {i \in DOMAIN c.names : ~c.names[i].ascii} /\ t = Those(c.names, P)
    BY Zenon
  <2>2. t = Those(c.names, P)
    BY ONLY <2>1, Zenon
  <2>3. Len(t) \in Nat
    BY ONLY <2>2, NamesAreWellFormed(c), NameBlockWritten
  <2>4. QED
    BY ONLY <1>1, <2>1, <2>3, Zenon DEF UnicodeNames
<1>4. Int \subseteq Values
  BY DEF Values
<1>5. v \in Int
  <2>1. v = 5 * u
    BY ONLY <1>1, Zenon
  <2>2. QED
    BY ONLY <1>3, <2>1
<1>6. n \in Values /\ k \in Values /\ l \in Values /\ v \in Values /\ 0 \in Values /\ 20 \in Values
  BY ONLY <1>2, <1>4, <1>5
<1>7. s = << <<0, 2>>, <<20, 2>>, <<0, 2>>, <<n, 4>>, <<k, 4>>, <<l, 4>>, <<v, 4>>, <<0, 4>> >>
  BY ONLY <1>1, Zenon DEF SchemaTrailer
<1>8. s \in Written /\ Widths(s) = <<2, 2, 2, 4, 4, 4, 4, 4>>
  BY ONLY <1>6, <1>7 DEF Written, Widths
<1>9. SizeOf(s) = 26
  BY ONLY <1>8, HierarchicalSchemaTrailerRead
<1>10. s[4][1] = n /\ s[5][1] = k /\ s[6][1] = l /\ s[7][1] = v
  BY ONLY <1>7
<1>11. QED
  BY ONLY <1>1, <1>8, <1>9, <1>10, Zenon

\* One field, there or not.
OneField(b, v, k) ==
  /\ << <<v, k>> >> \in Written /\ SizeOf(<< <<v, k>> >>) = k
  /\ When(b, << <<v, k>> >>) \in Written
  /\ SizeOf(When(b, << <<v, k>> >>)) = IF b THEN k ELSE 0

\* What the pieces before the tables of a schema take.
LEMMA SchemaHeadWritten ==
  ASSUME NEW c, NamesAreWellFormed(c)
  PROVE  /\ SchemaPrefix \in Written /\ SizeOf(SchemaPrefix) = 8
         /\ HName(c) \in Written /\ SizeOf(HName(c)) = IF c.extended THEN 16 ELSE 0
         /\ Version \in Written /\ SizeOf(Version) = 20
         /\ Unnamed \in Written /\ SizeOf(Unnamed) = 2
         /\ AsciiLength(c) \in Written /\ SizeOf(AsciiLength(c)) = IF c.extended THEN 4 ELSE 0
<1>1. Int \subseteq Values
  BY DEF Values
<1>2. SchemaPrefix \in Written /\ SizeOf(SchemaPrefix) = 8
  <2>1. PICK s : s = SchemaPrefix
    OBVIOUS
  <2>2. s = << <<1, 2>>, <<1, 2>>, <<1, 2>>, <<0, 2>> >>
    BY ONLY <2>1, Zenon DEF SchemaPrefix
  <2>3. s \in Written /\ Widths(s) = <<2, 2, 2, 2>>
    BY ONLY <1>1, <2>2 DEF Written, Widths
  <2>4. SizeOf(s) = 8
    BY ONLY <2>3, HierarchicalSchemaHeaderRead
  <2>5. QED
    BY ONLY <2>1, <2>3, <2>4, Zenon
<1>3. ASSUME NEW v \in Values, NEW k \in Nat \ {0}, NEW b
      PROVE  OneField(b, v, k)
  <2>1. PICK s, w : s = << <<v, k>> >> /\ w = When(b, s)
    BY Zenon
  <2>2. Positive(k)
    BY ONLY <1>3 DEF Positive
  <2>3. s = << <<v, k>> >>
    BY ONLY <2>1, Zenon
  <2>4. s \in Written /\ SizeOf(s) = k
    BY ONLY <1>3, <2>2, <2>3, SingleSize
  <2>5. w \in Written /\ (b => w = s) /\ (~b => SizeOf(w) = 0)
    BY ONLY <2>1, <2>4, WhenWritten, Zenon
  <2>6. QED
    BY ONLY <2>1, <2>4, <2>5, Zenon DEF OneField
<1>4. 0 \in Values
  BY ONLY <1>1
<1>5. 20 \in Nat \ {0} /\ 2 \in Nat \ {0} /\ 16 \in Nat \ {0} /\ 4 \in Nat \ {0}
  OBVIOUS
<1>6. Version \in Written /\ SizeOf(Version) = 20 /\ Unnamed \in Written /\ SizeOf(Unnamed) = 2
  <2>1. OneField(TRUE, 0, 20) /\ OneField(TRUE, 0, 2)
    BY ONLY <1>3, <1>4, <1>5, Zenon
  <2>2. QED
    BY ONLY <2>1 DEF OneField, Version, Unnamed
<1>7. HName(c) \in Written /\ SizeOf(HName(c)) = IF c.extended THEN 16 ELSE 0
  <2>1. PICK v, k, b, s, z : /\ v = "hnamesx" /\ k = 16 /\ b = c.extended /\ s = HName(c)
                            /\ z = IF b THEN k ELSE 0
    BY Zenon
  <2>a. v \in Tags
    BY ONLY <2>1, Zenon DEF Tags
  <2>2. v \in Values
    BY ONLY <2>a, Zenon DEF Values
  <2>3. k \in Nat \ {0}
    <3>1. k = 16
      BY ONLY <2>1, Zenon
    <3>2. QED
      BY ONLY <3>1
  <2>4. s = When(b, << <<v, k>> >>)
    BY ONLY <2>1, Zenon DEF HName
  <2>c. z = IF b THEN k ELSE 0
    BY ONLY <2>1, Zenon
  <2>5. s \in Written /\ SizeOf(s) = z
    <3>1. OneField(b, v, k)
      BY ONLY <1>3, <2>2, <2>3, Zenon
    <3>2. QED
      BY ONLY <2>4, <2>c, <3>1, Zenon DEF OneField
  <2>6. QED
    BY ONLY <2>1, <2>5, Zenon
<1>8. AsciiLength(c) \in Written /\ SizeOf(AsciiLength(c)) = IF c.extended THEN 4 ELSE 0
  <2>1. PICK P, t : P = {i \in DOMAIN c.names : c.names[i].ascii} /\ t = Those(c.names, P)
    BY Zenon
  <2>2. t = Those(c.names, P)
    BY ONLY <2>1, Zenon
  <2>3. Len(t) \in Nat
    BY ONLY <2>2, NamesAreWellFormed(c), NameBlockWritten
  <2>4. PICK v, k, b, s, z : /\ v = 5 * Len(t) /\ k = 4 /\ b = c.extended /\ s = AsciiLength(c)
                            /\ z = IF b THEN k ELSE 0
    BY Zenon
  <2>5. v \in Values /\ k \in Nat \ {0}
    BY ONLY <1>1, <2>3, <2>4
  <2>6. s = When(b, << <<v, k>> >>)
    BY ONLY <2>1, <2>4, Zenon DEF AsciiLength, AsciiNames
  <2>c. z = IF b THEN k ELSE 0
    BY ONLY <2>4, Zenon
  <2>7. s \in Written /\ SizeOf(s) = z
    <3>1. OneField(b, v, k)
      BY ONLY <1>3, <2>5, Zenon
    <3>2. QED
      BY ONLY <2>6, <2>c, <3>1, Zenon DEF OneField
  <2>8. QED
    BY ONLY <2>4, <2>7, Zenon
<1>9. QED
  BY ONLY <1>2, <1>6, <1>7, <1>8, Zenon

\* A sequence with one more element in front.
InFront(T, x, s, r) ==
  /\ r \in Seq(T) /\ Len(r) = Len(s) + 1 /\ r[1] = x /\ \A i \in 1 .. Len(s) : r[i + 1] = s[i]

\* A list of fields, cut in four.
LEMMA HeadCut ==
  ASSUME NEW a, NEW b, NEW d, NEW e1, NEW e2, NEW e3, NEW e4, NEW e5, NEW e6, NEW e7, NEW e8
  PROVE  <<a, b, d, e1, e2, e3, e4, e5, e6, e7, e8>>
         = <<a>> \o (<<b>> \o (<<d>> \o <<e1, e2, e3, e4, e5, e6, e7, e8>>))
<1>1. PICK T : T = {a, b, d, e1, e2, e3, e4, e5, e6, e7, e8}
  OBVIOUS
<1>2. ASSUME NEW x, x \in T, NEW s, s \in Seq(T), NEW r, r = <<x>> \o s
      PROVE  InFront(T, x, s, r)
  <2>1. PICK y : y = <<x>>
    OBVIOUS
  <2>2. y \in Seq(T) /\ Len(y) = 1 /\ y[1] = x
    BY ONLY <1>2, <2>1
  <2>3. r = y \o s
    BY ONLY <1>2, <2>1, Zenon
  <2>4. r \in Seq(T) /\ Len(r) = Len(y) + Len(s) /\ r[1] = y[1] /\ \A i \in 1 .. Len(s) : r[Len(y) + i] = s[i]
    BY ONLY <1>2, <2>2, <2>3
  <2>5. Len(s) \in Nat
    BY ONLY <1>2
  <2>6. QED
    BY ONLY <2>2, <2>4, <2>5 DEF InFront
<1>3. PICK s, r1, r2, r3, t :
        /\ s = <<e1, e2, e3, e4, e5, e6, e7, e8>> /\ r1 = <<d>> \o s /\ r2 = <<b>> \o r1
        /\ r3 = <<a>> \o r2 /\ t = <<a, b, d, e1, e2, e3, e4, e5, e6, e7, e8>>
  BY Zenon
<1>4. a \in T /\ b \in T /\ d \in T /\ s \in Seq(T) /\ Len(s) = 8
  BY ONLY <1>1, <1>3
<1>5. /\ r1 \in Seq(T) /\ Len(r1) = 9 /\ r1[1] = d /\ \A i \in 1 .. 8 : r1[i + 1] = s[i]
  <2>1. r1 = <<d>> \o s
    BY ONLY <1>3, Zenon
  <2>2. InFront(T, d, s, r1)
    BY ONLY <1>2, <1>4, <2>1, Zenon
  <2>3. QED
    BY ONLY <1>4, <2>2 DEF InFront
<1>6. /\ r2 \in Seq(T) /\ Len(r2) = 10 /\ r2[1] = b /\ \A i \in 1 .. 9 : r2[i + 1] = r1[i]
  <2>1. r2 = <<b>> \o r1
    BY ONLY <1>3, Zenon
  <2>2. InFront(T, b, r1, r2)
    BY ONLY <1>2, <1>4, <1>5, <2>1, Zenon
  <2>3. QED
    BY ONLY <1>5, <2>2 DEF InFront
<1>7. /\ r3 \in Seq(T) /\ Len(r3) = 11 /\ r3[1] = a /\ \A i \in 1 .. 10 : r3[i + 1] = r2[i]
  <2>1. r3 = <<a>> \o r2
    BY ONLY <1>3, Zenon
  <2>2. InFront(T, a, r2, r3)
    BY ONLY <1>2, <1>4, <1>6, <2>1, Zenon
  <2>3. QED
    BY ONLY <1>6, <2>2 DEF InFront
<1>8. s[1] = e1 /\ s[2] = e2 /\ s[3] = e3 /\ s[4] = e4 /\ s[5] = e5 /\ s[6] = e6 /\ s[7] = e7 /\ s[8] = e8
  BY ONLY <1>3
<1>9. /\ r3[2] = b /\ r3[3] = d /\ r3[4] = e1 /\ r3[5] = e2 /\ r3[6] = e3 /\ r3[7] = e4
      /\ r3[8] = e5 /\ r3[9] = e6 /\ r3[10] = e7 /\ r3[11] = e8
  <2>1. /\ r1[2] = e1 /\ r1[3] = e2 /\ r1[4] = e3 /\ r1[5] = e4 /\ r1[6] = e5 /\ r1[7] = e6
        /\ r1[8] = e7 /\ r1[9] = e8
    BY ONLY <1>5, <1>8
  <2>2. /\ r2[2] = d /\ r2[3] = e1 /\ r2[4] = e2 /\ r2[5] = e3 /\ r2[6] = e4 /\ r2[7] = e5
        /\ r2[8] = e6 /\ r2[9] = e7 /\ r2[10] = e8
    BY ONLY <1>5, <1>6, <2>1
  <2>3. QED
    BY ONLY <1>6, <1>7, <2>2
<1>10. t \in Seq(T) /\ Len(t) = 11
  BY ONLY <1>1, <1>3
<1>11. \A i \in 1 .. 11 : t[i] = r3[i]
  <2>1. /\ t[1] = a /\ t[2] = b /\ t[3] = d /\ t[4] = e1 /\ t[5] = e2 /\ t[6] = e3 /\ t[7] = e4
        /\ t[8] = e5 /\ t[9] = e6 /\ t[10] = e7 /\ t[11] = e8
    BY ONLY <1>3
  <2>2. QED
    BY ONLY <2>1, <1>7, <1>9
<1>12. t = r3
  BY ONLY <1>7, <1>10, <1>11
<1>13. QED
  BY ONLY <1>3, <1>12, Zenon

\* All of a schema section, table by table.
LEMMA SchemaPieces ==
  ASSUME NEW c, NamesAreWellFormed(c)
  PROVE  /\ SchemaHead(c) \in Written
         /\ UnicodeBlock(c) \in Written /\ SizeOf(UnicodeBlock(c)) = Len(UnicodeNames(c)) * 10
         /\ AsciiBlock(c) \in Written
         /\ SizeOf(AsciiBlock(c)) = IF c.extended THEN Len(AsciiNames(c)) * 5 ELSE 0
         /\ WriteSchema(c) = SchemaHead(c) \o NameTable(c) \o ScopeTable(c) \o ItemTable(c)
                             \o UnicodeBlock(c) \o AsciiBlock(c)
<1>0. \A x, y, z : x \in Written /\ y \in Written /\ z \in Written => (x \o y) \o z = x \o (y \o z)
  <2>1. PICK T : T = Values \X (Nat \ {0})
    OBVIOUS
  <2>2. ASSUME NEW x \in Seq(T), NEW y \in Seq(T), NEW z \in Seq(T)
        PROVE  (x \o y) \o z = x \o (y \o z)
    OBVIOUS
  <2>3. Written = Seq(T)
    BY ONLY <2>1, Zenon DEF Written
  <2>4. QED
    BY ONLY <2>2, <2>3, Zenon
<1>a. \A x, y : x \in Written /\ y \in Written => x \o y \in Written
  BY DEF Written
<1>b. /\ SchemaPrefix \in Written /\ HName(c) \in Written /\ Version \in Written
      /\ Unnamed \in Written /\ AsciiLength(c) \in Written /\ SchemaTrailer(c) \in Written
  BY ONLY NamesAreWellFormed(c), SchemaHeadWritten, SchemaTrailerWritten, Zenon
<1>1. SchemaHead(c) \in Written
  BY ONLY <1>a, <1>b, Zenon DEF SchemaHead
<1>2. UnicodeBlock(c) \in Written /\ SizeOf(UnicodeBlock(c)) = Len(UnicodeNames(c)) * 10
  <2>1. PICK P, t : P = {i \in DOMAIN c.names : ~c.names[i].ascii} /\ t = Those(c.names, P)
    BY Zenon
  <2>2. t = Those(c.names, P)
    BY ONLY <2>1, Zenon
  <2>3. TextBlock(ShortNames(t), 2) \in Written /\ SizeOf(TextBlock(ShortNames(t), 2)) = Len(t) * 10
    BY ONLY <2>2, NamesAreWellFormed(c), NameBlockWritten
  <2>4. QED
    BY ONLY <2>1, <2>3, Zenon DEF UnicodeBlock, UnicodeNames
<1>3. /\ AsciiBlock(c) \in Written
      /\ SizeOf(AsciiBlock(c)) = IF c.extended THEN Len(AsciiNames(c)) * 5 ELSE 0
  <2>1. PICK P, t, x, z : /\ P = {i \in DOMAIN c.names : c.names[i].ascii} /\ t = Those(c.names, P)
                          /\ x = TextBlock(ShortNames(t), 1) /\ z = Len(t) * 5
    BY Zenon
  <2>2. t = Those(c.names, P)
    BY ONLY <2>1, Zenon
  <2>3. TextBlock(ShortNames(t), 1) \in Written /\ SizeOf(TextBlock(ShortNames(t), 1)) = Len(t) * 5
    BY ONLY <2>2, NamesAreWellFormed(c), NameBlockWritten
  <2>4. x \in Written /\ SizeOf(x) = z
    BY ONLY <2>1, <2>3, Zenon
  <2>5. PICK b, y : b = c.extended /\ y = When(b, x)
    BY Zenon
  <2>6. y \in Written /\ (b => y = x) /\ (~b => SizeOf(y) = 0)
    BY ONLY <2>4, <2>5, WhenWritten, Zenon
  <2>7. y = AsciiBlock(c)
    BY ONLY <2>1, <2>5, Zenon DEF AsciiBlock, AsciiNames
  <2>8. z = Len(AsciiNames(c)) * 5
    BY ONLY <2>1, Zenon DEF AsciiNames
  <2>9. PICK w : w = IF c.extended THEN Len(AsciiNames(c)) * 5 ELSE 0
    BY Zenon
  <2>10. SizeOf(y) = w
    <3>1. CASE b
      BY ONLY <2>4, <2>5, <2>6, <2>8, <2>9, <3>1, Zenon
    <3>2. CASE ~b
      BY ONLY <2>5, <2>6, <2>9, <3>2, Zenon
    <3>3. QED
      BY ONLY <3>1, <3>2, Zenon
  <2>11. QED
    BY ONLY <2>6, <2>7, <2>9, <2>10, Zenon
<1> DEFINE
      N       == c.names
      paths   == [i \in DOMAIN N |-> N[i].path]
      Parent(i) == IF Len(N[i].path) = 1 THEN i - 1
                   ELSE IndexIn(paths, Front(N[i].path))
      Short(s) == [i \in DOMAIN s |-> Last(s[i].path)]
      ascii   == Those(N, {i \in DOMAIN N : N[i].ascii})
      unicode == Those(N, {i \in DOMAIN N : ~N[i].ascii})
      Offset(e) == (Chars + 1) * IndexIn(IF e.ascii THEN ascii ELSE unicode, e)
      scopes  == Those(Upto(N), {i \in DOMAIN N : N[i].scope})
      items   == Those(Upto(N), {i \in DOMAIN N : ~N[i].scope})
      Entry(i) == <<U16(Parent(i)), U16(Len(N[i].path) * (Chars + 1)), U16(0),
                    U8(IF N[i].z THEN 0 ELSE Chars),
                    U8((IF N[i].scope THEN 16 ELSE 0) + (IF N[i].ascii THEN 32 ELSE 0)),
                    U16(Offset(N[i])), U16(N[i].prop)>>
      middle == <<Block(0, 20), U16(0), U16(0),
                  U16(0), U16(20), U16(0), U32(Len(N)), U32(Len(scopes)), U32(Len(items)),
                  U32((Chars + 1) * Len(unicode)), U32(0)>>
<1>4. WriteSchema(c) =
        <<U16(1), U16(1), U16(1), U16(0)>>
        \o When(c.extended, <<Block("hnamesx", 16)>>)
        \o middle
        \o When(c.extended, <<U32((Chars + 1) * Len(ascii))>>)
        \o Each(Upto(N), Entry)
        \o Each(scopes, LAMBDA i : <<U16(i - 1), U16(0), U16(0), U16(0)>>)
        \o Each(items, LAMBDA i : <<U16(i - 1)>>)
        \o TextBlock(Short(unicode), 2)
        \o When(c.extended, TextBlock(Short(ascii), 1))
  BY ONLY Zenon DEF WriteSchema
<1>5. /\ ascii = AsciiNames(c) /\ unicode = UnicodeNames(c) /\ scopes = ListedScopes(c)
      /\ items = ListedItems(c) /\ paths = PathsOf(c)
  BY ONLY Zenon DEF AsciiNames, UnicodeNames, ListedScopes, ListedItems, PathsOf
<1>6. Short(unicode) = ShortNames(UnicodeNames(c)) /\ Short(ascii) = ShortNames(AsciiNames(c))
  BY ONLY <1>5, Zenon DEF ShortNames
<1>c. Chars = 4 /\ Chars + 1 = 5
  BY DEF Chars
<1>7. <<U16(1), U16(1), U16(1), U16(0)>> = SchemaPrefix
      /\ When(c.extended, <<Block("hnamesx", 16)>>) = HName(c)
  BY ONLY Zenon DEF U16, Block, SchemaPrefix, HName
<1>8. When(c.extended, <<U32((Chars + 1) * Len(ascii))>>) = AsciiLength(c)
  BY ONLY <1>5, <1>c, Zenon DEF U32, AsciiLength
<1>9. middle = Version \o (Unnamed \o (Unnamed \o SchemaTrailer(c)))
  <2>1. PICK a, b, d, e1, e2, e3, e4, e5, e6, e7, e8 :
          /\ a = <<0, 20>> /\ b = <<0, 2>> /\ d = <<0, 2>> /\ e1 = <<0, 2>> /\ e2 = <<20, 2>>
          /\ e3 = <<0, 2>> /\ e4 = <<Len(c.names), 4>> /\ e5 = <<Len(ListedScopes(c)), 4>>
          /\ e6 = <<Len(ListedItems(c)), 4>> /\ e7 = <<5 * Len(UnicodeNames(c)), 4>> /\ e8 = <<0, 4>>
    BY Zenon
  <2>2. middle = <<a, b, d, e1, e2, e3, e4, e5, e6, e7, e8>>
    BY ONLY <1>5, <1>c, <2>1, Zenon DEF U16, U32, Block
  <2>3. Version = <<a>> /\ Unnamed = <<b>> /\ Unnamed = <<d>>
        /\ SchemaTrailer(c) = <<e1, e2, e3, e4, e5, e6, e7, e8>>
    BY ONLY <2>1, Zenon DEF Version, Unnamed, SchemaTrailer
  <2>4. <<a, b, d, e1, e2, e3, e4, e5, e6, e7, e8>>
          = <<a>> \o (<<b>> \o (<<d>> \o <<e1, e2, e3, e4, e5, e6, e7, e8>>))
    BY HeadCut
  <2> HIDE DEF middle
  <2>5. QED
    BY ONLY <2>2, <2>3, <2>4, Zenon
<1>10. Each(Upto(N), Entry) = NameTable(c)
  <2>1. PICK n : n = Len(c.names)
    OBVIOUS
  <2>2. DOMAIN N = 1 .. n
    BY ONLY <2>1, NamesAreWellFormed(c), NameParts, Zenon
  <2>3. Upto(N) = [i \in 1 .. n |-> i]
    BY ONLY <2>2, Zenon DEF Upto
  <2>4. ASSUME NEW i \in 1 .. n PROVE Entry(i) = NameRow(c, i)
    <3>1. Parent(i) = ParentOf(c, i)
      BY ONLY <1>5, Zenon DEF ParentOf
    <3>2. Offset(N[i]) = 5 * IndexIn(NamesBeside(c, c.names[i]), c.names[i])
      BY ONLY <1>5, <1>c, Zenon DEF NamesBeside
    <3>3. /\ (IF N[i].z THEN 0 ELSE Chars) = LengthOf(c.names[i])
          /\ (IF N[i].scope THEN 16 ELSE 0) + (IF N[i].ascii THEN 32 ELSE 0) = FlagsOf(c.names[i])
          /\ Len(N[i].path) * (Chars + 1) = Len(c.names[i].path) * 5
      BY ONLY <1>c, Zenon DEF LengthOf, FlagsOf
    <3> HIDE DEF Parent, Offset
    <3>4. QED
      BY ONLY <3>1, <3>2, <3>3, Zenon DEF NameRow, U16, U8
  <2> HIDE DEF Entry
  <2>5. Each(Upto(N), Entry) = FlattenSeq([i \in DOMAIN Upto(N) |-> Entry(Upto(N)[i])])
    BY ONLY Zenon DEF Each
  <2>6. PICK u : u = Upto(N)
    OBVIOUS
  <2>7. u = [i \in 1 .. n |-> i]
    BY ONLY <2>3, <2>6, Zenon
  <2>8. DOMAIN u = 1 .. n /\ \A i \in 1 .. n : u[i] = i
    BY ONLY <2>7
  <2>9. \A i \in 1 .. n : Entry(u[i]) = NameRow(c, i)
    BY ONLY <2>4, <2>8, Zenon
  <2>10. [i \in 1 .. n |-> Entry(u[i])] = [i \in 1 .. n |-> NameRow(c, i)]
    BY ONLY <2>9
  <2>11. [i \in DOMAIN u |-> Entry(u[i])] = [i \in 1 .. n |-> Entry(u[i])]
    BY ONLY <2>8, Zenon
  <2>12. QED
    BY ONLY <2>1, <2>5, <2>6, <2>10, <2>11, Zenon DEF NameTable, NameRows
<1>11. Each(scopes, LAMBDA i : <<U16(i - 1), U16(0), U16(0), U16(0)>>) = ScopeTable(c)
  BY ONLY <1>5, Zenon DEF Each, U16, ScopeTable, ScopeRows, ScopeRow
<1>12. Each(items, LAMBDA i : <<U16(i - 1)>>) = ItemTable(c)
  <2>1. PICK l, n : l = ListedItems(c) /\ n = Len(l)
    OBVIOUS
  <2>2. DOMAIN l = 1 .. n
    BY ONLY <2>1, NamesAreWellFormed(c), ItemTableWritten, Zenon
  <2>3. Each(items, LAMBDA i : <<U16(i - 1)>>) = FlattenSeq([k \in DOMAIN l |-> << <<l[k] - 1, 2>> >>])
    BY ONLY <1>5, <2>1, Zenon DEF Each, U16
  <2>4. ItemTable(c) = FlattenSeq([k \in 1 .. n |-> << <<ItemNumbers(c)[k], 2>> >>])
    BY ONLY <2>1, Zenon DEF ItemTable, Singles
  <2>5. ItemNumbers(c) = [k \in 1 .. n |-> l[k] - 1]
    BY ONLY <2>1, <2>2, Zenon DEF ItemNumbers
  <2>6. \A k \in 1 .. n : ItemNumbers(c)[k] = l[k] - 1
    BY ONLY <2>5
  <2>7. [k \in 1 .. n |-> << <<ItemNumbers(c)[k], 2>> >>] = [k \in 1 .. n |-> << <<l[k] - 1, 2>> >>]
    BY ONLY <2>6
  <2>8. QED
    BY ONLY <2>2, <2>3, <2>4, <2>7, Zenon
<1>13. TextBlock(Short(unicode), 2) = UnicodeBlock(c)
       /\ When(c.extended, TextBlock(Short(ascii), 1)) = AsciiBlock(c)
  BY ONLY <1>6, Zenon DEF UnicodeBlock, AsciiBlock
<1> HIDE DEF ascii, unicode, scopes, items, paths, Short, middle, Entry, N, Parent, Offset
<1>14. WriteSchema(c) = ((SchemaPrefix \o HName(c)) \o (Version \o (Unnamed \o (Unnamed \o SchemaTrailer(c)))))
                         \o AsciiLength(c) \o NameTable(c) \o ScopeTable(c) \o ItemTable(c)
                         \o UnicodeBlock(c) \o AsciiBlock(c)
  BY ONLY <1>4, <1>7, <1>8, <1>9, <1>10, <1>11, <1>12, <1>13, Zenon
<1>15. (SchemaPrefix \o HName(c)) \o (Version \o (Unnamed \o (Unnamed \o SchemaTrailer(c))))
         = SchemaPrefix \o HName(c) \o Version \o Unnamed \o Unnamed \o SchemaTrailer(c)
  <2>1. PICK a, v, u, t, h : /\ h = SchemaPrefix \o HName(c) /\ v = Version /\ u = Unnamed
                             /\ t = SchemaTrailer(c) /\ a = u \o t
    BY Zenon
  <2>2. h \in Written
    BY ONLY <1>a, <1>b, <2>1, Zenon
  <2>3. v \in Written
    BY ONLY <1>b, <2>1, Zenon
  <2>4. u \in Written
    BY ONLY <1>b, <2>1, Zenon
  <2>5. t \in Written
    BY ONLY <1>b, <2>1, Zenon
  <2>6. a \in Written
    BY ONLY <1>a, <2>1, <2>4, <2>5, Zenon
  <2>7. PICK q, r, w : q = u \o a /\ r = h \o v /\ w = r \o u
    BY Zenon
  <2>8. q \in Written
    BY ONLY <1>a, <2>4, <2>6, <2>7, Zenon
  <2>9. r \in Written
    BY ONLY <1>a, <2>2, <2>3, <2>7, Zenon
  <2>10. w \in Written
    BY ONLY <1>a, <2>4, <2>7, <2>9, Zenon
  <2>11. (h \o v) \o q = h \o (v \o q)
    BY ONLY <1>0, <2>2, <2>3, <2>8
  <2>12. (r \o u) \o a = r \o (u \o a)
    BY ONLY <1>0, <2>9, <2>4, <2>6
  <2>13. (w \o u) \o t = w \o (u \o t)
    BY ONLY <1>0, <2>10, <2>4, <2>5
  <2>14. h \o (v \o (u \o (u \o t))) = (((h \o v) \o u) \o u) \o t
    BY ONLY <2>1, <2>7, <2>11, <2>12, <2>13, Zenon
  <2>15. QED
    BY ONLY <2>1, <2>14, Zenon
<1>16. WriteSchema(c) = SchemaHead(c) \o NameTable(c) \o ScopeTable(c) \o ItemTable(c)
                        \o UnicodeBlock(c) \o AsciiBlock(c)
  BY ONLY <1>14, <1>15, Zenon DEF SchemaHead
<1>17. QED
  BY ONLY <1>1, <1>2, <1>3, <1>16, Zenon

\* Where a schema's reader looks for its parts.
SchemaHeadStruct(c) ==
  Struct(<<"prefix", "hname", "version", "unique_name", "name", "trailer", "ascii_length">>,
         <<8, IF c.extended THEN 16 ELSE 0, 20, 2, 2, 26, IF c.extended THEN 4 ELSE 0>>)
SchemaStruct(c) ==
  Struct(<<"head", "names", "scopes", "items", "unicode", "ascii">>,
         <<SchemaHeadStruct(c).size, Len(c.names) * 12, Len(ListedScopes(c)) * 8,
           Len(ListedItems(c)) * 2, Len(UnicodeNames(c)) * 10,
           IF c.extended THEN Len(AsciiNames(c)) * 5 ELSE 0>>)

\* The parts of a schema's head are there.
LEMMA SchemaHeadPlaces ==
  ASSUME NEW c, NamesAreWellFormed(c)
  PROVE  /\ SchemaHeadStruct(c).size = SizeOf(SchemaHead(c))
         /\ Begins(SchemaHead(c), SchemaPrefix)
         /\ Holds(SchemaHeadStruct(c), "trailer", SchemaHead(c), SchemaTrailer(c))
         /\ Holds(SchemaHeadStruct(c), "ascii_length", SchemaHead(c), AsciiLength(c))
<1>1. PICK p1, p2, p3, p4, p5, p6, p7 :
        /\ p1 = SchemaPrefix /\ p2 = HName(c) /\ p3 = Version /\ p4 = Unnamed /\ p5 = Unnamed /\ p6 = SchemaTrailer(c) /\ p7 = AsciiLength(c)
  BY Zenon
<1>2. PICK n1, n2, n3, n4, n5, n6, n7 :
        /\ n1 = "prefix" /\ n2 = "hname" /\ n3 = "version" /\ n4 = "unique_name" /\ n5 = "name" /\ n6 = "trailer" /\ n7 = "ascii_length"
  BY Zenon
<1>3. /\ p1 \in Written /\ SizeOf(p1) = 8
      /\ p2 \in Written /\ SizeOf(p2) = IF c.extended THEN 16 ELSE 0
      /\ p3 \in Written /\ SizeOf(p3) = 20 /\ p4 \in Written /\ SizeOf(p4) = 2
      /\ p5 \in Written /\ SizeOf(p5) = 2 /\ p6 \in Written /\ SizeOf(p6) = 26
      /\ p7 \in Written /\ SizeOf(p7) = IF c.extended THEN 4 ELSE 0
  <2>1. /\ SchemaPrefix \in Written /\ SizeOf(SchemaPrefix) = 8
        /\ HName(c) \in Written /\ SizeOf(HName(c)) = IF c.extended THEN 16 ELSE 0
        /\ Version \in Written /\ SizeOf(Version) = 20
        /\ Unnamed \in Written /\ SizeOf(Unnamed) = 2
        /\ AsciiLength(c) \in Written /\ SizeOf(AsciiLength(c)) = IF c.extended THEN 4 ELSE 0
    BY ONLY NamesAreWellFormed(c), SchemaHeadWritten
  <2>2. SchemaTrailer(c) \in Written /\ SizeOf(SchemaTrailer(c)) = 26
    BY ONLY NamesAreWellFormed(c), SchemaTrailerWritten
  <2>3. QED
    BY ONLY <1>1, <2>1, <2>2, Zenon
<1>7. PICK names, w, r, tables :
        /\ names = SevenOf(n1, n2, n3, n4, n5, n6, n7)
        /\ w = SevenOf(SizeOf(p1), SizeOf(p2), SizeOf(p3), SizeOf(p4), SizeOf(p5), SizeOf(p6), SizeOf(p7))
        /\ r = SevenJoined(p1, p2, p3, p4, p5, p6, p7) /\ tables = Struct(names, w)
  BY Zenon
<1>8. /\ n1 # n2 /\ n1 # n3 /\ n1 # n4 /\ n1 # n5 /\ n1 # n6 /\ n1 # n7
      /\ n2 # n3 /\ n2 # n4 /\ n2 # n5 /\ n2 # n6 /\ n2 # n7 /\ n3 # n4
      /\ n3 # n5 /\ n3 # n6 /\ n3 # n7 /\ n4 # n5 /\ n4 # n6 /\ n4 # n7
      /\ n5 # n6 /\ n5 # n7 /\ n6 # n7 /\ n1 # Skip /\ n2 # Skip /\ n3 # Skip
      /\ n4 # Skip /\ n5 # Skip /\ n6 # Skip /\ n7 # Skip
  BY <1>2 DEF Skip
<1>9. names = SevenOf(n1, n2, n3, n4, n5, n6, n7)
  BY ONLY <1>7, Zenon
<1>10. Unambiguous(names)
  BY ONLY <1>8, <1>9 DEF Unambiguous, SevenOf
<1>11. SevenWritten(p1, p2, p3, p4, p5, p6, p7)
  BY ONLY <1>3, Zenon DEF SevenWritten
<1>12. Unambiguous(SevenOf(n1, n2, n3, n4, n5, n6, n7))
  BY ONLY <1>9, <1>10, Zenon
<1>13. PICK t, q : /\ q = SevenJoined(p1, p2, p3, p4, p5, p6, p7)
                   /\ t = Struct(SevenOf(n1, n2, n3, n4, n5, n6, n7),
                                 SevenOf(SizeOf(p1), SizeOf(p2), SizeOf(p3), SizeOf(p4), SizeOf(p5), SizeOf(p6), SizeOf(p7)))
  BY Zenon
<1>14. SevenHeld(t, q, n1, n2, n3, n4, n5, n6, n7, p1, p2, p3, p4, p5, p6, p7)
  BY ONLY <1>11, <1>12, <1>13, SevenPieces
<1>15. t = tables /\ q = r
  BY ONLY <1>7, <1>13, Zenon
<1>16. tables = SchemaHeadStruct(c)
  BY ONLY <1>2, <1>3, <1>7, Zenon DEF SchemaHeadStruct, SevenOf
<1>17. r = SchemaHead(c)
  BY ONLY <1>1, <1>7, Zenon DEF SevenJoined, SchemaHead
<1>18. QED
  BY ONLY <1>1, <1>2, <1>8, <1>14, <1>15, <1>16, <1>17, Zenon DEF SevenHeld

\* So are its tables and its names.
LEMMA SchemaPlaces ==
  ASSUME NEW c, NamesAreWellFormed(c)
  PROVE  /\ SchemaStruct(c).size = SizeOf(WriteSchema(c))
         /\ Begins(WriteSchema(c), SchemaHead(c))
         /\ Holds(SchemaStruct(c), "names", WriteSchema(c), NameTable(c))
         /\ Holds(SchemaStruct(c), "unicode", WriteSchema(c), UnicodeBlock(c))
         /\ Holds(SchemaStruct(c), "ascii", WriteSchema(c), AsciiBlock(c))
<1>1. PICK p1, p2, p3, p4, p5, p6 :
        /\ p1 = SchemaHead(c) /\ p2 = NameTable(c) /\ p3 = ScopeTable(c) /\ p4 = ItemTable(c) /\ p5 = UnicodeBlock(c) /\ p6 = AsciiBlock(c)
  BY Zenon
<1>2. PICK n1, n2, n3, n4, n5, n6 :
        /\ n1 = "head" /\ n2 = "names" /\ n3 = "scopes" /\ n4 = "items" /\ n5 = "unicode" /\ n6 = "ascii"
  BY Zenon
<1>3. /\ p1 \in Written /\ SizeOf(p1) = SchemaHeadStruct(c).size
      /\ p2 \in Written /\ SizeOf(p2) = Len(c.names) * 12
      /\ p3 \in Written /\ SizeOf(p3) = Len(ListedScopes(c)) * 8
      /\ p4 \in Written /\ SizeOf(p4) = Len(ListedItems(c)) * 2
      /\ p5 \in Written /\ SizeOf(p5) = Len(UnicodeNames(c)) * 10
      /\ p6 \in Written /\ SizeOf(p6) = IF c.extended THEN Len(AsciiNames(c)) * 5 ELSE 0
  <2>1. /\ SchemaHead(c) \in Written /\ UnicodeBlock(c) \in Written /\ AsciiBlock(c) \in Written
        /\ NameTable(c) \in Written /\ ScopeTable(c) \in Written /\ ItemTable(c) \in Written
    BY ONLY NamesAreWellFormed(c), SchemaPieces, NameTableWritten, ScopeTableWritten, ItemTableWritten
  <2>2. SizeOf(UnicodeBlock(c)) = Len(UnicodeNames(c)) * 10
    BY ONLY NamesAreWellFormed(c), SchemaPieces
  <2>3. SizeOf(AsciiBlock(c)) = IF c.extended THEN Len(AsciiNames(c)) * 5 ELSE 0
    BY ONLY NamesAreWellFormed(c), SchemaPieces
  <2>4. SizeOf(NameTable(c)) = Len(c.names) * 12
    BY ONLY NamesAreWellFormed(c), NameTableWritten
  <2>5. SizeOf(ScopeTable(c)) = Len(ListedScopes(c)) * 8 /\ SizeOf(ItemTable(c)) = Len(ListedItems(c)) * 2
    BY ONLY NamesAreWellFormed(c), ScopeTableWritten, ItemTableWritten
  <2>6. SchemaHeadStruct(c).size = SizeOf(SchemaHead(c))
    BY ONLY NamesAreWellFormed(c), SchemaHeadPlaces, Zenon
  <2>7. QED
    BY ONLY <1>1, <2>1, <2>2, <2>3, <2>4, <2>5, <2>6, Zenon
<1>7. PICK names, w, r, tables :
        /\ names = SixOf(n1, n2, n3, n4, n5, n6)
        /\ w = SixOf(SizeOf(p1), SizeOf(p2), SizeOf(p3), SizeOf(p4), SizeOf(p5), SizeOf(p6))
        /\ r = SixJoined(p1, p2, p3, p4, p5, p6) /\ tables = Struct(names, w)
  BY Zenon
<1>8. /\ n1 # n2 /\ n1 # n3 /\ n1 # n4 /\ n1 # n5 /\ n1 # n6 /\ n2 # n3
      /\ n2 # n4 /\ n2 # n5 /\ n2 # n6 /\ n3 # n4 /\ n3 # n5 /\ n3 # n6
      /\ n4 # n5 /\ n4 # n6 /\ n5 # n6 /\ n1 # Skip /\ n2 # Skip /\ n3 # Skip
      /\ n4 # Skip /\ n5 # Skip /\ n6 # Skip
  BY <1>2 DEF Skip
<1>9. names = SixOf(n1, n2, n3, n4, n5, n6)
  BY ONLY <1>7, Zenon
<1>10. Unambiguous(names)
  BY ONLY <1>8, <1>9 DEF Unambiguous, SixOf
<1>11. SixWritten(p1, p2, p3, p4, p5, p6)
  BY ONLY <1>3, Zenon DEF SixWritten
<1>12. Unambiguous(SixOf(n1, n2, n3, n4, n5, n6))
  BY ONLY <1>9, <1>10, Zenon
<1>13. PICK t, q : /\ q = SixJoined(p1, p2, p3, p4, p5, p6)
                   /\ t = Struct(SixOf(n1, n2, n3, n4, n5, n6),
                                 SixOf(SizeOf(p1), SizeOf(p2), SizeOf(p3), SizeOf(p4), SizeOf(p5), SizeOf(p6)))
  BY Zenon
<1>14. SixHeld(t, q, n1, n2, n3, n4, n5, n6, p1, p2, p3, p4, p5, p6)
  BY ONLY <1>11, <1>12, <1>13, SixPieces
<1>15. t = tables /\ q = r
  BY ONLY <1>7, <1>13, Zenon
<1>16. tables = SchemaStruct(c)
  BY ONLY <1>2, <1>3, <1>7, Zenon DEF SchemaStruct, SixOf
<1>17. r = WriteSchema(c)
  BY ONLY <1>1, <1>7, NamesAreWellFormed(c), SchemaPieces, Zenon DEF SixJoined
<1>18. QED
  BY ONLY <1>1, <1>2, <1>8, <1>14, <1>15, <1>16, <1>17, Zenon DEF SixHeld

\* The flags and the offset of a name are read back from its entry.
LEMMA FlagsRead ==
  ASSUME NEW e, e.scope \in BOOLEAN, e.ascii \in BOOLEAN, NEW o \in Nat,
         NEW entry, entry.flags = FlagsOf(e), entry.name_offset_low = o
  PROVE  /\ IsScope(entry) <=> e.scope
         /\ IsAscii(entry) <=> e.ascii
         /\ NameOffset(entry) = o
<1>1. PICK s, a, f, l : s = e.scope /\ a = e.ascii /\ f = entry.flags /\ l = entry.name_offset_low
  BY Zenon
<1>2. f = (IF s THEN 16 ELSE 0) + (IF a THEN 32 ELSE 0)
  BY ONLY <1>1, entry.flags = FlagsOf(e), Zenon DEF FlagsOf
<1>3. /\ (s /\ a => f = 48) /\ (s /\ ~a => f = 16) /\ (~s /\ a => f = 32) /\ (~s /\ ~a => f = 0)
  BY ONLY <1>2
<1>4. l = o /\ o \in Nat
  BY <1>1
<1>5. s \in BOOLEAN /\ a \in BOOLEAN
  BY <1>1
<1>f. f = entry.flags /\ l = entry.name_offset_low
  BY <1>1
<1>b. PICK g, h, m : g = (f \div 16) % 2 /\ h = (f \div 32) % 2 /\ m = (f % 16) * 65536 + l
  BY ONLY TRUE
<1>c. /\ IsScope(entry) <=> g = 1
      /\ IsAscii(entry) <=> h = 1
      /\ NameOffset(entry) = m
  <2>1. IsScope(entry) <=> g = 1
    BY ONLY <1>f, <1>b DEF IsScope
  <2>2. IsAscii(entry) <=> h = 1
    BY ONLY <1>f, <1>b DEF IsAscii
  <2>3. NameOffset(entry) = m
    BY ONLY <1>f, <1>b DEF NameOffset
  <2>4. QED
    BY ONLY <2>1, <2>2, <2>3, Zenon
<1>6. CASE s /\ a
  <2>1. f = 48
    BY ONLY <1>3, <1>6
  <2>2. g = 1
    BY ONLY <1>b, <2>1
  <2>3. h = 1
    BY ONLY <1>b, <2>1
  <2>4. m = o
    BY ONLY <1>4, <1>b, <2>1
  <2>5. QED
    BY ONLY <1>1, <1>c, <1>6, <2>2, <2>3, <2>4, Zenon
<1>7. CASE s /\ ~a
  <2>1. f = 16
    BY ONLY <1>3, <1>7
  <2>2. g = 1
    BY ONLY <1>b, <2>1
  <2>3. h # 1
    BY ONLY <1>b, <2>1
  <2>4. m = o
    BY ONLY <1>4, <1>b, <2>1
  <2>5. QED
    BY ONLY <1>1, <1>c, <1>7, <2>2, <2>3, <2>4, Zenon
<1>8. CASE ~s /\ a
  <2>1. f = 32
    BY ONLY <1>3, <1>8
  <2>2. g # 1
    BY ONLY <1>b, <2>1
  <2>3. h = 1
    BY ONLY <1>b, <2>1
  <2>4. m = o
    BY ONLY <1>4, <1>b, <2>1
  <2>5. QED
    BY ONLY <1>1, <1>c, <1>8, <2>2, <2>3, <2>4, Zenon
<1>9. CASE ~s /\ ~a
  <2>1. f = 0
    BY ONLY <1>3, <1>9
  <2>2. g # 1
    BY ONLY <1>b, <2>1
  <2>3. h # 1
    BY ONLY <1>b, <2>1
  <2>4. m = o
    BY ONLY <1>4, <1>b, <2>1
  <2>5. QED
    BY ONLY <1>1, <1>c, <1>9, <2>2, <2>3, <2>4, Zenon
<1>10. QED
  BY ONLY <1>5, <1>6, <1>7, <1>8, <1>9, Zenon

\* A block that holds the own names of a list of names, k bytes a character.
Keeps(block, s, k) ==
  /\ block.base \in Nat /\ block.len = Len(s) * (k * (Chars + 1))
  /\ Laid(file.at, block.base, TextBlock(ShortNames(s), k))

\* The entry of a name.
IsEntryOf(c, i, entry) ==
  LET e == c.names[i]
  IN  /\ entry.parent_scope_index = ParentOf(c, i) /\ entry.name_length = LengthOf(e)
      /\ entry.flags = FlagsOf(e) /\ entry.index_property = e.prop
      /\ entry.name_offset_low = 5 * IndexIn(NamesBeside(c, e), e)

\* Every entry's own name is found in its block, with its length or without.
LEMMA OwnNameRead ==
  ASSUME NEW c, NamesAreWellFormed(c), NEW i \in 1 .. Len(c.names), NEW entry, IsEntryOf(c, i, entry),
         NEW u, Keeps(u, UnicodeNames(c), 2), NEW a, c.extended => Keeps(a, AsciiNames(c), 1)
  PROVE  ResolveName(u, a, entry) = Last(c.names[i].path)
<1>1. PICK e, o, j, b, w : /\ e = c.names[i] /\ j = IndexIn(NamesBeside(c, e), e) /\ o = 5 * j
                           /\ b = (IF e.ascii THEN a ELSE u) /\ w = (IF e.ascii THEN 1 ELSE 2)
  BY Zenon
<1>2. IsName(e) /\ (e.ascii => c.extended)
  <2>1. PICK m, N, M : m = Len(c.names) /\ N = c.names /\ M = Names
    BY Zenon
  <2>2. N \in [1 .. m -> M] /\ (\A x \in M : IsName(x)) /\ DOMAIN N = 1 .. m
    BY ONLY <2>1, NamesAreWellFormed(c), NameParts, Zenon
  <2>3. i \in 1 .. m /\ e = N[i]
    BY ONLY <1>1, <2>1, i \in 1 .. Len(c.names), Zenon
  <2>4. e \in M
    BY ONLY <2>2, <2>3
  <2>5. \A k \in DOMAIN c.names : c.names[k].ascii => c.extended
    BY ONLY NamesAreWellFormed(c), Zenon DEF NamesAreWellFormed
  <2>6. QED
    BY ONLY <2>1, <2>2, <2>3, <2>4, <2>5, Zenon
<1>3. /\ j \in Nat /\ j + 1 \in 1 .. Len(NamesBeside(c, e)) /\ NamesBeside(c, e)[j + 1] = e
  <2>1. e = c.names[i]
    BY <1>1
  <2>2. /\ IndexIn(NamesBeside(c, e), e) \in Nat
        /\ IndexIn(NamesBeside(c, e), e) + 1 \in 1 .. Len(NamesBeside(c, e))
        /\ NamesBeside(c, e)[IndexIn(NamesBeside(c, e), e) + 1] = e
    BY ONLY <2>1, i \in 1 .. Len(c.names), NamesAreWellFormed(c), NamePlace
  <2>3. j = IndexIn(NamesBeside(c, e), e)
    BY <1>1
  <2>4. QED
    BY ONLY <2>2, <2>3
<1>4. o \in Nat
  BY ONLY <1>1, <1>3
<1>5. entry.name_length = LengthOf(e) /\ entry.flags = FlagsOf(e) /\ entry.name_offset_low = o
  BY ONLY <1>1, IsEntryOf(c, i, entry), Zenon DEF IsEntryOf
<1>6. e.scope \in BOOLEAN /\ e.ascii \in BOOLEAN /\ e.z \in BOOLEAN
  BY ONLY <1>2, Zenon DEF IsName
<1>7. (IsAscii(entry) <=> e.ascii) /\ NameOffset(entry) = o
  <2>1. entry.flags = FlagsOf(e)
    BY <1>5
  <2>2. entry.name_offset_low = o
    BY <1>5
  <2>3. e.scope \in BOOLEAN
    BY <1>6
  <2>4. e.ascii \in BOOLEAN
    BY <1>6
  <2>5. QED
    BY ONLY <1>4, <2>1, <2>2, <2>3, <2>4, FlagsRead
<1>8. Keeps(b, NamesBeside(c, e), w)
  BY ONLY <1>1, <1>2, <1>6, Keeps(u, UnicodeNames(c), 2), c.extended => Keeps(a, AsciiNames(c), 1), Zenon
     DEF NamesBeside
<1>9. PICK s, t, n, places : /\ s = NamesBeside(c, e) /\ t = ShortNames(s) /\ n = Len(s)
                             /\ s = Those(c.names, places)
  BY ONLY Zenon DEF NamesBeside, UnicodeNames, AsciiNames
<1>10. /\ n \in Nat /\ t \in [1 .. n -> Values] /\ \A k \in 1 .. n : t[k] = Last(s[k].path)
  <2>1. s = Those(c.names, places)
    BY <1>9
  <2>2. /\ Len(s) \in Nat /\ ShortNames(s) \in [1 .. Len(s) -> Values]
        /\ \A k \in 1 .. Len(s) : ShortNames(s)[k] = Last(s[k].path)
    BY ONLY <2>1, NamesAreWellFormed(c), NameBlockWritten
  <2>3. QED
    BY ONLY <1>9, <2>2, Zenon
<1>11. w \in {1, 2}
  BY ONLY <1>1
<1>12. b.base \in Nat /\ b.len = n * (w * (Chars + 1)) /\ Laid(file.at, b.base, TextBlock(t, w))
  BY ONLY <1>8, <1>9, Zenon DEF Keeps
<1>13. PICK k : k = j + 1
  OBVIOUS
<1>14. k \in 1 .. n
  BY ONLY <1>3, <1>9, <1>13, Zenon
<1>15. /\ DecodeZ(b, (Chars + 1) * (k - 1), w) = t[k]
       /\ DecodeAt(b, (Chars + 1) * (k - 1), Chars, w) = t[k]
  BY ONLY <1>10, <1>11, <1>12, <1>14, TextsRead
<1>16. (Chars + 1) * (k - 1) = o
  BY ONLY <1>1, <1>3, <1>13 DEF Chars
<1>17. t[k] = Last(e.path)
  BY ONLY <1>3, <1>9, <1>10, <1>13, <1>14, Zenon
<1>18. (e.z => LengthOf(e) = 0) /\ (~e.z => LengthOf(e) = Chars) /\ Chars # 0
  <2>1. Chars # 0
    BY ONLY TRUE DEF Chars
  <2>2. QED
    BY ONLY <2>1, Zenon DEF LengthOf
<1>19. ResolveName(u, a, entry) = IF entry.name_length = 0 THEN DecodeZ(b, o, w)
                                  ELSE DecodeAt(b, o, entry.name_length, w)
  BY ONLY <1>1, <1>6, <1>7, Zenon DEF ResolveName
<1>20. QED
  BY ONLY <1>1, <1>5, <1>6, <1>15, <1>16, <1>17, <1>18, <1>19, Zenon

\* A piece of a list of fields that lies in the file is where the type says.
LEMMA PieceLies ==
  ASSUME NEW b \in Nat, NEW x, NEW name, NEW r, NEW p, Holds(x, name, r, p), Laid(file.at, b, r)
  PROVE  /\ x.at[name][1] \in Nat /\ b + x.at[name][1] \in Nat
         /\ Laid(file.at, b + x.at[name][1], p) /\ x.at[name][2] = SizeOf(p)
<1>2. /\ x.at[name][1] \in Nat /\ x.at[name][2] = SizeOf(p)
      /\ \A at, o : o \in Nat /\ Laid(at, o, r) => Laid(at, o + x.at[name][1], p)
  BY Zenon DEF Holds
<1>3. PICK d : d = x.at[name][1]
  OBVIOUS
<1>4. d \in Nat
  BY <1>2, <1>3
<1>5. b + d \in Nat
  BY ONLY <1>4, b \in Nat
<1>6. QED
  BY ONLY <1>2, <1>3, <1>5, b \in Nat, Laid(file.at, b, r), Zenon

\* What a schema's head counts.
LEMMA SchemaCounts ==
  ASSUME NEW c, NamesAreWellFormed(c), NEW b \in Nat, Laid(file.at, b, WriteSchema(c)),
         NEW h, h = SchemaHeadStruct(c)
  PROVE  LET prefix  == Get(HierarchicalSchemaHeader, b)
             trailer == Get(HierarchicalSchemaTrailer, b + h.at.trailer[1])
         IN  /\ prefix.unique_name_length = 1 /\ prefix.name_length = 1
             /\ trailer.number_of_resource_names = Len(c.names)
             /\ trailer.number_of_scopes = Len(ListedScopes(c))
             /\ trailer.number_of_items = Len(ListedItems(c))
             /\ trailer.unicode_name_block_length = 5 * Len(UnicodeNames(c))
             /\ c.extended => Field(b + h.at.ascii_length[1], 4) = 5 * Len(AsciiNames(c))
<1>1. Laid(file.at, b, SchemaHead(c))
  <2>1. Begins(WriteSchema(c), SchemaHead(c))
    BY ONLY NamesAreWellFormed(c), SchemaPlaces, Zenon
  <2>2. QED
    BY <2>1, Zenon DEF Begins
<1>2. Laid(file.at, b, SchemaPrefix)
  <2>1. Begins(SchemaHead(c), SchemaPrefix)
    BY ONLY NamesAreWellFormed(c), SchemaHeadPlaces, Zenon
  <2>2. QED
    BY <1>1, <2>1, Zenon DEF Begins
<1>3. Get(HierarchicalSchemaHeader, b).unique_name_length = 1
      /\ Get(HierarchicalSchemaHeader, b).name_length = 1
  <2>1. PICK s : s = SchemaPrefix
    OBVIOUS
  <2>2. s = << <<1, 2>>, <<1, 2>>, <<1, 2>>, <<0, 2>> >>
    BY <2>1, Zenon DEF SchemaPrefix
  <2>3. 1 \in Values /\ 0 \in Values
    BY DEF Values
  <2>4. s \in Written
    BY ONLY <2>2, <2>3 DEF Written
  <2>5. Widths(s) = <<2, 2, 2, 2>>
    BY ONLY <2>2 DEF Widths
  <2>6. Laid(file.at, b, s)
    BY <1>2, <2>1
  <2>7. /\ Get(HierarchicalSchemaHeader, b).unique_name_length = s[2][1]
        /\ Get(HierarchicalSchemaHeader, b).name_length = s[3][1]
    BY ONLY <2>4, <2>5, <2>6, b \in Nat, HierarchicalSchemaHeaderRead
  <2>8. s[2][1] = 1 /\ s[3][1] = 1
    BY ONLY <2>2
  <2>9. QED
    BY ONLY <2>7, <2>8
<1>4. PICK t, a : t = "trailer" /\ a = "ascii_length"
  BY Zenon
<1>5. Holds(h, t, SchemaHead(c), SchemaTrailer(c)) /\ Holds(h, a, SchemaHead(c), AsciiLength(c))
  BY ONLY <1>4, h = SchemaHeadStruct(c), NamesAreWellFormed(c), SchemaHeadPlaces, Zenon
<1>6. PICK o, p : o = b + h.at[t][1] /\ p = b + h.at[a][1]
  BY Zenon
<1>7. o \in Nat /\ Laid(file.at, o, SchemaTrailer(c)) /\ p \in Nat /\ Laid(file.at, p, AsciiLength(c))
  BY ONLY <1>1, <1>5, <1>6, b \in Nat, PieceLies, Zenon
<1>8. /\ Get(HierarchicalSchemaTrailer, o).number_of_resource_names = Len(c.names)
      /\ Get(HierarchicalSchemaTrailer, o).number_of_scopes = Len(ListedScopes(c))
      /\ Get(HierarchicalSchemaTrailer, o).number_of_items = Len(ListedItems(c))
      /\ Get(HierarchicalSchemaTrailer, o).unicode_name_block_length = 5 * Len(UnicodeNames(c))
  <2>1. PICK s : s = SchemaTrailer(c)
    OBVIOUS
  <2>2. s \in Written
    BY ONLY <2>1, NamesAreWellFormed(c), SchemaTrailerWritten, Zenon
  <2>3. Widths(s) = <<2, 2, 2, 4, 4, 4, 4, 4>>
    BY ONLY <2>1, NamesAreWellFormed(c), SchemaTrailerWritten
  <2>4. /\ s[4][1] = Len(c.names) /\ s[5][1] = Len(ListedScopes(c)) /\ s[6][1] = Len(ListedItems(c))
        /\ s[7][1] = 5 * Len(UnicodeNames(c))
    BY ONLY <2>1, NamesAreWellFormed(c), SchemaTrailerWritten
  <2>5. Laid(file.at, o, s)
    BY <1>7, <2>1
  <2>6. o \in Nat
    BY <1>7
  <2>7. /\ Get(HierarchicalSchemaTrailer, o).number_of_resource_names = s[4][1]
        /\ Get(HierarchicalSchemaTrailer, o).number_of_scopes = s[5][1]
        /\ Get(HierarchicalSchemaTrailer, o).number_of_items = s[6][1]
        /\ Get(HierarchicalSchemaTrailer, o).unicode_name_block_length = s[7][1]
    BY ONLY <2>2, <2>3, <2>5, <2>6, HierarchicalSchemaTrailerRead
  <2>8. QED
    BY ONLY <2>4, <2>7, Zenon
<1>9. ASSUME c.extended PROVE Field(p, 4) = 5 * Len(AsciiNames(c))
  <2>1. PICK at, l, v, s, k : at = file.at /\ l = Len(AsciiNames(c)) /\ v = 5 * l /\ k = 4 /\ s = << <<v, k>> >>
    BY Zenon
  <2>2. l \in Nat
    <3>1. PICK P : P = {i \in DOMAIN c.names : c.names[i].ascii}
      OBVIOUS
    <3>2. AsciiNames(c) = Those(c.names, P)
      BY <3>1, Zenon DEF AsciiNames
    <3>3. Len(AsciiNames(c)) \in Nat
      BY ONLY <3>2, NamesAreWellFormed(c), NameBlockWritten
    <3>4. QED
      BY <2>1, <3>3
  <2>3. AsciiLength(c) = s
    BY ONLY <1>9, <2>1, Zenon DEF AsciiLength, When
  <2>4. v \in Values
    <3>1. v \in Int
      BY ONLY <2>1, <2>2
    <3>2. QED
      BY ONLY <3>1 DEF Values
  <2>5. Laid(at, p, s)
    BY ONLY <1>7, <2>1, <2>3, Zenon
  <2>6. s = << <<v, k>> >>
    BY <2>1
  <2>7. Positive(k)
    <3>1. k = 4
      BY <2>1
    <3>2. QED
      BY ONLY <3>1 DEF Positive
  <2>8. p \in Nat
    BY <1>7
  <2>9. p \in DOMAIN at /\ at[p] = <<v, k>>
    BY ONLY <2>4, <2>5, <2>6, <2>7, <2>8, SingleSize
  <2>10. Field(p, k) = v
    BY ONLY <2>1, <2>9 DEF Field
  <2>11. QED
    BY ONLY <2>1, <2>10, Zenon
<1>10. QED
  BY ONLY <1>3, <1>4, <1>6, <1>8, <1>9, Zenon

\* Every entry of the name table is read as it was written.
LEMMA NamesRead ==
  ASSUME NEW c, NamesAreWellFormed(c), NEW b \in Nat, Laid(file.at, b, NameTable(c)),
         NEW i \in 1 .. Len(c.names)
  PROVE  IsEntryOf(c, i, Get(ResourceNameEntry, b + (i - 1) * 12))
<1>1. PICK s, o, e : s = NameRow(c, i) /\ o = b + (i - 1) * 12 /\ e = c.names[i]
  BY Zenon
<1>2. Laid(file.at, o, s)
  <2>1. \A at, p : p \in Nat /\ Laid(at, p, NameTable(c)) =>
           \A j \in 1 .. Len(c.names) : Laid(at, p + (j - 1) * 12, NameRow(c, j))
    BY ONLY NamesAreWellFormed(c), NameTableWritten, Zenon
  <2>2. QED
    BY ONLY <1>1, <2>1, b \in Nat, Laid(file.at, b, NameTable(c)), i \in 1 .. Len(c.names), Zenon
<1>3. o \in Nat
  <2>1. Len(c.names) \in Nat
    BY ONLY NamesAreWellFormed(c), NameParts, Zenon
  <2>2. QED
    BY ONLY <1>1, <2>1, b \in Nat, i \in 1 .. Len(c.names)
<1>4. s \in Written
  BY ONLY <1>1, NamesAreWellFormed(c), i \in 1 .. Len(c.names), NameRowWritten, Zenon
<1>5. Widths(s) = <<2, 2, 2, 1, 1, 2, 2>>
  BY ONLY <1>1, NamesAreWellFormed(c), i \in 1 .. Len(c.names), NameRowWritten
<1>6. /\ s[1][1] = ParentOf(c, i) /\ s[4][1] = LengthOf(c.names[i])
      /\ s[5][1] = FlagsOf(c.names[i])
      /\ s[6][1] = 5 * IndexIn(NamesBeside(c, c.names[i]), c.names[i])
      /\ s[7][1] = c.names[i].prop
  BY ONLY <1>1, NamesAreWellFormed(c), i \in 1 .. Len(c.names), NameRowWritten
<1>7. /\ Get(ResourceNameEntry, o).parent_scope_index = s[1][1]
      /\ Get(ResourceNameEntry, o).name_length = s[4][1]
      /\ Get(ResourceNameEntry, o).flags = s[5][1]
      /\ Get(ResourceNameEntry, o).name_offset_low = s[6][1]
      /\ Get(ResourceNameEntry, o).index_property = s[7][1]
  BY ONLY <1>2, <1>3, <1>4, <1>5, ResourceNameEntryRead
<1>8. QED
  BY ONLY <1>1, <1>6, <1>7, Zenon DEF IsEntryOf

\* The schema a schema section holds.
ItemNames(c) == {i \in DOMAIN c.names : ~c.names[i].scope}
SchemaOf(c) ==
  [path \in {PathsOf(c)[i] : i \in ItemNames(c)} |->
     c.names[CHOOSE i \in ItemNames(c) : PathsOf(c)[i] = path].prop]

\* The maximum of one number.
LEMMA MaxOfOne == ASSUME NEW i \in Int PROVE Max({i}) = i
  BY DEF Max

\* A schema section reads back as the properties of the items by their paths,
\* unless it is shorter than its tables: build_hierarchical_schema.
LEMMA SchemaRead ==
  ASSUME NEW c, NamesAreWellFormed(c), NEW range, range.base \in Nat,
         Laid(file.at, range.base, WriteSchema(c))
  PROVE  BuildSchema(range, c.extended) = Built(Fits(range, 0, SizeOf(WriteSchema(c))), SchemaOf(c))
<1> DEFINE
      extended == c.extended
      prefix  == Get(HierarchicalSchemaHeader, range.base)
      head    == Struct(<<"prefix", "hname", "version", "unique_name", "name",
                          "trailer", "ascii_length">>,
                        <<HierarchicalSchemaHeader.size,
                          IF extended THEN HNameIdentifier.size ELSE 0,
                          HSchemaVersionInfo.size,
                          2 * prefix.unique_name_length, 2 * prefix.name_length,
                          HierarchicalSchemaTrailer.size,
                          IF extended THEN 4 ELSE 0>>)
      trailer == Get(HierarchicalSchemaTrailer, range.base + head.at.trailer[1])
      tables  == Struct(<<"head", "names", "scopes", "items", "unicode", "ascii">>,
                        <<head.size,
                          trailer.number_of_resource_names * ResourceNameEntry.size,
                          trailer.number_of_scopes * ScopeEntry.size,
                          trailer.number_of_items * ItemEntry.size,
                          2 * trailer.unicode_name_block_length,
                          IF extended THEN Field(range.base + head.at.ascii_length[1], 4) ELSE 0>>)
      names   == Rows(ResourceNameEntry, range.base + tables.at.names[1],
                      trailer.number_of_resource_names)
      short   == [i \in DOMAIN names |->
                    ResolveName(Part(range, tables.at.unicode), Part(range, tables.at.ascii), names[i])]
      full_paths == FullPaths(names, short)
      items   == {i \in DOMAIN names : ~IsScope(names[i])}
      schema  == [path \in {full_paths[i] : i \in items} |->
                    names[Max({i \in items : full_paths[i] = path})].index_property]
<1>1. BuildSchema(range, c.extended) = Built(Fits(range, 0, tables.size), schema)
  BY ONLY Zenon DEF BuildSchema
<1>2. PICK b : b = range.base
  OBVIOUS
<1>3. b \in Nat /\ Laid(file.at, b, WriteSchema(c))
  BY <1>2
<1>4. PICK h : h = SchemaHeadStruct(c)
  OBVIOUS
<1>5. LET p == Get(HierarchicalSchemaHeader, b)
          t == Get(HierarchicalSchemaTrailer, b + h.at.trailer[1])
      IN  /\ p.unique_name_length = 1 /\ p.name_length = 1
          /\ t.number_of_resource_names = Len(c.names)
          /\ t.number_of_scopes = Len(ListedScopes(c))
          /\ t.number_of_items = Len(ListedItems(c))
          /\ t.unicode_name_block_length = 5 * Len(UnicodeNames(c))
          /\ c.extended => Field(b + h.at.ascii_length[1], 4) = 5 * Len(AsciiNames(c))
  BY ONLY <1>3, <1>4, NamesAreWellFormed(c), SchemaCounts
<1>6. head = h
  <2>1. /\ HierarchicalSchemaHeader.size = 8 /\ HNameIdentifier.size = 16
        /\ HSchemaVersionInfo.size = 20 /\ HierarchicalSchemaTrailer.size = 26
    BY RecordSizes
  <2>2. PICK x, y : x = prefix.unique_name_length /\ y = prefix.name_length
    BY Zenon
  <2>3. x = 1 /\ y = 1
    BY ONLY <1>2, <1>5, <2>2, Zenon
  <2>4. 2 * x = 2 /\ 2 * y = 2
    BY ONLY <2>3
  <2>5. 2 * prefix.unique_name_length = 2 /\ 2 * prefix.name_length = 2
    BY ONLY <2>2, <2>4, Zenon
  <2>6. QED
    BY ONLY <1>4, <2>1, <2>5, Zenon DEF SchemaHeadStruct
<1> HIDE DEF prefix, head
<1>7. /\ trailer.number_of_resource_names = Len(c.names)
      /\ trailer.number_of_scopes = Len(ListedScopes(c))
      /\ trailer.number_of_items = Len(ListedItems(c))
      /\ trailer.unicode_name_block_length = 5 * Len(UnicodeNames(c))
      /\ c.extended => Field(range.base + head.at.ascii_length[1], 4) = 5 * Len(AsciiNames(c))
  BY ONLY <1>2, <1>5, <1>6, Zenon
<1> HIDE DEF trailer
<1>8. PICK u, a, v : u = Len(UnicodeNames(c)) /\ a = Len(AsciiNames(c)) /\ v = 5 * a
  BY Zenon
<1>9. u \in Nat /\ a \in Nat
  <2>1. PICK P, Q : P = {i \in DOMAIN c.names : ~c.names[i].ascii} /\ Q = {i \in DOMAIN c.names : c.names[i].ascii}
    BY Zenon
  <2>2. UnicodeNames(c) = Those(c.names, P)
    BY ONLY <2>1, Zenon DEF UnicodeNames
  <2>3. AsciiNames(c) = Those(c.names, Q)
    BY ONLY <2>1, Zenon DEF AsciiNames
  <2>4. Len(UnicodeNames(c)) \in Nat
    BY ONLY <2>2, NamesAreWellFormed(c), NameBlockWritten
  <2>5. Len(AsciiNames(c)) \in Nat
    BY ONLY <2>3, NamesAreWellFormed(c), NameBlockWritten
  <2>6. QED
    BY ONLY <1>8, <2>4, <2>5, Zenon
<1>10. tables = SchemaStruct(c)
  <2>1. ResourceNameEntry.size = 12 /\ ScopeEntry.size = 8 /\ ItemEntry.size = 2
    BY RecordSizes
  <2>2. 2 * (5 * u) = u * 10 /\ v = a * 5
    BY ONLY <1>8, <1>9
  <2>3. (IF extended THEN Field(range.base + head.at.ascii_length[1], 4) ELSE 0)
          = IF c.extended THEN Len(AsciiNames(c)) * 5 ELSE 0
    BY ONLY <1>7, <1>8, <2>2, Zenon
  <2>4. 2 * trailer.unicode_name_block_length = Len(UnicodeNames(c)) * 10
    BY ONLY <1>7, <1>8, <2>2, Zenon
  <2>5. head.size = SchemaHeadStruct(c).size
    BY ONLY <1>4, <1>6, Zenon
  <2> HIDE DEF extended
  <2>6. QED
    BY ONLY <1>7, <2>1, <2>3, <2>4, <2>5, Zenon DEF SchemaStruct
<1> HIDE DEF tables
<1>11. PICK t : t = tables
  OBVIOUS
<1>12. PICK n1, n2, n3 : n1 = "names" /\ n2 = "unicode" /\ n3 = "ascii"
  BY Zenon
<1>13. /\ Holds(t, n1, WriteSchema(c), NameTable(c)) /\ Holds(t, n2, WriteSchema(c), UnicodeBlock(c))
       /\ Holds(t, n3, WriteSchema(c), AsciiBlock(c)) /\ t.size = SizeOf(WriteSchema(c))
  BY ONLY <1>10, <1>11, <1>12, NamesAreWellFormed(c), SchemaPlaces, Zenon
<1>14. PICK o1, o2, o3, n, ub, ab :
         /\ o1 = b + t.at[n1][1] /\ o2 = b + t.at[n2][1] /\ o3 = b + t.at[n3][1] /\ n = Len(c.names)
         /\ ub = Part(range, tables.at.unicode) /\ ab = Part(range, tables.at.ascii)
  BY Zenon
<1>15. /\ o1 \in Nat /\ Laid(file.at, o1, NameTable(c))
       /\ o2 \in Nat /\ Laid(file.at, o2, UnicodeBlock(c)) /\ t.at[n2][2] = SizeOf(UnicodeBlock(c))
       /\ o3 \in Nat /\ Laid(file.at, o3, AsciiBlock(c)) /\ t.at[n3][2] = SizeOf(AsciiBlock(c))
  <2>1. b \in Nat
    BY <1>3
  <2>2. \A x, name, r, p : Holds(x, name, r, p) /\ Laid(file.at, b, r) =>
            /\ b + x.at[name][1] \in Nat
            /\ Laid(file.at, b + x.at[name][1], p) /\ x.at[name][2] = SizeOf(p)
    BY ONLY <2>1, PieceLies
  <2>3. QED
    BY ONLY <1>3, <1>13, <1>14, <2>2, Zenon
<1>16. n \in Nat
  BY ONLY <1>14, NamesAreWellFormed(c), NameParts, Zenon
<1>17. ub.base = o2 /\ ub.len = u * 10 /\ ab.base = o3 /\ (c.extended => ab.len = v)
  <2>1. ub.base = o2 /\ ub.len = t.at[n2][2] /\ ab.base = o3 /\ ab.len = t.at[n3][2]
    BY ONLY <1>2, <1>11, <1>12, <1>14, Zenon DEF Part
  <2>2. SizeOf(UnicodeBlock(c)) = Len(UnicodeNames(c)) * 10
    BY ONLY NamesAreWellFormed(c), SchemaPieces
  <2>3. SizeOf(AsciiBlock(c)) = IF c.extended THEN Len(AsciiNames(c)) * 5 ELSE 0
    BY ONLY NamesAreWellFormed(c), SchemaPieces
  <2>4. a * 5 = v
    BY ONLY <1>8, <1>9
  <2>5. QED
    BY ONLY <1>8, <1>15, <2>1, <2>2, <2>3, <2>4, Zenon
<1>18. Keeps(ub, UnicodeNames(c), 2)
  <2>1. u * 10 = u * (2 * (Chars + 1))
    BY ONLY <1>9 DEF Chars
  <2>2. QED
    BY ONLY <1>8, <1>15, <1>17, <2>1, Zenon DEF Keeps, UnicodeBlock
<1>19. c.extended => Keeps(ab, AsciiNames(c), 1)
  <2>1. v = a * (1 * (Chars + 1))
    BY ONLY <1>8, <1>9 DEF Chars
  <2>2. c.extended => AsciiBlock(c) = TextBlock(ShortNames(AsciiNames(c)), 1)
    BY ONLY Zenon DEF AsciiBlock, When
  <2>3. QED
    BY ONLY <1>8, <1>15, <1>17, <2>1, <2>2, Zenon DEF Keeps
<1>20. names = [i \in 1 .. n |-> Get(ResourceNameEntry, o1 + (i - 1) * 12)]
  <2>1. ResourceNameEntry.size = 12
    BY RecordSizes
  <2>2. QED
    BY ONLY <1>2, <1>7, <1>11, <1>12, <1>14, <2>1, Zenon DEF Rows
<1> HIDE DEF names
<1>21. DOMAIN names = 1 .. n /\ Len(names) = n
  <2>1. PICK m : m = names
    OBVIOUS
  <2>2. m = [i \in 1 .. n |-> Get(ResourceNameEntry, o1 + (i - 1) * 12)]
    BY ONLY <1>20, <2>1, Zenon
  <2>3. DOMAIN m = 1 .. n
    BY ONLY <2>2, Zenon
  <2>4. Len(m) = n
    <3>1. m = [i \in 1 .. n |-> m[i]]
      BY ONLY <2>2, <2>3, Zenon
    <3>2. QED
      BY ONLY <1>16, <3>1
  <2>5. QED
    BY ONLY <2>1, <2>3, <2>4, Zenon
<1>22. \A i \in 1 .. n : IsEntryOf(c, i, names[i])
  <2>1. ASSUME NEW i \in 1 .. n PROVE IsEntryOf(c, i, names[i])
    <3>1. i \in 1 .. Len(c.names)
      BY ONLY <1>14, <2>1, Zenon
    <3>2. o1 \in Nat
      BY <1>15
    <3>3. Laid(file.at, o1, NameTable(c))
      BY <1>15
    <3>4. IsEntryOf(c, i, Get(ResourceNameEntry, o1 + (i - 1) * 12))
      BY ONLY <3>1, <3>2, <3>3, NamesAreWellFormed(c), NamesRead
    <3>5. names[i] = Get(ResourceNameEntry, o1 + (i - 1) * 12)
      BY ONLY <1>20, <2>1, Zenon
    <3>6. QED
      BY ONLY <3>4, <3>5, Zenon
  <2>2. QED
    BY ONLY <2>1, Zenon
<1>23. \A i \in 1 .. n : short[i] = Last(c.names[i].path)
  <2>1. ASSUME NEW i \in 1 .. n PROVE ResolveName(ub, ab, names[i]) = Last(c.names[i].path)
    <3>1. i \in 1 .. Len(c.names)
      BY ONLY <1>14, <2>1, Zenon
    <3>2. PICK entry : entry = names[i]
      OBVIOUS
    <3>3. IsEntryOf(c, i, entry)
      BY ONLY <1>22, <2>1, <3>2, Zenon
    <3>4. ResolveName(ub, ab, entry) = Last(c.names[i].path)
      BY ONLY <1>18, <1>19, <3>1, <3>3, NamesAreWellFormed(c), OwnNameRead
    <3>5. QED
      BY ONLY <3>2, <3>4, Zenon
  <2>2. short = [i \in DOMAIN names |-> ResolveName(ub, ab, names[i])]
    BY ONLY <1>14, Zenon
  <2>3. QED
    BY ONLY <1>21, <2>1, <2>2, Zenon
<1> HIDE DEF short
<1>24. full_paths = PathsOf(c)
  <2>1. PICK N, own, path : N = names /\ own = short /\ path = PathsOf(c)
    BY Zenon
  <2>2. PathTable(STRING, n, path) /\ \A i \in 1 .. n : path[i] = c.names[i].path
    BY ONLY <1>14, <2>1, NamesAreWellFormed(c), NameParts, Zenon
  <2>3. ASSUME NEW i \in 1 .. n
        PROVE  /\ own[i] = Last(path[i])
               /\ Len(path[i]) = 1 => N[i].parent_scope_index = i - 1
               /\ Len(path[i]) > 1 => /\ N[i].parent_scope_index \in Nat
                                      /\ N[i].parent_scope_index + 1 \in 1 .. n
                                      /\ path[N[i].parent_scope_index + 1] = Front(path[i])
    <3>1. path[i] = c.names[i].path
      BY ONLY <2>2, <2>3, Zenon
    <3>2. own[i] = Last(path[i])
      BY ONLY <1>23, <2>1, <2>3, <3>1, Zenon
    <3>3. N[i].parent_scope_index = ParentOf(c, i)
      BY ONLY <1>22, <2>1, <2>3, Zenon DEF IsEntryOf
    <3>4. i \in 1 .. Len(c.names)
      BY ONLY <1>14, <2>3, Zenon
    <3>5. PICK p, q : p = path[i] /\ q = ParentOf(c, i)
      BY Zenon
    <3>6. p = c.names[i].path
      BY ONLY <3>1, <3>5, Zenon
    <3>7. /\ ParentOf(c, i) \in Nat
          /\ Len(p) = 1 => ParentOf(c, i) = i - 1
          /\ Len(p) > 1 => /\ ParentOf(c, i) + 1 \in 1 .. Len(c.names)
                           /\ PathsOf(c)[ParentOf(c, i) + 1] = Front(p)
      BY ONLY <3>4, <3>6, NamesAreWellFormed(c), ParentPlace
    <3>8. QED
      BY ONLY <1>14, <2>1, <3>2, <3>3, <3>5, <3>7, Zenon
  <2>4. DOMAIN N = 1 .. n /\ Len(N) = n
    BY ONLY <1>21, <2>1, Zenon
  <2>5. Linked(n, N, own, path)
    BY ONLY <2>3, <2>4, Zenon DEF Linked
  <2>6. PICK T : T = STRING
    OBVIOUS
  <2>7. PathTable(T, n, path)
    BY ONLY <2>2, <2>6, Zenon
  <2>8. FullPaths(N, own) = path
    BY ONLY <2>5, <2>7, PathsFollowed
  <2>9. QED
    BY ONLY <2>1, <2>8, Zenon
<1> HIDE DEF full_paths
<1>25. items = ItemNames(c)
  <2>1. ASSUME NEW i \in 1 .. n PROVE IsScope(names[i]) <=> c.names[i].scope
    <3>1. PICK entry, e, o : entry = names[i] /\ e = c.names[i] /\ o = 5 * IndexIn(NamesBeside(c, e), e)
      BY Zenon
    <3>2. entry.flags = FlagsOf(e)
      BY ONLY <1>22, <2>1, <3>1, Zenon DEF IsEntryOf
    <3>3. entry.name_offset_low = o
      BY ONLY <1>22, <2>1, <3>1, Zenon DEF IsEntryOf
    <3>4. IsName(e)
      <4>1. PICK m, N, M : m = Len(c.names) /\ N = c.names /\ M = Names
        BY Zenon
      <4>2. N \in [1 .. m -> M] /\ \A x \in M : IsName(x)
        BY ONLY <4>1, NamesAreWellFormed(c), NameParts, Zenon
      <4>3. i \in 1 .. m /\ e = N[i]
        BY ONLY <1>14, <2>1, <3>1, <4>1, Zenon
      <4>4. e \in M
        BY ONLY <4>2, <4>3
      <4>5. QED
        BY ONLY <4>2, <4>4, Zenon
    <3>5. e.scope \in BOOLEAN
      BY ONLY <3>4, Zenon DEF IsName
    <3>6. e.ascii \in BOOLEAN
      BY ONLY <3>4, Zenon DEF IsName
    <3>7. o \in Nat
      <4>1. e = c.names[i]
        BY <3>1
      <4>2. i \in 1 .. Len(c.names)
        BY ONLY <1>14, <2>1, Zenon
      <4>3. IndexIn(NamesBeside(c, e), e) \in Nat
        BY ONLY <4>1, <4>2, NamesAreWellFormed(c), NamePlace
      <4>4. o = 5 * IndexIn(NamesBeside(c, e), e)
        BY <3>1
      <4>5. QED
        BY ONLY <4>3, <4>4
    <3>8. IsScope(entry) <=> e.scope
      BY ONLY <3>2, <3>3, <3>5, <3>6, <3>7, FlagsRead
    <3>9. QED
      BY ONLY <3>1, <3>8, Zenon
  <2>2. DOMAIN c.names = 1 .. n
    BY ONLY <1>14, NamesAreWellFormed(c), NameParts, Zenon
  <2>3. \A i : i \in items <=> i \in ItemNames(c)
    BY ONLY <1>21, <2>1, <2>2, Zenon DEF ItemNames
  <2> HIDE DEF items
  <2>4. QED
    BY ONLY <2>3
<1> HIDE DEF items
<1>26. ASSUME NEW path \in {PathsOf(c)[i] : i \in ItemNames(c)}
       PROVE  names[Max({i \in items : full_paths[i] = path})].index_property
              = c.names[CHOOSE i \in ItemNames(c) : PathsOf(c)[i] = path].prop
  <2>1. PICK j \in ItemNames(c) : PathsOf(c)[j] = path
    BY ONLY <1>26
  <2>2. /\ DOMAIN c.names = 1 .. n /\ \A i \in 1 .. n : PathsOf(c)[i] = c.names[i].path
    BY ONLY <1>14, NamesAreWellFormed(c), NameParts, Zenon
  <2>3. \A i, k \in DOMAIN c.names : c.names[i].path = c.names[k].path => i = k
    BY ONLY NamesAreWellFormed(c), Zenon DEF NamesAreWellFormed
  <2>4. j \in 1 .. n /\ \A i \in ItemNames(c) : i \in 1 .. n
    BY ONLY <2>1, <2>2, Zenon DEF ItemNames
  <2>5. \A i \in ItemNames(c) : PathsOf(c)[i] = path => i = j
    BY ONLY <2>1, <2>2, <2>3, <2>4, Zenon
  <2>6. \A i : i \in {k \in items : full_paths[k] = path} <=> i = j
    BY ONLY <1>24, <1>25, <2>1, <2>5, Zenon
  <2>7. {k \in items : full_paths[k] = path} = {j}
    BY ONLY <2>6
  <2>8. j \in Int
    BY ONLY <1>16, <2>4
  <2>9. Max({j}) = j
    BY ONLY <2>8, MaxOfOne
  <2>10. (CHOOSE i \in ItemNames(c) : PathsOf(c)[i] = path) = j
    <3>1. PICK i : i = CHOOSE k \in ItemNames(c) : PathsOf(c)[k] = path
      OBVIOUS
    <3>2. i \in ItemNames(c) /\ PathsOf(c)[i] = path
      BY ONLY <2>1, <3>1
    <3>3. QED
      BY ONLY <2>5, <3>1, <3>2, Zenon
  <2>11. names[j].index_property = c.names[j].prop
    BY ONLY <1>22, <2>4, Zenon DEF IsEntryOf
  <2>12. QED
    BY ONLY <2>7, <2>9, <2>10, <2>11, Zenon
<1>27. {full_paths[i] : i \in items} = {PathsOf(c)[i] : i \in ItemNames(c)}
  BY ONLY <1>24, <1>25, Zenon
<1>28. schema = SchemaOf(c)
  <2>1. PICK P : P = {PathsOf(c)[i] : i \in ItemNames(c)}
    OBVIOUS
  <2>2. schema = [path \in P |-> names[Max({i \in items : full_paths[i] = path})].index_property]
    BY ONLY <1>27, <2>1, Zenon
  <2>3. SchemaOf(c) = [path \in P |-> c.names[CHOOSE i \in ItemNames(c) : PathsOf(c)[i] = path].prop]
    BY ONLY <2>1, Zenon DEF SchemaOf
  <2>4. [path \in P |-> names[Max({i \in items : full_paths[i] = path})].index_property]
        = [path \in P |-> c.names[CHOOSE i \in ItemNames(c) : PathsOf(c)[i] = path].prop]
    BY ONLY <1>26, <2>1
  <2>5. QED
    BY ONLY <2>2, <2>3, <2>4, Zenon
<1> HIDE DEF schema
<1>29. Fits(range, 0, tables.size) = Fits(range, 0, SizeOf(WriteSchema(c)))
  BY ONLY <1>11, <1>13, Zenon
<1>30. QED
  BY ONLY <1>1, <1>28, <1>29, Zenon

-----------------------------------------------------------------------------
\* The file: its descriptor, its sections and its table of contents.

\* The parts of a file: the header with the table of contents, then every
\* section with its own header.
KindsOf(c) == <<"Descriptor", IF c.extended THEN "HierarchicalSchemaEx" ELSE "HierarchicalSchema",
                "DecisionInfo", "ResourceMap", "DataItem">>
Bodies(c)  == <<WriteDescriptor(c), WriteSchema(c), WriteDecisions(c), WriteMap(c),
                WriteDataItems(c)>>
Begin(c, i) == TotalOf([j \in 1 .. i - 1 |-> SizeOf(Bodies(c)[j]) + 32])
Declares(c, short, i) == SizeOf(Bodies(c)[i]) + 32 + 8 - (IF i = short THEN 1 ELSE 0)
FileHead(c) ==
  << <<c.magic, 8>>, <<0, 2>>, <<1, 2>>, <<192 + Begin(c, 6), 4>>, <<32, 4>>, <<192, 4>>,
     <<5, 2>>, <<NoSection, 2>>, <<0, 4>> >>
TocRow(c, short, i) ==
  << <<KindsOf(c)[i], 16>>, <<0, 2>>, <<0, 2>>, <<0, 4>>, <<Begin(c, i), 4>>,
     <<Declares(c, short, i), 4>> >>
TocRows(c, short) == [i \in 1 .. 5 |-> TocRow(c, short, i)]
SectionHead(c, short, i) ==
  << <<KindsOf(c)[i], 16>>, <<0, 4>>, <<0, 2>>, <<0, 2>>, <<Declares(c, short, i), 4>>, <<0, 4>> >>
SectionPart(c, short, i) == SectionHead(c, short, i) \o Bodies(c)[i]
FirstPart(c, short) == FileHead(c) \o FlattenSeq(TocRows(c, short))
FileParts(c, short) == <<FirstPart(c, short)>> \o [i \in 1 .. 5 |-> SectionPart(c, short, i)]

\* A map section is a list of fields.
LEMMA MapWritten ==
  ASSUME NEW c, ItemsAreWellFormed(c), DecisionsAreWellFormed(c)
  PROVE  WriteMap(c) \in Written
<1>1. \A x, y : x \in Written /\ y \in Written => x \o y \in Written
  BY DEF Written
<1>2. /\ KeptPart(c) \in Written /\ ExtraCounts(c) \in Written
      /\ CandidateTable(c) \in Written /\ EmbeddedPart(c) \in Written
  BY ONLY ItemsAreWellFormed(c), DecisionsAreWellFormed(c), MapPieces, ExtensionPieces, MapTables, Zenon
<1>3. PairList(ExtraMapped(c)) /\ PairList(ExtraGroups(c)) /\ PairList(ExtraInfos(c))
  BY ONLY ItemsAreWellFormed(c), DecisionsAreWellFormed(c), MapLists, Zenon
<1>4. /\ Longs(ExtraMapped(c)) \in Written /\ Longs(ExtraGroups(c)) \in Written
      /\ Longs(ExtraInfos(c)) \in Written
  BY ONLY <1>3, PairListDef, Zenon
<1>5. WriteMap(c) = KeptPart(c) \o ExtraCounts(c) \o Longs(ExtraMapped(c))
                    \o Longs(ExtraGroups(c)) \o Longs(ExtraInfos(c))
                    \o CandidateTable(c) \o EmbeddedPart(c)
  BY ONLY ItemsAreWellFormed(c), DecisionsAreWellFormed(c), MapPieces, Zenon
<1>6. QED
  BY ONLY <1>1, <1>2, <1>4, <1>5, Zenon

\* A schema section is one.
LEMMA SchemaWritten ==
  ASSUME NEW c, NamesAreWellFormed(c)
  PROVE  WriteSchema(c) \in Written
<1>1. \A x, y : x \in Written /\ y \in Written => x \o y \in Written
  BY DEF Written
<1>2. SchemaHead(c) \in Written /\ UnicodeBlock(c) \in Written /\ AsciiBlock(c) \in Written
  BY ONLY NamesAreWellFormed(c), SchemaPieces, Zenon
<1>3. NameTable(c) \in Written /\ ScopeTable(c) \in Written /\ ItemTable(c) \in Written
  BY ONLY NamesAreWellFormed(c), NameTableWritten, ScopeTableWritten, ItemTableWritten, Zenon
<1>4. WriteSchema(c) = SchemaHead(c) \o NameTable(c) \o ScopeTable(c) \o ItemTable(c)
                       \o UnicodeBlock(c) \o AsciiBlock(c)
  BY ONLY NamesAreWellFormed(c), SchemaPieces, Zenon
<1>5. QED
  BY ONLY <1>1, <1>2, <1>3, <1>4, Zenon

\* A list is two others, one behind the other, if its elements are theirs.
LEMMA CatIs ==
  ASSUME NEW T, NEW a \in Seq(T), NEW b \in Seq(T), NEW s \in Seq(T), Len(s) = Len(a) + Len(b),
         \A i \in 1 .. Len(a) : s[i] = a[i], \A i \in 1 .. Len(b) : s[Len(a) + i] = b[i]
  PROVE  s = a \o b
<1>1. PICK r : r = a \o b
  OBVIOUS
<1>2. r \in Seq(T) /\ Len(r) = Len(a) + Len(b)
  BY <1>1
<1>0. Len(a) \in Nat /\ Len(b) \in Nat
  OBVIOUS
<1>3. ASSUME NEW i \in 1 .. Len(r) PROVE r[i] = s[i]
  <2>1. CASE i <= Len(a)
    BY <1>1, <1>2, <2>1
  <2>2. CASE i > Len(a)
    <3>1. PICK j : j = i - Len(a)
      OBVIOUS
    <3>4. j \in 1 .. Len(b) /\ i = Len(a) + j
      BY ONLY <1>0, <1>2, <2>2, <3>1, i \in 1 .. Len(r)
    <3>2. r[i] = b[j]
      BY <1>1, <3>4, <2>2
    <3>3. QED
      BY <3>4, <3>2
  <2>3. QED
    BY <2>1, <2>2, <1>2
<1>4. s = r
  BY ONLY <1>2, <1>3, s \in Seq(T), Len(s) = Len(a) + Len(b), SeqEqual
<1>5. QED
  BY ONLY <1>1, <1>4

\* The descriptor, then the indices of the sections it counts.
PrimaryOf(c) == IF c.primary THEN 3 ELSE NoSection
DescriptorCounts(c) ==
  << <<0, 2>>, <<NoSection, 2>>, <<0, 2>>, <<1, 2>>, <<1, 2>>, <<1, 2>>, <<PrimaryOf(c), 2>>,
     <<0, 2>>, <<1, 2>>, <<0, 2>> >>
Listed == << <<1, 2>>, <<2, 2>>, <<3, 2>>, <<4, 2>> >>

\* The descriptor section, its counts and the sections it lists.
LEMMA DescriptorWritten ==
  ASSUME NEW c
  PROVE  /\ WriteDescriptor(c) \in Written /\ SizeOf(WriteDescriptor(c)) = 28
         /\ DescriptorCounts(c) \in Written
         /\ Widths(DescriptorCounts(c)) = <<2, 2, 2, 2, 2, 2, 2, 2, 2, 2>>
         /\ DescriptorCounts(c)[7][1] = PrimaryOf(c)
         /\ \A at, o : o \in Nat /\ Laid(at, o, WriteDescriptor(c)) =>
              /\ Laid(at, o, DescriptorCounts(c))
              /\ \A i \in 1 .. 4 : o + 20 + 2 * (i - 1) \in DOMAIN at
                                   /\ at[o + 20 + 2 * (i - 1)] = <<i, 2>>
<1>1. PICK p, no, s, d, l : /\ p = PrimaryOf(c) /\ no = NoSection /\ s = WriteDescriptor(c)
                            /\ d = DescriptorCounts(c) /\ l = Listed
  BY Zenon
<1>2. p \in Int /\ no \in Int
  <2>1. NoSection \in Int
    BY DEF NoSection
  <2>2. PICK b : b = c.primary
    OBVIOUS
  <2>3. p = IF b THEN 3 ELSE no
    BY ONLY <1>1, <2>2, Zenon DEF PrimaryOf
  <2>4. QED
    BY ONLY <1>1, <2>1, <2>3
<1>3. d = << <<0, 2>>, <<no, 2>>, <<0, 2>>, <<1, 2>>, <<1, 2>>, <<1, 2>>, <<p, 2>>, <<0, 2>>, <<1, 2>>, <<0, 2>> >>
  BY ONLY <1>1, Zenon DEF DescriptorCounts
<1>4. l = << <<1, 2>>, <<2, 2>>, <<3, 2>>, <<4, 2>> >>
  BY ONLY <1>1, Zenon DEF Listed
<1>5. s = << <<0, 2>>, <<no, 2>>, <<0, 2>>, <<1, 2>>, <<1, 2>>, <<1, 2>>, <<p, 2>>, <<0, 2>>, <<1, 2>>, <<0, 2>>,
             <<1, 2>>, <<2, 2>>, <<3, 2>>, <<4, 2>> >>
  BY ONLY <1>1, Zenon DEF WriteDescriptor, PrimaryOf, U16, DataSection
<1>6. Int \subseteq Values
  BY DEF Values
<1>7. s \in Written
  BY ONLY <1>2, <1>5, <1>6 DEF Written
<1>8. d \in Written /\ Widths(d) = <<2, 2, 2, 2, 2, 2, 2, 2, 2, 2>> /\ d[7][1] = p
  BY ONLY <1>2, <1>3, <1>6 DEF Written, Widths
<1>9. l \in Written
  BY ONLY <1>4, <1>6 DEF Written
<1>10. SizeOf(s) = 28 /\ \A i \in 1 .. 4 : Starts(s)[10 + i] = 20 + 2 * (i - 1)
  <2>1. PICK w, n : w = Widths(s) /\ n = 14
    BY Zenon
  <2>2. Len(s) = 14 /\ w = [i \in 1 .. 14 |-> 2]
    BY ONLY <1>5, <2>1 DEF Widths
  <2>3. Numbers(n, w)
    BY ONLY <2>1, <2>2 DEF Numbers
  <2>4. /\ Sums(w)[10] = 20 /\ Sums(w)[11] = 22 /\ Sums(w)[12] = 24 /\ Sums(w)[13] = 26 /\ Sums(w)[14] = 28
    <3>1. n >= 10 /\ n >= 11 /\ n >= 12 /\ n >= 13 /\ n >= 14
      BY ONLY <2>1
    <3>2. \A i \in 1 .. 14 : w[i] = 2
      BY ONLY <2>2
    <3>3. Sums(w)[10] = w[1] + w[2] + w[3] + w[4] + w[5] + w[6] + w[7] + w[8] + w[9] + w[10]
      BY ONLY <2>3, <3>1, SumsOfFew
    <3>4. Sums(w)[11] = w[1] + w[2] + w[3] + w[4] + w[5] + w[6] + w[7] + w[8] + w[9] + w[10] + w[11]
      BY ONLY <2>3, <3>1, SumsOfFew
    <3>5. Sums(w)[12] = w[1] + w[2] + w[3] + w[4] + w[5] + w[6] + w[7] + w[8] + w[9] + w[10] + w[11] + w[12]
      BY ONLY <2>3, <3>1, SumsOfFew
    <3>6. Sums(w)[13] = w[1] + w[2] + w[3] + w[4] + w[5] + w[6] + w[7] + w[8] + w[9] + w[10] + w[11] + w[12]
                        + w[13]
      BY ONLY <2>3, <3>1, SumsOfFew
    <3>7. Sums(w)[14] = w[1] + w[2] + w[3] + w[4] + w[5] + w[6] + w[7] + w[8] + w[9] + w[10] + w[11] + w[12]
                        + w[13] + w[14]
      BY ONLY <2>3, <3>1, SumsOfFew
    <3>8. QED
      BY ONLY <3>2, <3>3, <3>4, <3>5, <3>6, <3>7
  <2>5. s \in Fields
    BY ONLY <1>7, WrittenIsFields
  <2>6. SizeOf(s) = Sums(w)[Len(s)] /\ \A i \in 1 .. Len(s) : Starts(s)[i] = Sums(w)[i - 1]
    BY ONLY <2>1, <2>5, FieldsDef
  <2>7. SizeOf(s) = 28
    BY ONLY <2>2, <2>4, <2>6
  <2>8. /\ Starts(s)[11] = Sums(w)[10] /\ Starts(s)[12] = Sums(w)[11]
        /\ Starts(s)[13] = Sums(w)[12] /\ Starts(s)[14] = Sums(w)[13]
    <3>1. /\ 11 - 1 = 10 /\ 12 - 1 = 11 /\ 13 - 1 = 12 /\ 14 - 1 = 13
          /\ 11 \in 1 .. Len(s) /\ 12 \in 1 .. Len(s) /\ 13 \in 1 .. Len(s) /\ 14 \in 1 .. Len(s)
      BY ONLY <2>2
    <3>2. QED
      BY ONLY <2>6, <3>1
  <2>9. ASSUME NEW i \in 1 .. 4 PROVE Starts(s)[10 + i] = 20 + 2 * (i - 1)
    <3>1. i = 1 \/ i = 2 \/ i = 3 \/ i = 4
      BY ONLY <2>9
    <3>2. QED
      BY ONLY <2>4, <2>8, <3>1
  <2>10. QED
    BY ONLY <2>7, <2>9, Zenon
<1>11. s = d \o l
  <2>1. PICK T, r : T = Values \X (Nat \ {0}) /\ r = d \o l
    BY Zenon
  <2>2. Written = Seq(T)
    BY ONLY <2>1, Zenon DEF Written
  <2>3. d \in Seq(T) /\ l \in Seq(T) /\ s \in Seq(T)
    BY ONLY <1>7, <1>8, <1>9, <2>2, Zenon
  <2>4. Len(d) = 10 /\ Len(l) = 4 /\ Len(s) = 14
    BY ONLY <1>3, <1>4, <1>5
  <2>8. \A i \in 1 .. 10 : s[i] = d[i]
    <3>1. ASSUME NEW i \in 1 .. 10 PROVE s[i] = d[i]
      <4>1. \/ i = 1 \/ i = 2 \/ i = 3 \/ i = 4 \/ i = 5 \/ i = 6 \/ i = 7 \/ i = 8 \/ i = 9 \/ i = 10
        BY ONLY <3>1
      <4>2. QED
        BY ONLY <1>3, <1>5, <4>1
    <3>2. QED
      BY ONLY <3>1
  <2>9. \A i \in 1 .. 4 : s[10 + i] = l[i]
    <3>1. ASSUME NEW i \in 1 .. 4 PROVE s[10 + i] = l[i]
      <4>1. i = 1 \/ i = 2 \/ i = 3 \/ i = 4
        BY ONLY <3>1
      <4>2. s[11] = <<1, 2>> /\ s[12] = <<2, 2>> /\ s[13] = <<3, 2>> /\ s[14] = <<4, 2>>
        BY ONLY <1>5
      <4>3. l[1] = <<1, 2>> /\ l[2] = <<2, 2>> /\ l[3] = <<3, 2>> /\ l[4] = <<4, 2>>
        BY ONLY <1>4
      <4>4. PICK k : k = 10 + i
        OBVIOUS
      <4>5. s[k] = l[i]
        BY ONLY <4>1, <4>2, <4>3, <4>4
      <4>6. QED
        BY ONLY <4>4, <4>5
    <3>2. QED
      BY ONLY <3>1
  <2>12. Len(s) = Len(d) + Len(l)
    BY ONLY <2>4
  <2>13. \A i \in 1 .. Len(d) : s[i] = d[i]
    BY ONLY <2>4, <2>8
  <2>14. \A i \in 1 .. Len(l) : s[Len(d) + i] = l[i]
    BY ONLY <2>4, <2>9
  <2>15. d \in Seq(T)
    BY <2>3
  <2>16. l \in Seq(T)
    BY <2>3
  <2>17. s \in Seq(T)
    BY <2>3
  <2>18. QED
    BY ONLY <2>12, <2>13, <2>14, <2>15, <2>16, <2>17, CatIs
<1>12. ASSUME NEW at, NEW o \in Nat, Laid(at, o, s)
       PROVE  /\ Laid(at, o, d)
              /\ \A i \in 1 .. 4 : o + 20 + 2 * (i - 1) \in DOMAIN at
                                   /\ at[o + 20 + 2 * (i - 1)] = <<i, 2>>
  <2>1. d \in Fields /\ l \in Fields
    BY ONLY <1>8, <1>9, WrittenIsFields
  <2>2. Laid(at, o, d \o l)
    BY <1>11, <1>12
  <2>3. Laid(at, o, d)
    BY ONLY <2>1, <2>2, o \in Nat, LaidConcat
  <2>4. \A i \in 1 .. Len(s) : o + Starts(s)[i] \in DOMAIN at /\ at[o + Starts(s)[i]] = s[i]
    BY <1>12 DEF Laid
  <2>5. ASSUME NEW i \in 1 .. 4
        PROVE o + 20 + 2 * (i - 1) \in DOMAIN at /\ at[o + 20 + 2 * (i - 1)] = <<i, 2>>
    <3>1. PICK k, z : k = 10 + i /\ z = Starts(s)[k]
      OBVIOUS
    <3>2. Len(s) = 14
      BY ONLY <1>5
    <3>3. k \in 1 .. Len(s)
      BY ONLY <2>5, <3>1, <3>2
    <3>4. o + z \in DOMAIN at /\ at[o + z] = s[k]
      BY ONLY <2>4, <3>1, <3>3
    <3>5. s[k] = <<i, 2>>
      <4>1. (i = 1 \/ i = 2 \/ i = 3 \/ i = 4) /\ k = 10 + i
        BY ONLY <2>5, <3>1
      <4>2. s[11] = <<1, 2>> /\ s[12] = <<2, 2>> /\ s[13] = <<3, 2>> /\ s[14] = <<4, 2>>
        BY ONLY <1>5
      <4>3. QED
        BY ONLY <4>1, <4>2
    <3>6. z = 20 + 2 * (i - 1)
      BY ONLY <1>10, <2>5, <3>1
    <3>7. o + z = o + 20 + 2 * (i - 1)
      BY ONLY <2>5, <3>6, o \in Nat
    <3>8. QED
      BY ONLY <3>4, <3>5, <3>7
  <2>6. QED
    BY ONLY <2>3, <2>5, Zenon
<1>13. QED
  <2>1. ASSUME NEW at, NEW o, o \in Nat /\ Laid(at, o, s)
        PROVE  /\ Laid(at, o, d)
               /\ \A i \in 1 .. 4 : o + 20 + 2 * (i - 1) \in DOMAIN at
                                    /\ at[o + 20 + 2 * (i - 1)] = <<i, 2>>
    BY ONLY <1>12, <2>1
  <2>2. QED
    BY ONLY <1>1, <1>7, <1>8, <1>10, <2>1

\* What is in the five sections can be written.
LEMMA BodiesWritten ==
  ASSUME NEW c, IsContents(c)
  PROVE  /\ Bodies(c) \in [1 .. 5 -> Written] /\ KindsOf(c) \in [1 .. 5 -> Values]
         /\ c.magic \in Values
<1>1. DecisionsAreWellFormed(c) /\ NamesAreWellFormed(c) /\ ItemsAreWellFormed(c) /\ c.magic \in STRING
  BY ONLY IsContents(c), Zenon DEF IsContents
<1>2. PICK b1, b2, b3, b4, b5 :
        /\ b1 = WriteDescriptor(c) /\ b2 = WriteSchema(c) /\ b3 = WriteDecisions(c)
        /\ b4 = WriteMap(c) /\ b5 = WriteDataItems(c)
  BY Zenon
<1>3. b1 \in Written
  BY ONLY <1>2, DescriptorWritten, Zenon
<1>4. b2 \in Written
  BY ONLY <1>1, <1>2, SchemaWritten, Zenon
<1>5. b3 \in Written
  BY ONLY <1>1, <1>2, DecisionsLaid, Zenon
<1>6. b4 \in Written
  BY ONLY <1>1, <1>2, MapWritten, Zenon
<1>7. b5 \in Written
  BY ONLY <1>1, <1>2, DataItemsLaid, Zenon
<1>8. Bodies(c) \in [1 .. 5 -> Written]
  <2>1. Bodies(c) = <<b1, b2, b3, b4, b5>>
    BY ONLY <1>2, Zenon DEF Bodies
  <2>2. QED
    BY ONLY <1>3, <1>4, <1>5, <1>6, <1>7, <2>1
<1>9. KindsOf(c) \in [1 .. 5 -> Values]
  <2>1. PICK k1, k2, k3, k4, k5 :
          /\ k1 = "Descriptor" /\ k2 = (IF c.extended THEN "HierarchicalSchemaEx" ELSE "HierarchicalSchema")
          /\ k3 = "DecisionInfo" /\ k4 = "ResourceMap" /\ k5 = "DataItem"
    BY Zenon
  <2>2. k1 \in Tags /\ k3 \in Tags /\ k4 \in Tags /\ k5 \in Tags
    BY ONLY <2>1, Zenon DEF Tags, SectionTypes
  <2>3. k2 \in Tags
    <3>1. "HierarchicalSchemaEx" \in Tags /\ "HierarchicalSchema" \in Tags
      BY ONLY Zenon DEF Tags, SectionTypes
    <3>2. QED
      BY ONLY <2>1, <3>1, Zenon
  <2>4. KindsOf(c) = <<k1, k2, k3, k4, k5>>
    BY ONLY <2>1, Zenon DEF KindsOf
  <2>5. Tags \subseteq Values
    BY ONLY Zenon DEF Values
  <2>6. QED
    BY ONLY <2>2, <2>3, <2>4, <2>5
<1>10. c.magic \in Values
  BY ONLY <1>1, Zenon DEF Values
<1>11. QED
  BY ONLY <1>8, <1>9, <1>10, Zenon

\* Where the sections begin, behind the header and the table of contents.
LEMMA BeginDef ==
  ASSUME NEW c, IsContents(c)
  PROVE  /\ Begin(c, 1) = 0
         /\ \A i \in 1 .. 5 : /\ SizeOf(Bodies(c)[i]) \in Nat
                              /\ Begin(c, i + 1) = Begin(c, i) + SizeOf(Bodies(c)[i]) + 32
         /\ \A i \in 1 .. 6 : Begin(c, i) \in Nat
<1>1. PICK B, z : B = Bodies(c) /\ z = [j \in 1 .. 5 |-> SizeOf(B[j]) + 32]
  BY Zenon
<1>2. \A j \in 1 .. 5 : SizeOf(B[j]) \in Nat
  <2>1. B \in [1 .. 5 -> Written]
    BY ONLY <1>1, IsContents(c), BodiesWritten, Zenon
  <2>2. \A s \in Written : SizeOf(s) \in Nat
    BY WrittenIsFields, FieldsDef
  <2>3. QED
    BY ONLY <2>1, <2>2
<1>3. z \in [1 .. 5 -> Int]
  BY ONLY <1>1, <1>2
<1>4. ASSUME NEW i \in 1 .. 6 PROVE Begin(c, i) = Sums(z)[i - 1]
  <2>1. PICK n, k : n = 5 /\ k = i - 1
    BY Zenon
  <2>2. k \in 0 .. n /\ n \in Nat
    BY ONLY <1>4, <2>1
  <2>3. z \in [1 .. n -> Int]
    BY ONLY <1>3, <2>1
  <2>4. TotalOf(SubSeq(z, 1, k)) = Sums(z)[k]
    BY ONLY <2>2, <2>3, TotalOfFront
  <2>5. SubSeq(z, 1, k) = [j \in 1 .. k |-> SizeOf(B[j]) + 32]
    <3>1. PICK r : r = [j \in 1 .. k |-> SizeOf(B[j]) + 32]
      OBVIOUS
    <3>2. \A j \in 1 .. k : r[j] = z[j]
      <4>1. \A j \in 1 .. k : j \in 1 .. 5
        BY ONLY <2>1, <2>2
      <4>2. QED
        BY ONLY <1>1, <3>1, <4>1
    <3>3. z \in Seq(Int) /\ Len(z) = n
      BY ONLY <2>2, <2>3
    <3>4. SubSeq(z, 1, k) = [j \in 1 .. k |-> z[j]]
      BY ONLY <2>2, <3>3
    <3>5. QED
      BY ONLY <3>1, <3>2, <3>4
  <2>6. Begin(c, i) = TotalOf([j \in 1 .. k |-> SizeOf(B[j]) + 32])
    BY ONLY <1>1, <2>1, Zenon DEF Begin
  <2>7. QED
    BY ONLY <2>1, <2>4, <2>5, <2>6, Zenon
<1>5. PICK s : s = Sums(z)
  OBVIOUS
<1>6. s[0] = 0 /\ s \in [0 .. 5 -> Int] /\ \A i \in 1 .. 5 : s[i] = s[i - 1] + z[i]
  <2>1. PICK n : n = 5
    OBVIOUS
  <2>2. n \in Nat
    BY ONLY <2>1
  <2>3. z \in [1 .. n -> Int]
    BY ONLY <1>3, <2>1
  <2>4. Sums(z) \in [0 .. n -> Int] /\ Sums(z)[0] = 0 /\ \A i \in 1 .. n : Sums(z)[i] = Sums(z)[i - 1] + z[i]
    BY ONLY <2>2, <2>3, SumsDef
  <2>5. QED
    BY ONLY <1>5, <2>1, <2>4, Zenon
<1>7. \A i \in 1 .. 5 : s[i] = s[i - 1] + SizeOf(B[i]) + 32
  BY ONLY <1>1, <1>2, <1>6
<1>8. s[1] \in Nat /\ s[2] \in Nat /\ s[3] \in Nat /\ s[4] \in Nat /\ s[5] \in Nat
  <2>1. s[1] \in Nat
    BY ONLY <1>2, <1>6, <1>7
  <2>2. s[2] \in Nat
    BY ONLY <1>2, <1>7, <2>1
  <2>3. s[3] \in Nat
    BY ONLY <1>2, <1>7, <2>2
  <2>4. s[4] \in Nat
    BY ONLY <1>2, <1>7, <2>3
  <2>5. s[5] \in Nat
    BY ONLY <1>2, <1>7, <2>4
  <2>6. QED
    BY ONLY <2>1, <2>2, <2>3, <2>4, <2>5
<1>a. \A i \in 1 .. 6 : Begin(c, i) = s[i - 1]
  BY ONLY <1>4, <1>5
<1>9. Begin(c, 1) = 0
  BY ONLY <1>a, <1>6
<1>10. ASSUME NEW i \in 1 .. 5
       PROVE  SizeOf(Bodies(c)[i]) \in Nat /\ Begin(c, i + 1) = Begin(c, i) + SizeOf(Bodies(c)[i]) + 32
  <2>1. Begin(c, i) = s[i - 1]
    BY ONLY <1>a, <1>10
  <2>2. Begin(c, i + 1) = s[i]
    <3>1. PICK j : j = i + 1
      OBVIOUS
    <3>2. j \in 1 .. 6 /\ j - 1 = i
      BY ONLY <1>10, <3>1
    <3>3. QED
      BY ONLY <1>a, <3>1, <3>2
  <2>3. SizeOf(B[i]) \in Nat /\ s[i] = s[i - 1] + SizeOf(B[i]) + 32
    BY ONLY <1>2, <1>7, <1>10
  <2>4. QED
    BY ONLY <1>1, <2>1, <2>2, <2>3
<1>11. ASSUME NEW i \in 1 .. 6 PROVE Begin(c, i) \in Nat
  <2>1. i = 1 \/ i = 2 \/ i = 3 \/ i = 4 \/ i = 5 \/ i = 6
    BY ONLY <1>11
  <2>2. Begin(c, i) = s[i - 1]
    BY ONLY <1>a, <1>11
  <2>3. QED
    BY ONLY <1>6, <1>8, <2>1, <2>2
<1>12. QED
  BY ONLY <1>9, <1>10, <1>11

\* The headers of the file and of the sections, and the rows between them.
LEMMA HeadsWritten ==
  ASSUME NEW c, IsContents(c), NEW short \in 0 .. 5
  PROVE  /\ FileHead(c) \in Written /\ Widths(FileHead(c)) = <<8, 2, 2, 4, 4, 4, 2, 2, 4>>
         /\ SizeOf(FileHead(c)) = 32
         /\ FileHead(c)[1][1] = c.magic /\ FileHead(c)[5][1] = 32 /\ FileHead(c)[6][1] = 192
         /\ FileHead(c)[7][1] = 5
         /\ \A i \in 1 .. 5 :
              /\ TocRow(c, short, i) \in Written /\ Widths(TocRow(c, short, i)) = <<16, 2, 2, 4, 4, 4>>
              /\ SizeOf(TocRow(c, short, i)) = 32
              /\ TocRow(c, short, i)[1][1] = KindsOf(c)[i] /\ TocRow(c, short, i)[5][1] = Begin(c, i)
              /\ SectionHead(c, short, i) \in Written
              /\ Widths(SectionHead(c, short, i)) = <<16, 4, 2, 2, 4, 4>>
              /\ SizeOf(SectionHead(c, short, i)) = 32
              /\ SectionHead(c, short, i)[5][1] = Declares(c, short, i)
<1>0. Int \subseteq Values
  BY DEF Values
<1>1. PICK m, e, no : m = c.magic /\ e = 192 + Begin(c, 6) /\ no = NoSection
  BY Zenon
<1>2. m \in Values /\ e \in Values /\ no \in Values
  <2>1. Begin(c, 6) \in Nat
    BY ONLY IsContents(c), BeginDef
  <2>2. e \in Int
    BY ONLY <1>1, <2>1
  <2>3. no \in Int
    BY ONLY <1>1 DEF NoSection
  <2>4. m \in Values
    BY ONLY <1>1, IsContents(c), BodiesWritten, Zenon
  <2>5. QED
    BY ONLY <1>0, <2>2, <2>3, <2>4
<1>3. PICK s : s = FileHead(c)
  OBVIOUS
<1>4. s = << <<m, 8>>, <<0, 2>>, <<1, 2>>, <<e, 4>>, <<32, 4>>, <<192, 4>>, <<5, 2>>, <<no, 2>>, <<0, 4>> >>
  BY ONLY <1>1, <1>3, Zenon DEF FileHead
<1>5. s \in Written /\ Widths(s) = <<8, 2, 2, 4, 4, 4, 2, 2, 4>>
  BY ONLY <1>0, <1>2, <1>4 DEF Written, Widths
<1>6. s[1][1] = m /\ s[5][1] = 32 /\ s[6][1] = 192 /\ s[7][1] = 5
  BY ONLY <1>4
<1>7. SizeOf(s) = 32
  BY ONLY <1>5, ResourceHeaderRead
<1>8. ASSUME NEW i \in 1 .. 5
      PROVE  /\ TocRow(c, short, i) \in Written /\ Widths(TocRow(c, short, i)) = <<16, 2, 2, 4, 4, 4>>
             /\ SizeOf(TocRow(c, short, i)) = 32
             /\ TocRow(c, short, i)[1][1] = KindsOf(c)[i] /\ TocRow(c, short, i)[5][1] = Begin(c, i)
             /\ SectionHead(c, short, i) \in Written
             /\ Widths(SectionHead(c, short, i)) = <<16, 4, 2, 2, 4, 4>>
             /\ SizeOf(SectionHead(c, short, i)) = 32
             /\ SectionHead(c, short, i)[5][1] = Declares(c, short, i)
  <2>1. PICK k, d, b, r, h : /\ k = KindsOf(c)[i] /\ d = Declares(c, short, i) /\ b = Begin(c, i)
                             /\ r = TocRow(c, short, i) /\ h = SectionHead(c, short, i)
    BY Zenon
  <2>2. k \in Values
    <3>1. PICK K : K = KindsOf(c)
      OBVIOUS
    <3>2. K \in [1 .. 5 -> Values]
      BY ONLY <3>1, IsContents(c), BodiesWritten, Zenon
    <3>3. K[i] \in Values
      BY ONLY <3>2, <1>8
    <3>4. QED
      BY ONLY <2>1, <3>1, <3>3, Zenon
  <2>3. b \in Values /\ d \in Values
    <3>1. SizeOf(Bodies(c)[i]) \in Nat
      BY ONLY <1>8, IsContents(c), BeginDef
    <3>2. d \in Int
      BY ONLY <2>1, <3>1 DEF Declares
    <3>3. i \in 1 .. 6
      BY ONLY <1>8
    <3>4. Begin(c, i) \in Nat
      BY ONLY <3>3, IsContents(c), BeginDef
    <3>5. QED
      BY ONLY <1>0, <2>1, <3>2, <3>4
  <2>4. r = << <<k, 16>>, <<0, 2>>, <<0, 2>>, <<0, 4>>, <<b, 4>>, <<d, 4>> >>
    BY ONLY <2>1, Zenon DEF TocRow
  <2>5. h = << <<k, 16>>, <<0, 4>>, <<0, 2>>, <<0, 2>>, <<d, 4>>, <<0, 4>> >>
    BY ONLY <2>1, Zenon DEF SectionHead
  <2>6. r \in Written /\ Widths(r) = <<16, 2, 2, 4, 4, 4>> /\ r[1][1] = k /\ r[5][1] = b
    BY ONLY <1>0, <2>2, <2>3, <2>4 DEF Written, Widths
  <2>7. h \in Written /\ Widths(h) = <<16, 4, 2, 2, 4, 4>> /\ h[5][1] = d
    BY ONLY <1>0, <2>2, <2>3, <2>5 DEF Written, Widths
  <2>8. SizeOf(r) = 32
    BY ONLY <2>6, TableOfContentsEntryRead
  <2>9. SizeOf(h) = 32
    BY ONLY <2>7, SectionHeaderRead
  <2>10. QED
    BY ONLY <2>1, <2>6, <2>7, <2>8, <2>9
<1>9. QED
  BY ONLY <1>1, <1>3, <1>5, <1>6, <1>7, <1>8

\* A file is written as its parts.
LEMMA WriteFileIs ==
  ASSUME NEW c, NEW short
  PROVE  WriteFile(c, short) = FileParts(c, short)
<1> DEFINE
      types == <<"Descriptor", IF c.extended THEN "HierarchicalSchemaEx" ELSE "HierarchicalSchema",
                 "DecisionInfo", "ResourceMap", "DataItem">>
      bodies == <<WriteDescriptor(c), WriteSchema(c), WriteDecisions(c), WriteMap(c),
                 WriteDataItems(c)>>
      Declared(i) == SizeOf(bodies[i]) + 32 + 8 - (IF i = short THEN 1 ELSE 0)
      Section(i)  == << <<types[i], 16>>, <<0, 4>>, <<0, 2>>, <<0, 2>>, <<Declared(i), 4>>, <<0, 4>> >>
                     \o bodies[i]
      At(i)  == TotalOf([j \in 1 .. i - 1 |-> SizeOf(bodies[j]) + 32])
      first  == 32 + 32 * Len(types)
      Row(i) == << <<types[i], 16>>, <<0, 2>>, <<0, 2>>, <<0, 4>>, <<At(i), 4>>, <<Declared(i), 4>> >>
      rows   == Upto(types)
<1>1. WriteFile(c, short)
      = << << <<c.magic, 8>>, <<0, 2>>, <<1, 2>>, <<first + At(Len(types) + 1), 4>>, <<32, 4>>,
              <<first, 4>>, <<Len(types), 2>>, <<NoSection, 2>>, <<0, 4>> >>
           \o FlattenSeq([i \in DOMAIN rows |-> Row(rows[i])]) >> \o [i \in DOMAIN types |-> Section(i)]
  BY ONLY Zenon DEF WriteFile, Each, Block, U16, U32
<1>2. types = KindsOf(c) /\ bodies = Bodies(c)
  BY ONLY Zenon DEF KindsOf, Bodies
<1>3. Len(types) = 5 /\ DOMAIN types = 1 .. 5
  <2>1. PICK k1, k2, k3, k4, k5 :
          /\ k1 = "Descriptor" /\ k2 = (IF c.extended THEN "HierarchicalSchemaEx" ELSE "HierarchicalSchema")
          /\ k3 = "DecisionInfo" /\ k4 = "ResourceMap" /\ k5 = "DataItem"
    BY Zenon
  <2>2. PICK t : t = <<k1, k2, k3, k4, k5>>
    OBVIOUS
  <2>3. types = t
    BY ONLY <2>1, <2>2, Zenon
  <2> HIDE DEF types
  <2>4. Len(t) = 5 /\ DOMAIN t = 1 .. 5
    BY ONLY <2>2
  <2>5. QED
    BY ONLY <2>3, <2>4
<1> HIDE DEF types, bodies
<1>4. first = 192
  <2>1. PICK l : l = Len(types)
    OBVIOUS
  <2>2. l = 5
    BY ONLY <1>3, <2>1
  <2>3. 32 + 32 * l = 192
    BY ONLY <2>2
  <2>4. QED
    BY ONLY <2>1, <2>3
<1>5. At(Len(types) + 1) = Begin(c, 6)
  <2>1. Len(types) + 1 = 6
    BY ONLY <1>3
  <2>2. At(6) = Begin(c, 6)
    BY ONLY <1>2, Zenon DEF Begin
  <2>3. QED
    BY ONLY <2>1, <2>2, Zenon
<1>6. \A i : Row(i) = TocRow(c, short, i) /\ Section(i) = SectionPart(c, short, i)
  BY ONLY <1>2, Zenon DEF TocRow, SectionPart, SectionHead, Declares, Begin
<1> HIDE DEF first, At, Row, Section
<1>7. [i \in DOMAIN rows |-> Row(rows[i])] = TocRows(c, short)
  <2>1. PICK l, u : l = DOMAIN types /\ u = rows
    BY Zenon
  <2>2. u = [i \in 1 .. 5 |-> i]
    BY ONLY <1>3, <2>1, Zenon DEF Upto
  <2>3. DOMAIN u = 1 .. 5 /\ \A i \in 1 .. 5 : u[i] = i
    BY ONLY <2>2
  <2>4. [i \in 1 .. 5 |-> Row(u[i])] = [i \in 1 .. 5 |-> TocRow(c, short, i)]
    BY ONLY <1>6, <2>3
  <2>5. [i \in DOMAIN u |-> Row(u[i])] = [i \in 1 .. 5 |-> Row(u[i])]
    BY ONLY <2>3, Zenon
  <2>6. QED
    BY ONLY <2>1, <2>4, <2>5, Zenon DEF TocRows
<1> HIDE DEF rows
<1>8. [i \in DOMAIN types |-> Section(i)] = [i \in 1 .. 5 |-> SectionPart(c, short, i)]
  BY ONLY <1>3, <1>6
<1>9. QED
  BY ONLY <1>1, <1>3, <1>4, <1>5, <1>7, <1>8, Zenon DEF FileParts, FirstPart, FileHead

\* What a file holds where.
Carries(at, c, short) ==
  /\ Laid(at, 0, FileHead(c))
  /\ \A i \in 1 .. 5 :
       /\ Laid(at, 32 + (i - 1) * 32, TocRow(c, short, i))
       /\ Laid(at, 192 + Begin(c, i), SectionHead(c, short, i))
       /\ Laid(at, 192 + Begin(c, i) + 32, Bodies(c)[i])

\* The image of a file is as long as its parts and carries each at its place.
LEMMA ImageRead ==
  ASSUME NEW c, IsContents(c), NEW short \in 0 .. 5, NEW img, img = Image(WriteFile(c, short))
  PROVE  /\ img.len = 192 + Begin(c, 6)
         /\ \A o \in DOMAIN img.at : o \in Nat /\ o < img.len
         /\ Carries(img.at, c, short)
<1>1. PICK rows, t : rows = TocRows(c, short) /\ t = FlattenSeq(rows)
  BY Zenon
<1>2. rows = [i \in 1 .. 5 |-> TocRow(c, short, i)]
  BY ONLY <1>1, Zenon DEF TocRows
<1>3. \A i \in 1 .. 5 : TocRow(c, short, i) \in Written /\ SizeOf(TocRow(c, short, i)) = 32
  BY ONLY IsContents(c), short \in 0 .. 5, HeadsWritten
<1>4. t \in Written /\ SizeOf(t) = 160
      /\ \A at, o : o \in Nat /\ Laid(at, o, t) => \A i \in 1 .. 5 : Laid(at, o + (i - 1) * 32, rows[i])
  <2>1. PICK n, k : n = 5 /\ k = 32
    BY Zenon
  <2>2. n \in Nat /\ k \in Nat /\ n * k = 160
    BY ONLY <2>1
  <2>3. rows \in [1 .. n -> Written]
    BY ONLY <1>2, <1>3, <2>1
  <2>4. \A i \in 1 .. n : SizeOf(rows[i]) = k
    BY ONLY <1>2, <1>3, <2>1
  <2>5. /\ FlattenSeq(rows) \in Written /\ SizeOf(FlattenSeq(rows)) = n * k
        /\ \A at, o : o \in Nat /\ Laid(at, o, FlattenSeq(rows)) =>
             \A i \in 1 .. n : Laid(at, o + (i - 1) * k, rows[i])
    <3>1. n \in Nat
      BY ONLY <2>2
    <3>2. k \in Nat
      BY ONLY <2>2
    <3>3. QED
      BY ONLY <2>3, <2>4, <3>1, <3>2, EachWritten
  <2>6. SizeOf(t) = 160
    BY ONLY <1>1, <2>2, <2>5
  <2>7. t \in Written
    BY ONLY <1>1, <2>5, Zenon
  <2>8. \A at, o : o \in Nat /\ Laid(at, o, t) => \A i \in 1 .. n : Laid(at, o + (i - 1) * k, rows[i])
    BY ONLY <1>1, <2>5, Zenon
  <2>9. \A at, o : o \in Nat /\ Laid(at, o, t) => \A i \in 1 .. 5 : Laid(at, o + (i - 1) * 32, rows[i])
    BY ONLY <2>1, <2>8
  <2>10. QED
    BY ONLY <2>6, <2>7, <2>9
<1>5. PICK B, h, ps, w : /\ B = Bodies(c) /\ h = FileHead(c) /\ ps = FileParts(c, short) /\ w = Sizes(ps)
  BY Zenon
<1>6. h \in Written /\ SizeOf(h) = 32
  BY ONLY <1>5, IsContents(c), short \in 0 .. 5, HeadsWritten
<1>7. B \in [1 .. 5 -> Written]
  BY ONLY <1>5, IsContents(c), BodiesWritten, Zenon
<1>8. \A i \in 1 .. 5 : SectionHead(c, short, i) \in Written /\ SizeOf(SectionHead(c, short, i)) = 32
  BY ONLY IsContents(c), short \in 0 .. 5, HeadsWritten
<1>9. \A x, y : x \in Written /\ y \in Written => x \o y \in Written
  BY DEF Written
<1>10. \A x, y : x \in Written /\ y \in Written =>
          /\ SizeOf(x \o y) = SizeOf(x) + SizeOf(y)
          /\ \A at, o : o \in Nat /\ Laid(at, o, x \o y) => Laid(at, o, x) /\ Laid(at, o + SizeOf(x), y)
  <2>1. Written \subseteq Fields
    BY WrittenIsFields
  <2>2. \A x, y : x \in Written /\ y \in Written => SizeOf(x \o y) = SizeOf(x) + SizeOf(y)
    BY ONLY <2>1, ConcatFields
  <2>3. ASSUME NEW x \in Written, NEW y \in Written, NEW at, NEW o \in Nat, Laid(at, o, x \o y)
        PROVE  Laid(at, o, x) /\ Laid(at, o + SizeOf(x), y)
    <3>1. x \in Fields /\ y \in Fields
      BY ONLY <2>1, <2>3
    <3>2. x \in Fields
      BY ONLY <3>1
    <3>3. y \in Fields
      BY ONLY <3>1
    <3>4. Laid(at, o, x \o y)
      BY ONLY <2>3
    <3>5. QED
      BY ONLY <3>2, <3>3, <3>4, o \in Nat, LaidConcat
  <2>4. QED
    BY ONLY <2>2, <2>3, Zenon
<1>11. PICK p1, q : p1 = FirstPart(c, short) /\ q = [i \in 1 .. 5 |-> SectionPart(c, short, i)]
  BY Zenon
<1>12. p1 = h \o t
  BY ONLY <1>1, <1>5, <1>11, Zenon DEF FirstPart
<1>13. p1 \in Written /\ SizeOf(p1) = 192
  <2>1. p1 \in Written
    BY ONLY <1>4, <1>6, <1>9, <1>12, Zenon
  <2>2. SizeOf(p1) = SizeOf(h) + SizeOf(t)
    <3>1. h \in Written /\ t \in Written
      BY ONLY <1>4, <1>6, Zenon
    <3>2. \A x, y : x \in Written /\ y \in Written => SizeOf(x \o y) = SizeOf(x) + SizeOf(y)
      BY ONLY <1>10, Zenon
    <3>3. QED
      BY ONLY <1>12, <3>1, <3>2, Zenon
  <2>3. QED
    BY ONLY <1>4, <1>6, <2>1, <2>2
<1>14. ASSUME NEW i \in 1 .. 5
       PROVE  /\ q[i] = SectionHead(c, short, i) \o B[i] /\ q[i] \in Written
              /\ SizeOf(q[i]) = SizeOf(B[i]) + 32
  <2>1. PICK x, y : x = SectionHead(c, short, i) /\ y = B[i]
    BY Zenon
  <2>2. x \in Written /\ y \in Written
    BY ONLY <1>7, <1>8, <1>14, <2>1
  <2>3. q[i] = x \o y
    <3>1. q[i] = SectionPart(c, short, i)
      BY ONLY <1>11, <1>14, Zenon
    <3>2. QED
      BY ONLY <1>5, <2>1, <3>1, Zenon DEF SectionPart
  <2>4. SizeOf(q[i]) = SizeOf(x) + SizeOf(y) /\ q[i] \in Written
    BY ONLY <1>9, <1>10, <2>2, <2>3, Zenon
  <2>5. SizeOf(x) = 32
    BY ONLY <1>8, <1>14, <2>1
  <2>6. SizeOf(y) \in Nat
    BY ONLY <2>2, WrittenIsFields, FieldsDef
  <2>7. SizeOf(q[i]) = SizeOf(y) + 32
    BY ONLY <2>4, <2>5, <2>6
  <2>8. QED
    BY ONLY <2>1, <2>3, <2>4, <2>7, Zenon
<1>15. ps \in [1 .. 6 -> Written] /\ ps[1] = p1 /\ \A i \in 1 .. 5 : ps[i + 1] = q[i]
  <2>1. ps = <<p1>> \o q
    BY ONLY <1>5, <1>11, Zenon DEF FileParts
  <2>2. PICK W : W = Written
    OBVIOUS
  <2>3. q \in [1 .. 5 -> W]
    <3>1. DOMAIN q = 1 .. 5 /\ q = [i \in 1 .. 5 |-> q[i]]
      BY ONLY <1>11
    <3>2. \A i \in 1 .. 5 : q[i] \in W
      BY ONLY <1>14, <2>2, Zenon
    <3>3. QED
      BY ONLY <3>1, <3>2
  <2>4. q \in Seq(W) /\ Len(q) = 5
    <3>1. PICK n : n = 5
      OBVIOUS
    <3>2. n \in Nat /\ q \in [1 .. n -> W]
      BY ONLY <2>3, <3>1
    <3>3. q \in Seq(W) /\ Len(q) = n
      BY ONLY <3>2
    <3>4. QED
      BY ONLY <3>1, <3>3
  <2>5. PICK s : s = <<p1>>
    OBVIOUS
  <2>6. s \in Seq(W) /\ Len(s) = 1 /\ s[1] = p1
    BY ONLY <1>13, <2>2, <2>5
  <2>7. ps = s \o q
    BY ONLY <2>1, <2>5, Zenon
  <2>8. ps \in [1 .. 6 -> W] /\ ps[1] = p1 /\ \A i \in 1 .. 5 : ps[i + 1] = q[i]
    <3>1. PICK a, b : a = 1 /\ b = 5
      OBVIOUS
    <3>2. a = 1 /\ b = 5 /\ a \in Nat /\ b \in Nat
      BY ONLY <3>1
    <3>3. Behind(W, a, b, s, q, ps)
      <4>1. s \in [1 .. a -> W]
        BY ONLY <2>6, <3>2
      <4>2. q \in [1 .. b -> W]
        BY ONLY <2>3, <3>2
      <4>3. a \in Nat
        BY ONLY <3>2
      <4>4. b \in Nat
        BY ONLY <3>2
      <4>5. QED
        BY ONLY <2>7, <4>1, <4>2, <4>3, <4>4, CatRows
    <3>4. /\ ps \in [1 .. a + b -> W] /\ Len(ps) = a + b
          /\ \A i \in 1 .. a : ps[i] = s[i]
          /\ \A i \in 1 .. b : ps[a + i] = q[i]
      BY ONLY <3>3, Zenon DEF Behind
    <3>5. ps[1] = p1
      BY ONLY <2>6, <3>2, <3>4
    <3>6. ASSUME NEW i \in 1 .. 5 PROVE ps[i + 1] = q[i]
      BY ONLY <3>2, <3>4, <3>6
    <3>7. ps \in [1 .. 6 -> W]
      BY ONLY <3>2, <3>4
    <3>8. QED
      BY ONLY <3>5, <3>6, <3>7
  <2>9. QED
    BY ONLY <2>2, <2>8
<1>16. /\ w \in [1 .. 6 -> Nat] /\ w[1] = 192 /\ \A i \in 1 .. 5 : w[i + 1] = SizeOf(B[i]) + 32
       /\ img.len = Sums(w)[6] /\ \A o \in DOMAIN img.at : o \in Nat /\ o < img.len
       /\ \A p \in 1 .. 6 : Laid(img.at, Sums(w)[p - 1], ps[p])
  <2>1. PICK n : n = 6
    OBVIOUS
  <2>2. n \in Nat
    BY ONLY <2>1
  <2>3. ps \in [1 .. n -> Written]
    BY ONLY <1>15, <2>1
  <2>4. /\ Sizes(ps) \in [1 .. n -> Nat] /\ Image(ps).len = Sums(Sizes(ps))[n]
        /\ \A o \in DOMAIN Image(ps).at : o \in Nat /\ o < Image(ps).len
        /\ \A p \in 1 .. n : Laid(Image(ps).at, Sums(Sizes(ps))[p - 1], ps[p])
    BY ONLY <2>2, <2>3, ImageDef
  <2>5. img = Image(ps)
    BY ONLY <1>5, img = Image(WriteFile(c, short)), WriteFileIs, Zenon
  <2>6. w = [i \in DOMAIN ps |-> SizeOf(ps[i])] /\ DOMAIN ps = 1 .. 6
    <3>1. DOMAIN ps = 1 .. 6
      BY ONLY <1>15
    <3>2. QED
      BY ONLY <1>5, <3>1, Zenon DEF Sizes
  <2>7. \A i \in 1 .. 6 : w[i] = SizeOf(ps[i])
    BY ONLY <2>6
  <2>8. w[1] = 192
    BY ONLY <1>13, <1>15, <2>7
  <2>9. ASSUME NEW i \in 1 .. 5 PROVE w[i + 1] = SizeOf(B[i]) + 32
    <3>1. i + 1 \in 1 .. 6
      BY ONLY <2>9
    <3>2. QED
      BY ONLY <1>14, <1>15, <2>7, <2>9, <3>1
  <2>10. QED
    BY ONLY <1>5, <2>1, <2>4, <2>5, <2>8, <2>9
<1>17. PICK s : s = Sums(w)
  OBVIOUS
<1>18. /\ Begin(c, 1) = 0
       /\ \A i \in 1 .. 5 : SizeOf(B[i]) \in Nat /\ Begin(c, i + 1) = Begin(c, i) + SizeOf(B[i]) + 32
       /\ \A i \in 1 .. 6 : Begin(c, i) \in Nat
  <2>1. /\ Begin(c, 1) = 0
        /\ \A i \in 1 .. 5 : SizeOf(Bodies(c)[i]) \in Nat
                             /\ Begin(c, i + 1) = Begin(c, i) + SizeOf(Bodies(c)[i]) + 32
        /\ \A i \in 1 .. 6 : Begin(c, i) \in Nat
    BY ONLY IsContents(c), BeginDef
  <2>2. QED
    BY ONLY <1>5, <2>1, Zenon
<1>19. s[0] = 0 /\ s \in [0 .. 6 -> Int] /\ \A i \in 1 .. 6 : s[i] = s[i - 1] + w[i]
  <2>1. PICK n : n = 6
    OBVIOUS
  <2>2. n \in Nat /\ w \in [1 .. n -> Int]
    BY ONLY <1>16, <2>1
  <2>3. n \in Nat
    BY <2>2
  <2>4. w \in [1 .. n -> Int]
    BY <2>2
  <2>5. Sums(w) \in [0 .. n -> Int] /\ Sums(w)[0] = 0 /\ \A i \in 1 .. n : Sums(w)[i] = Sums(w)[i - 1] + w[i]
    BY ONLY <2>3, <2>4, SumsDef
  <2>6. QED
    BY ONLY <1>17, <2>1, <2>5, Zenon
<1>20. \A i \in 1 .. 6 : s[i] = 192 + Begin(c, i)
  <2>1. s[1] = 192 + Begin(c, 1)
    BY ONLY <1>16, <1>18, <1>19
  <2>2. ASSUME NEW i \in 1 .. 5, s[i] = 192 + Begin(c, i) PROVE s[i + 1] = 192 + Begin(c, i + 1)
    <3>1. i + 1 \in 1 .. 6 /\ (i + 1) - 1 = i /\ i \in 1 .. 6
      BY ONLY <2>2
    <3>2. s[i + 1] = s[i] + w[i + 1]
      BY ONLY <1>19, <3>1
    <3>3. w[i + 1] = SizeOf(B[i]) + 32 /\ Begin(c, i + 1) = Begin(c, i) + SizeOf(B[i]) + 32
          /\ SizeOf(B[i]) \in Nat /\ Begin(c, i) \in Nat
      BY ONLY <1>16, <1>18, <2>2, <3>1
    <3>4. QED
      BY ONLY <2>2, <3>2, <3>3
  <2>3. s[2] = 192 + Begin(c, 2)
    BY ONLY <2>1, <2>2
  <2>4. s[3] = 192 + Begin(c, 3)
    BY ONLY <2>3, <2>2
  <2>5. s[4] = 192 + Begin(c, 4)
    BY ONLY <2>4, <2>2
  <2>6. s[5] = 192 + Begin(c, 5)
    BY ONLY <2>5, <2>2
  <2>7. s[6] = 192 + Begin(c, 6)
    BY ONLY <2>6, <2>2
  <2>8. QED
    BY ONLY <2>1, <2>3, <2>4, <2>5, <2>6, <2>7
<1>21. PICK I, k : I = img.at /\ k = 32
  OBVIOUS
<1>22. k \in Nat /\ SizeOf(h) = k
  BY ONLY <1>6, <1>21
<1>23. Laid(I, 0, h) /\ Laid(I, k, t)
  <2>1. PICK z : z = 0
    OBVIOUS
  <2>2. z \in Nat /\ z + k = k /\ 1 \in 1 .. 6 /\ 1 - 1 = z
    BY ONLY <1>21, <2>1
  <2>3. Laid(img.at, Sums(w)[1 - 1], ps[1])
    BY ONLY <1>16, <2>2
  <2>4. Sums(w)[1 - 1] = z
    BY ONLY <1>17, <1>19, <2>1, <2>2
  <2>5. ps[1] = h \o t
    BY ONLY <1>12, <1>15
  <2>6. Laid(I, z, h \o t)
    BY ONLY <1>21, <2>3, <2>4, <2>5, Zenon
  <2>7. Laid(I, z, h) /\ Laid(I, z + k, t)
    BY ONLY <1>4, <1>6, <1>10, <1>22, <2>2, <2>6, Zenon
  <2>8. QED
    BY ONLY <2>1, <2>2, <2>7
<1>24. ASSUME NEW i \in 1 .. 5 PROVE Laid(I, 32 + (i - 1) * 32, TocRow(c, short, i))
  <2>1. Laid(I, k + (i - 1) * 32, rows[i])
    BY ONLY <1>4, <1>22, <1>23, <1>24
  <2>2. rows[i] = TocRow(c, short, i)
    BY ONLY <1>2, <1>24
  <2>3. k + (i - 1) * 32 = 32 + (i - 1) * 32
    BY ONLY <1>21
  <2>4. QED
    BY ONLY <2>1, <2>2, <2>3
<1>25. ASSUME NEW i \in 1 .. 5
       PROVE  /\ Laid(I, 192 + Begin(c, i), SectionHead(c, short, i))
              /\ Laid(I, 192 + Begin(c, i) + 32, B[i])
  <2>1. PICK p, o, x : p = i + 1 /\ o = 192 + Begin(c, i) /\ x = SectionHead(c, short, i)
    BY Zenon
  <2>2. p \in 1 .. 6 /\ p - 1 = i /\ i \in 1 .. 6
    BY ONLY <1>25, <2>1
  <2>3. Laid(I, Sums(w)[i], ps[p])
    BY ONLY <1>16, <1>21, <2>2
  <2>4. Sums(w)[i] = o
    BY ONLY <1>17, <1>20, <2>1, <2>2
  <2>5. o \in Nat
    BY ONLY <1>18, <2>1, <2>2
  <2>6. ps[p] = x \o B[i]
    BY ONLY <1>14, <1>15, <1>25, <2>1
  <2>7. x \in Written /\ B[i] \in Written /\ SizeOf(x) = k
    BY ONLY <1>7, <1>8, <1>21, <1>25, <2>1
  <2>8. Laid(I, o, x) /\ Laid(I, o + k, B[i])
    BY ONLY <1>10, <2>3, <2>4, <2>5, <2>6, <2>7, Zenon
  <2>9. QED
    BY ONLY <1>21, <2>1, <2>8
<1>26. img.len = 192 + Begin(c, 6)
  BY ONLY <1>16, <1>17, <1>20
<1>27. Carries(img.at, c, short)
  BY ONLY <1>5, <1>21, <1>23, <1>24, <1>25 DEF Carries
<1>28. QED
  BY ONLY <1>16, <1>26, <1>27

-----------------------------------------------------------------------------
\* The inductive invariant, and that every step keeps it.

\* The inductive invariant, by phases.
Content == Contents[file.of]

FileIsWritten ==
  /\ file.of \in DOMAIN Contents /\ file.short \in 0 .. 5
  /\ Carries(file.at, Content, file.short)
  /\ file.whole = 192 + Begin(Content, 6)
  /\ file.len \in Nat /\ file.len <= file.whole
  /\ file.short = 0 \/ file.len = file.whole

IsToc(c, t) ==
  /\ DOMAIN t = 1 .. 5
  /\ \A i \in 1 .. 5 : /\ t[i].section_type = KindsOf(c)[i]
                       /\ t[i].section_offset = Begin(c, i)
TocIsRead == IsToc(Content, toc)

Slice(c, short, i) == SizeOf(Bodies(c)[i]) - (IF i = short THEN 1 ELSE 0)
IsSliced(c, short, len, d) ==
  /\ DOMAIN d = 1 .. 5
  /\ \A i \in 1 .. 5 : /\ d[i].base = 192 + Begin(c, i) + 32 /\ d[i].len = Slice(c, short, i)
                       /\ d[i].len \in Nat /\ d[i].base + d[i].len <= len
DataIsSliced == IsSliced(Content, file.short, file.len, data)

\* The sections in the order they are built, and the index after k of them.
Queue == << <<"schema", 1>>, <<"decisions", 2>>, <<"data items", 4>>, <<"map", 3>> >>

IndexAfter(c, k) ==
  [primary |-> PrimaryOf(c),
   resource_maps        |-> IF k >= 4 THEN Insert(Nothing, 3, MapOf(c)) ELSE Nothing,
   hierarchical_schemas |-> IF k >= 1 THEN Insert(Nothing, 1, SchemaOf(c)) ELSE Nothing,
   decision_infos       |-> IF k >= 2 THEN Insert(Nothing, 2, c.decisions) ELSE Nothing,
   data_item_sections   |-> IF k >= 3 THEN Insert(Nothing, 4, DataItemsOf(c)) ELSE Nothing]

Stage(k) ==
  /\ pending = SubSeq(Queue, k + 1, 4)
  /\ index = IndexAfter(Content, k)
  /\ file.short # 1 /\ \A j \in 1 .. k : file.short # Queue[j][2] + 1

Unbuilt ==
  [primary |-> NoIndex, resource_maps |-> Nothing, hierarchical_schemas |-> Nothing,
   decision_infos |-> Nothing, data_item_sections |-> Nothing]

Answered ==
  \E path \in Paths, ctx \in Contexts :
    asked = [path |-> path, ctx |-> ctx, answer |-> Resolve(index, path, ctx),
             explain |-> Explain(index, path, ctx)]

SectionKinds == {"schema", "decisions", "data items", "map"}
Phases == {"read", "header", "sections", "descriptor", "build", "ready", "failed"}

\* What is known in each phase of Pri::read: what has been read so far is what
\* was written, and what has been built of the index is what the contents say.
\* That the index is whole when nothing is pending (Stage(4)) is the part the
\* checked properties need and do not say.
IInv ==
  /\ phase \in Phases
  /\ FileIsWritten
  /\ toc = <<>> \/ TocIsRead
  /\ data = <<>> \/ DataIsSliced
  /\ \A i \in DOMAIN pending : pending[i][1] \in SectionKinds
  /\ phase \in {"sections", "descriptor", "build", "ready"} => TocIsRead
  /\ phase \in {"descriptor", "build", "ready"} => DataIsSliced
  /\ phase \in {"read", "header", "sections", "descriptor"} => index = Unbuilt
  /\ phase = "build" => \E k \in 0 .. 4 : Stage(k)
  /\ phase = "ready" => Stage(4)
  /\ asked = Unasked \/ (phase = "ready" /\ Answered)

\* The header of a written file, and the table of contents it points at.
LEMMA HeaderRead ==
  ASSUME NEW c, IsContents(c), NEW short \in 0 .. 5, Carries(file.at, c, short)
  PROVE  /\ Get(ResourceHeader, 0).table_of_contents_offset = 32
         /\ Get(ResourceHeader, 0).first_section_offset = 192
         /\ Get(ResourceHeader, 0).number_of_sections = 5
         /\ IsToc(c, Rows(TableOfContentsEntry, 32, 5))
<1>1. PICK at, h, z : at = file.at /\ h = FileHead(c) /\ z = 0
  OBVIOUS
<1>2. /\ Laid(at, z, h)
      /\ \A i \in 1 .. 5 : Laid(at, 32 + (i - 1) * 32, TocRow(c, short, i))
  BY ONLY <1>1, Carries(file.at, c, short), Zenon DEF Carries
<1>3. /\ h \in Written /\ Widths(h) = <<8, 2, 2, 4, 4, 4, 2, 2, 4>>
      /\ h[5][1] = 32 /\ h[6][1] = 192 /\ h[7][1] = 5
  BY ONLY <1>1, IsContents(c), short \in 0 .. 5, HeadsWritten
<1>4. z \in Nat
  BY ONLY <1>1
<1>5. /\ Get(ResourceHeader, z).table_of_contents_offset = h[5][1]
      /\ Get(ResourceHeader, z).first_section_offset = h[6][1]
      /\ Get(ResourceHeader, z).number_of_sections = h[7][1]
  <2>1. h \in Written
    BY ONLY <1>3
  <2>2. Widths(h) = <<8, 2, 2, 4, 4, 4, 2, 2, 4>>
    BY ONLY <1>3
  <2>3. Laid(file.at, z, h)
    BY ONLY <1>1, <1>2, Zenon
  <2>4. QED
    BY ONLY <1>4, <2>1, <2>2, <2>3, ResourceHeaderRead
<1>6. ASSUME NEW i \in 1 .. 5
      PROVE  /\ Get(TableOfContentsEntry, 32 + (i - 1) * TableOfContentsEntry.size).section_type = KindsOf(c)[i]
             /\ Get(TableOfContentsEntry, 32 + (i - 1) * TableOfContentsEntry.size).section_offset = Begin(c, i)
  <2>1. PICK s, o : s = TocRow(c, short, i) /\ o = 32 + (i - 1) * 32
    OBVIOUS
  <2>2. /\ s \in Written /\ Widths(s) = <<16, 2, 2, 4, 4, 4>>
        /\ s[1][1] = KindsOf(c)[i] /\ s[5][1] = Begin(c, i)
    <3>1. /\ TocRow(c, short, i) \in Written /\ Widths(TocRow(c, short, i)) = <<16, 2, 2, 4, 4, 4>>
          /\ TocRow(c, short, i)[1][1] = KindsOf(c)[i] /\ TocRow(c, short, i)[5][1] = Begin(c, i)
      <4>1. TocRow(c, short, i) \in Written /\ Widths(TocRow(c, short, i)) = <<16, 2, 2, 4, 4, 4>>
        BY ONLY <1>6, IsContents(c), short \in 0 .. 5, HeadsWritten
      <4>2. TocRow(c, short, i)[1][1] = KindsOf(c)[i] /\ TocRow(c, short, i)[5][1] = Begin(c, i)
        <5>1. PICK k, g, d : k = KindsOf(c)[i] /\ g = Begin(c, i) /\ d = Declares(c, short, i)
          BY Zenon
        <5>2. TocRow(c, short, i) = << <<k, 16>>, <<0, 2>>, <<0, 2>>, <<0, 4>>, <<g, 4>>, <<d, 4>> >>
          BY ONLY <5>1, Zenon DEF TocRow
        <5>3. TocRow(c, short, i)[1][1] = k /\ TocRow(c, short, i)[5][1] = g
          BY ONLY <5>2
        <5>4. QED
          BY ONLY <5>1, <5>3, Zenon
      <4>3. QED
        BY ONLY <4>1, <4>2, Zenon
    <3>2. QED
      BY ONLY <2>1, <3>1, Zenon
  <2>3. s \in Written
    BY ONLY <2>2
  <2>4. Widths(s) = <<16, 2, 2, 4, 4, 4>>
    BY ONLY <2>2
  <2>5. o \in Nat
    BY ONLY <1>6, <2>1
  <2>6. Laid(file.at, o, s)
    BY ONLY <1>1, <1>2, <1>6, <2>1, Zenon
  <2>7. Get(TableOfContentsEntry, o).section_type = s[1][1] /\ Get(TableOfContentsEntry, o).section_offset = s[5][1]
    BY ONLY <2>3, <2>4, <2>5, <2>6, TableOfContentsEntryRead
  <2>8. 32 + (i - 1) * TableOfContentsEntry.size = o
    <3>1. TableOfContentsEntry.size = 32
      BY ONLY RecordSizes
    <3>2. QED
      BY ONLY <2>1, <3>1, Zenon
  <2>9. QED
    BY ONLY <2>2, <2>7, <2>8, Zenon
<1>7. PICK t : t = Rows(TableOfContentsEntry, 32, 5)
  OBVIOUS
<1>8. t = [i \in 1 .. 5 |-> Get(TableOfContentsEntry, 32 + (i - 1) * TableOfContentsEntry.size)]
  BY ONLY <1>7, Zenon DEF Rows
<1>9. DOMAIN t = 1 .. 5
  BY ONLY <1>8, Zenon
<1>10. \A i \in 1 .. 5 : t[i].section_type = KindsOf(c)[i] /\ t[i].section_offset = Begin(c, i)
  BY ONLY <1>6, <1>8, Zenon
<1>11. QED
  <2>1. IsToc(c, t)
    BY ONLY <1>9, <1>10, Zenon DEF IsToc
  <2>2. Get(ResourceHeader, 0).table_of_contents_offset = 32
    BY ONLY <1>1, <1>3, <1>5, Zenon
  <2>3. Get(ResourceHeader, 0).first_section_offset = 192
    BY ONLY <1>1, <1>3, <1>5, Zenon
  <2>4. Get(ResourceHeader, 0).number_of_sections = 5
    BY ONLY <1>1, <1>3, <1>5, Zenon
  <2>5. QED
    BY ONLY <1>7, <2>1, <2>2, <2>3, <2>4, Zenon

\* A section of a written file, as its own header bounds it.
LEMMA SliceRead ==
  ASSUME NEW c, IsContents(c), NEW short \in 0 .. 5, Carries(file.at, c, short), file.len \in Nat,
         NEW i \in 1 .. 5, NEW entry, entry.section_offset = Begin(c, i), SectionData(entry) # <<>>
  PROVE  LET range == SectionData(entry)[1]
         IN  /\ range.base = 192 + Begin(c, i) + 32 /\ range.len = Slice(c, short, i)
             /\ range.len \in Nat /\ range.base + range.len <= file.len
<1> DEFINE
      at     == Get(ResourceHeader, 0).first_section_offset + entry.section_offset
      length == Get(SectionHeader, at).section_length - SectionHeader.size - SectionFooter.size
      start  == at + SectionHeader.size
      ok     == /\ Fits(Buffer, at, SectionHeader.size) /\ length >= 0
                /\ Fits(Buffer, start, length)
      range  == [base |-> start, len |-> length]
<1>1. SectionData(entry) = Built(ok, range)
  BY ONLY Zenon DEF SectionData
<1>2. at = 192 + Begin(c, i)
  BY ONLY IsContents(c), short \in 0 .. 5, Carries(file.at, c, short), HeaderRead,
          entry.section_offset = Begin(c, i), Zenon
<1>3. start = 192 + Begin(c, i) + 32
  <2>1. SectionHeader.size = 32
    BY ONLY RecordSizes
  <2>2. QED
    BY ONLY <1>2, <2>1, Zenon
<1>4. Begin(c, i) \in Nat /\ SizeOf(Bodies(c)[i]) \in Nat
  <2>1. i \in 1 .. 6
    OBVIOUS
  <2>2. QED
    BY ONLY <2>1, i \in 1 .. 5, IsContents(c), BeginDef
<1>5. Get(SectionHeader, at).section_length = Declares(c, short, i)
  <2>1. PICK s, o : s = SectionHead(c, short, i) /\ o = at
    OBVIOUS
  <2>2. s \in Written /\ Widths(s) = <<16, 4, 2, 2, 4, 4>> /\ s[5][1] = Declares(c, short, i)
    BY ONLY <2>1, i \in 1 .. 5, IsContents(c), short \in 0 .. 5, HeadsWritten
  <2>3. s \in Written
    BY ONLY <2>2
  <2>4. Widths(s) = <<16, 4, 2, 2, 4, 4>>
    BY ONLY <2>2
  <2>5. o \in Nat
    BY ONLY <1>2, <1>4, <2>1
  <2>6. Laid(file.at, o, s)
    BY ONLY <1>2, <2>1, i \in 1 .. 5, Carries(file.at, c, short), Zenon DEF Carries
  <2>7. Get(SectionHeader, o).section_length = s[5][1]
    BY ONLY <2>3, <2>4, <2>5, <2>6, SectionHeaderRead
  <2>8. QED
    BY ONLY <2>1, <2>2, <2>7, Zenon
<1>6. length = Slice(c, short, i)
  <2>1. SectionHeader.size = 32 /\ SectionFooter.size = 8
    BY ONLY RecordSizes
  <2>2. PICK d, n, l : d = Declares(c, short, i) /\ n = SizeOf(Bodies(c)[i]) /\ l = length
    OBVIOUS
  <2>3. l = d - 32 - 8
    BY ONLY <1>5, <2>1, <2>2, Zenon
  <2>4. d = n + 32 + 8 - (IF i = short THEN 1 ELSE 0)
    BY ONLY <2>2, Zenon DEF Declares
  <2>5. Slice(c, short, i) = n - (IF i = short THEN 1 ELSE 0)
    BY ONLY <2>2, Zenon DEF Slice
  <2>6. n \in Nat
    BY ONLY <1>4, <2>2
  <2>7. QED
    BY ONLY <2>2, <2>3, <2>4, <2>5, <2>6
<1>7. Slice(c, short, i) \in Int
  <2>1. PICK n : n = SizeOf(Bodies(c)[i])
    OBVIOUS
  <2>2. Slice(c, short, i) = n - (IF i = short THEN 1 ELSE 0) /\ n \in Nat
    BY ONLY <1>4, <2>1 DEF Slice
  <2>3. QED
    BY ONLY <2>2
<1>8. ok
  BY ONLY <1>1, SectionData(entry) # <<>>, Zenon DEF Built
<1>9. SectionData(entry)[1] = range
  <2>1. PICK r : r = range
    OBVIOUS
  <2>2. SectionData(entry) = <<r>>
    BY ONLY <1>1, <1>8, <2>1, Zenon DEF Built
  <2>3. SectionData(entry)[1] = r
    BY ONLY <2>2
  <2>4. QED
    BY ONLY <2>1, <2>3, Zenon
<1>10. range.base = start /\ range.len = length
  BY ONLY Zenon
<1>11. length >= 0 /\ start + length <= file.len
  <2>1. length >= 0 /\ Fits(Buffer, start, length)
    BY ONLY <1>8, Zenon
  <2>2. Fits(Buffer, start, length) <=> start + length <= Buffer.len
    BY ONLY Zenon DEF Fits
  <2>3. Buffer.len = file.len
    BY ONLY Zenon DEF Buffer
  <2>4. QED
    BY ONLY <2>1, <2>2, <2>3, Zenon
<1> HIDE DEF at, length, start, ok, range
<1>12. length \in Nat
  BY ONLY <1>6, <1>7, <1>11
<1>13. QED
  BY ONLY <1>3, <1>6, <1>9, <1>10, <1>11, <1>12, Zenon

\* The descriptor of a written file: the one section of its type, and the
\* indices of the others in the order they are built.
LEMMA DescriptorFound ==
  ASSUME NEW c, NEW t, IsToc(c, t)
  PROVE  {i \in DOMAIN t : t[i].section_type = "Descriptor"} = {1} /\ Min({1}) = 1
<1>1. KindsOf(c)[1] = "Descriptor" /\ \A i \in 2 .. 5 : KindsOf(c)[i] # "Descriptor"
  <2>1. PICK d, s, e, m, r, x : /\ d = "Descriptor" /\ s = "HierarchicalSchema" /\ e = "HierarchicalSchemaEx"
                                /\ m = "DecisionInfo" /\ r = "ResourceMap" /\ x = "DataItem"
    BY Zenon
  <2>2. d # s /\ d # e /\ d # m /\ d # r /\ d # x
    BY ONLY <2>1
  <2>3. PICK b, h, k : b = c.extended /\ h = (IF b THEN e ELSE s) /\ k = KindsOf(c)
    BY Zenon
  <2>4. k = <<d, h, m, r, x>>
    BY ONLY <2>1, <2>3, Zenon DEF KindsOf
  <2>5. d # h
    BY ONLY <2>2, <2>3
  <2>6. k[1] = d /\ k[2] = h /\ k[3] = m /\ k[4] = r /\ k[5] = x
    BY ONLY <2>4
  <2>7. \A i \in 2 .. 5 : i = 2 \/ i = 3 \/ i = 4 \/ i = 5
    OBVIOUS
  <2>8. \A i \in 2 .. 5 : k[i] # d
    BY ONLY <2>2, <2>5, <2>6, <2>7
  <2>9. QED
    BY ONLY <2>1, <2>3, <2>6, <2>8, Zenon
<1>2. PICK d : d = "Descriptor"
  BY Zenon
<1>3. DOMAIN t = 1 .. 5 /\ \A i \in 1 .. 5 : t[i].section_type = KindsOf(c)[i]
  BY ONLY IsToc(c, t), Zenon DEF IsToc
<1>4. \A i \in 1 .. 5 : i = 1 \/ i \in 2 .. 5
  OBVIOUS
<1>5. \A i \in 1 .. 5 : t[i].section_type = d <=> i = 1
  BY ONLY <1>1, <1>2, <1>3, <1>4, Zenon
<1>6. {i \in DOMAIN t : t[i].section_type = d} = {1}
  BY ONLY <1>3, <1>5
<1>7. Min({1}) = 1
  BY DEF Min
<1>8. QED
  BY ONLY <1>2, <1>6, <1>7, Zenon

\* The counts and the sections read of a descriptor.
LEMMA DescriptorRead ==
  ASSUME NEW c, NEW b \in Nat, Laid(file.at, b, WriteDescriptor(c))
  PROVE  /\ Get(PriDescriptor, b).hierarchical_schema_count = 1
         /\ Get(PriDescriptor, b).decision_info_count = 1
         /\ Get(PriDescriptor, b).resource_map_count = 1
         /\ Get(PriDescriptor, b).primary_resource_map_index = PrimaryOf(c)
         /\ Get(PriDescriptor, b).referenced_file_sections_count = 0
         /\ Get(PriDescriptor, b).data_item_section_count = 1
         /\ Field(b + 20, 2) = 1 /\ Field(b + 22, 2) = 2
         /\ Field(b + 24, 2) = 3 /\ Field(b + 26, 2) = 4
<1>1. PICK at, s : at = file.at /\ s = DescriptorCounts(c)
  OBVIOUS
<1>2. Laid(at, b, s) /\ \A i \in 1 .. 4 : b + 20 + 2 * (i - 1) \in DOMAIN at
                                           /\ at[b + 20 + 2 * (i - 1)] = <<i, 2>>
  <2>1. Laid(at, b, WriteDescriptor(c))
    BY ONLY <1>1, Laid(file.at, b, WriteDescriptor(c)), Zenon
  <2>2. Laid(at, b, DescriptorCounts(c))
        /\ \A i \in 1 .. 4 : b + 20 + 2 * (i - 1) \in DOMAIN at
                             /\ at[b + 20 + 2 * (i - 1)] = <<i, 2>>
    BY ONLY <2>1, b \in Nat, DescriptorWritten
  <2>3. QED
    BY ONLY <1>1, <2>2, Zenon
<1>3. s \in Written /\ Widths(s) = <<2, 2, 2, 2, 2, 2, 2, 2, 2, 2>> /\ s[7][1] = PrimaryOf(c)
  BY ONLY <1>1, DescriptorWritten, Zenon
<1>4. s[4][1] = 1 /\ s[5][1] = 1 /\ s[6][1] = 1 /\ s[8][1] = 0 /\ s[9][1] = 1
  <2>1. PICK p, no : p = PrimaryOf(c) /\ no = NoSection
    OBVIOUS
  <2>2. s = << <<0, 2>>, <<no, 2>>, <<0, 2>>, <<1, 2>>, <<1, 2>>, <<1, 2>>, <<p, 2>>,
               <<0, 2>>, <<1, 2>>, <<0, 2>> >>
    BY ONLY <1>1, <2>1, Zenon DEF DescriptorCounts
  <2>3. QED
    BY ONLY <2>2
<1>5. /\ Get(PriDescriptor, b).hierarchical_schema_count = s[4][1]
      /\ Get(PriDescriptor, b).decision_info_count = s[5][1]
      /\ Get(PriDescriptor, b).resource_map_count = s[6][1]
      /\ Get(PriDescriptor, b).primary_resource_map_index = s[7][1]
      /\ Get(PriDescriptor, b).referenced_file_sections_count = s[8][1]
      /\ Get(PriDescriptor, b).data_item_section_count = s[9][1]
  <2>1. s \in Written
    BY ONLY <1>3
  <2>2. Widths(s) = <<2, 2, 2, 2, 2, 2, 2, 2, 2, 2>>
    BY ONLY <1>3
  <2>3. Laid(file.at, b, s)
    BY ONLY <1>1, <1>2, Zenon
  <2>4. QED
    BY ONLY <2>1, <2>2, <2>3, b \in Nat, PriDescriptorRead
<1>6. ASSUME NEW i \in 1 .. 4, NEW o, o = b + 20 + 2 * (i - 1) PROVE Field(o, 2) = i
  <2>1. o \in DOMAIN at /\ at[o] = <<i, 2>>
    BY ONLY <1>2, <1>6
  <2>2. PICK r : r = at[o]
    OBVIOUS
  <2>3. r[1] = i /\ r[2] = 2
    BY ONLY <2>1, <2>2
  <2>4. Field(o, 2) = IF o \in DOMAIN at /\ r[2] = 2 THEN r[1] ELSE -1
    BY ONLY <1>1, <2>2, Zenon DEF Field
  <2>5. QED
    BY ONLY <2>1, <2>3, <2>4, Zenon
<1>7. /\ Field(b + 20, 2) = 1 /\ Field(b + 22, 2) = 2
      /\ Field(b + 24, 2) = 3 /\ Field(b + 26, 2) = 4
  <2>1. /\ 1 \in 1 .. 4 /\ 2 \in 1 .. 4 /\ 3 \in 1 .. 4 /\ 4 \in 1 .. 4
        /\ b + 20 = b + 20 + 2 * (1 - 1) /\ b + 22 = b + 20 + 2 * (2 - 1)
        /\ b + 24 = b + 20 + 2 * (3 - 1) /\ b + 26 = b + 20 + 2 * (4 - 1)
    BY ONLY b \in Nat
  <2>2. QED
    BY ONLY <1>6, <2>1
<1>8. QED
  BY ONLY <1>3, <1>4, <1>5, <1>7, Zenon

\* Where the lists of the descriptor end.
LEMMA ListEnds ==
  ASSUME NEW w, w = <<1, 1, 1, 0, 1>>
  PROVE  /\ Len(w) = 5 /\ TotalOf(SubSeq(w, 1, 0)) = 0 /\ TotalOf(SubSeq(w, 1, 1)) = 1
         /\ TotalOf(SubSeq(w, 1, 2)) = 2 /\ TotalOf(SubSeq(w, 1, 3)) = 3
         /\ TotalOf(SubSeq(w, 1, 4)) = 3 /\ TotalOf(SubSeq(w, 1, 5)) = 4
<1>1. PICK n : n = 5
  OBVIOUS
<1>2. n \in Nat /\ w \in [1 .. n -> Int] /\ Len(w) = 5
  BY ONLY <1>1, w = <<1, 1, 1, 0, 1>>
<1>3. \A k \in 0 .. n : TotalOf(SubSeq(w, 1, k)) = Sums(w)[k]
  BY ONLY <1>2, TotalOfFront
<1>4. Numbers(n, w)
  BY ONLY <1>2 DEF Numbers
<1>5. n >= 1 /\ n >= 2 /\ n >= 3 /\ n >= 4 /\ n >= 5
  BY ONLY <1>1
<1>6. Sums(w)[0] = 0
  BY ONLY <1>2, SumsDef
<1>7. /\ Sums(w)[1] = w[1] /\ Sums(w)[2] = w[1] + w[2] /\ Sums(w)[3] = w[1] + w[2] + w[3]
      /\ Sums(w)[4] = w[1] + w[2] + w[3] + w[4] /\ Sums(w)[5] = w[1] + w[2] + w[3] + w[4] + w[5]
  BY ONLY <1>4, <1>5, SumsOfFew
<1>8. w[1] = 1 /\ w[2] = 1 /\ w[3] = 1 /\ w[4] = 0 /\ w[5] = 1
  BY ONLY w = <<1, 1, 1, 0, 1>>
<1>9. \A k \in 0 .. 5 : k \in 0 .. n
  BY ONLY <1>1
<1>10. QED
  BY ONLY <1>2, <1>3, <1>6, <1>7, <1>8, <1>9

\* A section that is not the short one fits, and the short one does not.
LEMMA FitsUnlessShort ==
  ASSUME NEW c, IsContents(c), NEW short, NEW len, NEW d, IsSliced(c, short, len, d), NEW i \in 1 .. 5
  PROVE  d[i].base \in Nat /\ (Fits(d[i], 0, SizeOf(Bodies(c)[i])) <=> short # i)
<1>1. PICK n, b : n = SizeOf(Bodies(c)[i]) /\ b = Begin(c, i)
  OBVIOUS
<1>2. n \in Nat /\ b \in Nat
  <2>1. i \in 1 .. 6
    OBVIOUS
  <2>2. QED
    BY ONLY <1>1, <2>1, i \in 1 .. 5, IsContents(c), BeginDef
<1>3. d[i].base = 192 + b + 32 /\ d[i].len = Slice(c, short, i)
  BY ONLY <1>1, IsSliced(c, short, len, d), i \in 1 .. 5, Zenon DEF IsSliced
<1>4. Slice(c, short, i) = n - (IF i = short THEN 1 ELSE 0)
  BY ONLY <1>1, Zenon DEF Slice
<1>5. PICK l : l = d[i].len
  OBVIOUS
<1>6. Fits(d[i], 0, n) <=> 0 + n <= l
  BY ONLY <1>5, Zenon DEF Fits
<1>7. 0 + n <= l <=> short # i
  BY ONLY <1>2, <1>3, <1>4, <1>5
<1>8. d[i].base \in Nat
  BY ONLY <1>2, <1>3
<1>9. QED
  BY ONLY <1>1, <1>3, <1>6, <1>7, <1>8, Zenon

\* What each builder makes of the section it is given.
Yields(built, ok, value) == (ok => built = <<value>>) /\ (~ok => built = <<>>)

\* A builder yields its value if what it asks for holds.
LEMMA BuiltYields ==
  ASSUME NEW fits, NEW ok, fits <=> ok, NEW value
  PROVE  Yields(Built(fits, value), ok, value)
BY Zenon DEF Yields, Built

\* Every section that is not short is built as the contents say.
LEMMA SectionsRead ==
  ASSUME NEW c, IsContents(c), NEW short, Carries(file.at, c, short), NEW len, NEW d,
         IsSliced(c, short, len, d)
  PROVE  /\ Yields(BuildSchema(d[2], c.extended), short # 2, SchemaOf(c))
         /\ Yields(BuildDecisions(d[3]), short # 3, c.decisions)
         /\ Yields(BuildMap(d[4]), short # 4, MapOf(c))
         /\ Yields(BuildDataItems(d[5]), short # 5, DataItemsOf(c))
         /\ Fits(d[1], 0, 28) <=> short # 1
         /\ d[1].base \in Nat /\ Laid(file.at, d[1].base, WriteDescriptor(c))
<1>1. PICK B : B = Bodies(c)
  OBVIOUS
<1>2. /\ B[1] = WriteDescriptor(c) /\ B[2] = WriteSchema(c) /\ B[3] = WriteDecisions(c)
      /\ B[4] = WriteMap(c) /\ B[5] = WriteDataItems(c)
  <2>1. PICK b1, b2, b3, b4, b5 :
          /\ b1 = WriteDescriptor(c) /\ b2 = WriteSchema(c) /\ b3 = WriteDecisions(c)
          /\ b4 = WriteMap(c) /\ b5 = WriteDataItems(c)
    BY Zenon
  <2>2. B = <<b1, b2, b3, b4, b5>>
    BY ONLY <1>1, <2>1, Zenon DEF Bodies
  <2>3. B[1] = b1 /\ B[2] = b2 /\ B[3] = b3 /\ B[4] = b4 /\ B[5] = b5
    BY ONLY <2>2
  <2>4. QED
    BY ONLY <2>1, <2>3, Zenon
<1>3. ASSUME NEW i \in 1 .. 5
      PROVE  /\ d[i].base \in Nat /\ Laid(file.at, d[i].base, B[i])
             /\ Fits(d[i], 0, SizeOf(B[i])) <=> short # i
  <2>1. /\ d[i].base \in Nat /\ d[i].base = 192 + Begin(c, i) + 32
        /\ Fits(d[i], 0, SizeOf(B[i])) <=> short # i
    <3>1. d[i].base \in Nat /\ (Fits(d[i], 0, SizeOf(Bodies(c)[i])) <=> short # i)
      BY ONLY <1>3, IsContents(c), IsSliced(c, short, len, d), FitsUnlessShort
    <3>2. d[i].base = 192 + Begin(c, i) + 32
      BY ONLY <1>3, IsSliced(c, short, len, d), Zenon DEF IsSliced
    <3>3. QED
      BY ONLY <1>1, <3>1, <3>2, Zenon
  <2>2. Laid(file.at, 192 + Begin(c, i) + 32, B[i])
    BY ONLY <1>1, <1>3, Carries(file.at, c, short), Zenon DEF Carries
  <2>3. QED
    BY ONLY <2>1, <2>2, Zenon
<1>4. 1 \in 1 .. 5 /\ 2 \in 1 .. 5 /\ 3 \in 1 .. 5 /\ 4 \in 1 .. 5 /\ 5 \in 1 .. 5
  OBVIOUS
<1>5. DecisionsAreWellFormed(c) /\ NamesAreWellFormed(c) /\ ItemsAreWellFormed(c)
  BY ONLY IsContents(c), Zenon DEF IsContents
<1>6. Yields(BuildSchema(d[2], c.extended), short # 2, SchemaOf(c))
  <2>1. PICK r : r = d[2]
    OBVIOUS
  <2>2. r.base \in Nat /\ Laid(file.at, r.base, WriteSchema(c)) /\ (Fits(r, 0, SizeOf(WriteSchema(c))) <=> short # 2)
    BY ONLY <1>2, <1>3, <1>4, <2>1, Zenon
  <2>3. BuildSchema(r, c.extended) = Built(Fits(r, 0, SizeOf(WriteSchema(c))), SchemaOf(c))
    BY ONLY <1>5, <2>2, SchemaRead, Zenon
  <2>4. QED
    BY ONLY <2>1, <2>2, <2>3, BuiltYields, Zenon
<1>7. Yields(BuildDecisions(d[3]), short # 3, c.decisions)
  <2>1. PICK r : r = d[3]
    OBVIOUS
  <2>2. r.base \in Nat /\ Laid(file.at, r.base, WriteDecisions(c)) /\ (Fits(r, 0, SizeOf(WriteDecisions(c))) <=> short # 3)
    BY ONLY <1>2, <1>3, <1>4, <2>1, Zenon
  <2>3. BuildDecisions(r) = Built(Fits(r, 0, SizeOf(WriteDecisions(c))), c.decisions)
    BY ONLY <1>5, <2>2, DecisionsRead, Zenon
  <2>4. QED
    BY ONLY <2>1, <2>2, <2>3, BuiltYields, Zenon
<1>8. Yields(BuildMap(d[4]), short # 4, MapOf(c))
  <2>1. PICK r : r = d[4]
    OBVIOUS
  <2>2. r.base \in Nat /\ Laid(file.at, r.base, WriteMap(c)) /\ (Fits(r, 0, SizeOf(WriteMap(c))) <=> short # 4)
    BY ONLY <1>2, <1>3, <1>4, <2>1, Zenon
  <2>3. BuildMap(r) = Built(Fits(r, 0, SizeOf(WriteMap(c))), MapOf(c))
    BY ONLY <1>5, <2>2, MapRead, Zenon
  <2>4. QED
    BY ONLY <2>1, <2>2, <2>3, BuiltYields, Zenon
<1>9. Yields(BuildDataItems(d[5]), short # 5, DataItemsOf(c))
  <2>1. PICK r : r = d[5]
    OBVIOUS
  <2>2. r.base \in Nat /\ Laid(file.at, r.base, WriteDataItems(c)) /\ (Fits(r, 0, SizeOf(WriteDataItems(c))) <=> short # 5)
    BY ONLY <1>2, <1>3, <1>4, <2>1, Zenon
  <2>3. BuildDataItems(r) = Built(Fits(r, 0, SizeOf(WriteDataItems(c))), DataItemsOf(c))
    BY ONLY <1>5, <2>2, DataItemsRead, Zenon
  <2>4. QED
    BY ONLY <2>1, <2>2, <2>3, BuiltYields, Zenon
<1>10. Fits(d[1], 0, 28) <=> short # 1
  <2>1. SizeOf(WriteDescriptor(c)) = 28
    BY ONLY DescriptorWritten
  <2>2. QED
    BY ONLY <1>2, <1>3, <1>4, <2>1, Zenon
<1>11. d[1].base \in Nat /\ Laid(file.at, d[1].base, WriteDescriptor(c))
  BY ONLY <1>2, <1>3, <1>4, Zenon
<1>12. QED
  BY ONLY <1>6, <1>7, <1>8, <1>9, <1>10, <1>11, Zenon

\* The types the table of contents gives the sections.
LEMMA TypesFit ==
  ASSUME NEW c, IsContents(c), NEW t, IsToc(c, t)
  PROVE  /\ 2 \in DOMAIN t /\ t[2].section_type \in Expected("schema")
         /\ 3 \in DOMAIN t /\ t[3].section_type \in Expected("decisions")
         /\ 4 \in DOMAIN t /\ t[4].section_type \in Expected("map")
         /\ 5 \in DOMAIN t /\ t[5].section_type \in Expected("data items")
         /\ (t[2].section_type = "HierarchicalSchemaEx") = c.extended
         /\ \A i \in DOMAIN t : t[i].section_type \in SectionTypes
<1>1. PICK d, s, e, m, r, x : /\ d = "Descriptor" /\ s = "HierarchicalSchema" /\ e = "HierarchicalSchemaEx"
                              /\ m = "DecisionInfo" /\ r = "ResourceMap" /\ x = "DataItem"
  BY Zenon
<1>2. s # e
  BY ONLY <1>1
<1>3. c.extended \in BOOLEAN
  BY ONLY IsContents(c), Zenon DEF IsContents
<1>4. PICK b, h, k : b = c.extended /\ h = (IF b THEN e ELSE s) /\ k = KindsOf(c)
  BY Zenon
<1>5. k = <<d, h, m, r, x>>
  BY ONLY <1>1, <1>4, Zenon DEF KindsOf
<1>6. k[1] = d /\ k[2] = h /\ k[3] = m /\ k[4] = r /\ k[5] = x
  BY ONLY <1>5
<1>7. DOMAIN t = 1 .. 5 /\ \A i \in 1 .. 5 : t[i].section_type = k[i]
  BY ONLY <1>4, IsToc(c, t), Zenon DEF IsToc
<1>8. 1 \in 1 .. 5 /\ 2 \in 1 .. 5 /\ 3 \in 1 .. 5 /\ 4 \in 1 .. 5 /\ 5 \in 1 .. 5
      /\ \A i \in 1 .. 5 : i = 1 \/ i = 2 \/ i = 3 \/ i = 4 \/ i = 5
  OBVIOUS
<1>9. h = e \/ h = s
  BY ONLY <1>4, Zenon
<1>10. (h = e) = b
  BY ONLY <1>2, <1>3, <1>4, Zenon
<1>11. PICK k1, k2, k3, k4 : k1 = "schema" /\ k2 = "decisions" /\ k3 = "data items" /\ k4 = "map"
  BY Zenon
<1>12. k1 # k2 /\ k1 # k3 /\ k1 # k4 /\ k2 # k3 /\ k2 # k4 /\ k3 # k4
  BY ONLY <1>11
<1>13. /\ Expected(k1) = {s, e} /\ Expected(k2) = {m} /\ Expected(k3) = {x} /\ Expected(k4) = {r}
  BY ONLY <1>1, <1>11, <1>12, Zenon DEF Expected
<1>14. h \in Expected(k1) /\ m \in Expected(k2) /\ x \in Expected(k3) /\ r \in Expected(k4)
  BY ONLY <1>9, <1>13, Zenon
<1>15. d \in SectionTypes /\ h \in SectionTypes /\ m \in SectionTypes /\ r \in SectionTypes /\ x \in SectionTypes
  BY ONLY <1>1, <1>9, Zenon DEF SectionTypes
<1>16. \A i \in DOMAIN t : t[i].section_type \in SectionTypes
  <2>1. \A i \in 1 .. 5 : k[i] \in SectionTypes
    BY ONLY <1>6, <1>8, <1>15, Zenon
  <2>2. QED
    BY ONLY <1>7, <2>1, Zenon
<1>17. QED
  BY ONLY <1>1, <1>4, <1>6, <1>7, <1>8, <1>10, <1>11, <1>14, <1>16, Zenon

\* The queue of sections, from its front to its end.
LEMMA QueueSteps ==
  /\ SubSeq(Queue, 0 + 1, 4) = Queue
  /\ \A k \in 0 .. 3 : /\ SubSeq(Queue, k + 1, 4) # <<>>
                       /\ Head(SubSeq(Queue, k + 1, 4)) = Queue[k + 1]
                       /\ Tail(SubSeq(Queue, k + 1, 4)) = SubSeq(Queue, (k + 1) + 1, 4)
  /\ SubSeq(Queue, 4 + 1, 4) = <<>>
  /\ \A k \in 0 .. 4 : \A i \in DOMAIN SubSeq(Queue, k + 1, 4) :
       SubSeq(Queue, k + 1, 4)[i][1] \in SectionKinds
<1>1. PICK k1, k2, k3, k4 : k1 = "schema" /\ k2 = "decisions" /\ k3 = "data items" /\ k4 = "map"
  BY Zenon
<1>2. PICK q, a, b, c, d : /\ q = Queue /\ a = <<k1, 1>> /\ b = <<k2, 2>> /\ c = <<k3, 4>> /\ d = <<k4, 3>>
  BY Zenon
<1>3. q = <<a, b, c, d>>
  BY ONLY <1>1, <1>2, Zenon DEF Queue
<1>4. PICK T : T = {a, b, c, d}
  OBVIOUS
<1>5. q \in Seq(T) /\ Len(q) = 4 /\ q[1] = a /\ q[2] = b /\ q[3] = c /\ q[4] = d
  BY ONLY <1>3, <1>4
<1>6. a[1] = k1 /\ b[1] = k2 /\ c[1] = k3 /\ d[1] = k4
  BY ONLY <1>2
<1>7. \A x \in T : x[1] \in SectionKinds
  <2>1. k1 \in SectionKinds /\ k2 \in SectionKinds /\ k3 \in SectionKinds /\ k4 \in SectionKinds
    BY ONLY <1>1, Zenon DEF SectionKinds
  <2>2. QED
    BY ONLY <1>4, <1>6, <2>1, Zenon
<1>8. ASSUME NEW k \in 0 .. 4
      PROVE  /\ SubSeq(q, k + 1, 4) \in Seq(T) /\ Len(SubSeq(q, k + 1, 4)) = 4 - k
             /\ \A i \in 1 .. 4 - k : SubSeq(q, k + 1, 4)[i] = q[k + i]
  <2>1. PICK n : n = Len(q)
    OBVIOUS
  <2>2. n = 4 /\ k + 1 \in 1 .. n + 1 /\ n \in (k + 1) - 1 .. n /\ n - (k + 1) + 1 = 4 - k
        /\ \A i \in 1 .. 4 - k : (k + 1) + i - 1 = k + i
    BY ONLY <1>5, <1>8, <2>1
  <2>3. /\ SubSeq(q, k + 1, n) \in Seq(T) /\ Len(SubSeq(q, k + 1, n)) = n - (k + 1) + 1
        /\ \A i \in 1 .. n - (k + 1) + 1 : SubSeq(q, k + 1, n)[i] = q[(k + 1) + i - 1]
    <3>1. PICK m : m = k + 1
      OBVIOUS
    <3>2. q \in Seq(T)
      BY ONLY <1>5
    <3>3. m \in 1 .. Len(q) + 1
      BY ONLY <2>1, <2>2, <3>1
    <3>4. n \in m - 1 .. Len(q)
      BY ONLY <2>1, <2>2, <3>1
    <3>5. /\ SubSeq(q, m, n) \in Seq(T) /\ Len(SubSeq(q, m, n)) = n - m + 1
          /\ \A i \in 1 .. n - m + 1 : SubSeq(q, m, n)[i] = q[m + i - 1]
      BY ONLY <3>2, <3>3, <3>4, SubSeqProperties
    <3>6. QED
      BY ONLY <3>1, <3>5, Zenon
  <2>4. QED
    BY ONLY <2>2, <2>3
<1>9. SubSeq(q, 0 + 1, 4) = q
  BY ONLY <1>5
<1>10. SubSeq(q, 4 + 1, 4) = <<>>
  BY ONLY <1>5
<1>11. ASSUME NEW k \in 0 .. 3
       PROVE  /\ SubSeq(q, k + 1, 4) # <<>>
              /\ Head(SubSeq(q, k + 1, 4)) = q[k + 1]
              /\ Tail(SubSeq(q, k + 1, 4)) = SubSeq(q, (k + 1) + 1, 4)
  <2>1. PICK s, t : s = SubSeq(q, k + 1, 4) /\ t = SubSeq(q, (k + 1) + 1, 4)
    OBVIOUS
  <2>2. k \in 0 .. 4 /\ k + 1 \in 0 .. 4
    BY ONLY <1>11
  <2>3. s \in Seq(T) /\ Len(s) = 4 - k /\ \A i \in 1 .. 4 - k : s[i] = q[k + i]
    BY ONLY <1>8, <2>1, <2>2
  <2>4. t \in Seq(T) /\ Len(t) = 4 - (k + 1) /\ \A i \in 1 .. 4 - (k + 1) : t[i] = q[(k + 1) + i]
    BY ONLY <1>8, <2>1, <2>2
  <2>5. s # <<>> /\ Head(s) = q[k + 1]
    BY ONLY <1>11, <2>3
  <2>6. PICK u : u = Tail(s)
    OBVIOUS
  <2>7. u \in Seq(T) /\ Len(u) = 3 - k /\ \A i \in 1 .. 3 - k : u[i] = s[i + 1]
    BY ONLY <1>11, <2>3, <2>5, <2>6
  <2>8. \A i \in 1 .. 3 - k : u[i] = t[i]
    <3>1. ASSUME NEW i \in 1 .. 3 - k PROVE u[i] = t[i]
      <4>1. i \in 1 .. 4 - (k + 1) /\ i + 1 \in 1 .. 4 - k /\ (k + 1) + i = k + (i + 1)
        BY ONLY <1>11, <3>1
      <4>2. QED
        BY ONLY <2>3, <2>4, <2>7, <3>1, <4>1
    <3>2. QED
      BY ONLY <3>1
  <2>9. u = t
    BY ONLY <1>11, <2>4, <2>7, <2>8
  <2>10. QED
    BY ONLY <2>1, <2>5, <2>6, <2>9, Zenon
<1>12. ASSUME NEW k \in 0 .. 4, NEW i \in DOMAIN SubSeq(q, k + 1, 4)
       PROVE  SubSeq(q, k + 1, 4)[i][1] \in SectionKinds
  <2>1. SubSeq(q, k + 1, 4)[i] \in T
    BY ONLY <1>8, <1>12
  <2>2. QED
    BY ONLY <1>7, <2>1, Zenon
<1>13. QED
  BY ONLY <1>2, <1>9, <1>10, <1>11, <1>12, Zenon

\* The index, section by section.
LEMMA IndexGrows ==
  ASSUME NEW c
  PROVE  /\ [Unbuilt EXCEPT !.primary = PrimaryOf(c)] = IndexAfter(c, 0)
         /\ [IndexAfter(c, 0) EXCEPT ![Place("schema")] = Insert(@, 1, SchemaOf(c))] = IndexAfter(c, 1)
         /\ [IndexAfter(c, 1) EXCEPT ![Place("decisions")] = Insert(@, 2, c.decisions)] = IndexAfter(c, 2)
         /\ [IndexAfter(c, 2) EXCEPT ![Place("data items")] = Insert(@, 4, DataItemsOf(c))] = IndexAfter(c, 3)
         /\ [IndexAfter(c, 3) EXCEPT ![Place("map")] = Insert(@, 3, MapOf(c))] = IndexAfter(c, 4)
<1>1. PICK P, N, M, S, D, I, none :
        /\ P = PrimaryOf(c) /\ N = Nothing /\ none = NoIndex
        /\ M = Insert(Nothing, 3, MapOf(c)) /\ S = Insert(Nothing, 1, SchemaOf(c))
        /\ D = Insert(Nothing, 2, c.decisions) /\ I = Insert(Nothing, 4, DataItemsOf(c))
  BY Zenon
<1>2. \A k : IndexAfter(c, k) =
        [primary |-> P, resource_maps |-> IF k >= 4 THEN M ELSE N,
         hierarchical_schemas |-> IF k >= 1 THEN S ELSE N, decision_infos |-> IF k >= 2 THEN D ELSE N,
         data_item_sections |-> IF k >= 3 THEN I ELSE N]
  BY ONLY <1>1, Zenon DEF IndexAfter
<1> DEFINE R(p, m, s, d, i) ==
      [primary |-> p, resource_maps |-> m, hierarchical_schemas |-> s, decision_infos |-> d,
       data_item_sections |-> i]
<1>3. /\ IndexAfter(c, 0) = R(P, N, N, N, N) /\ IndexAfter(c, 1) = R(P, N, S, N, N)
      /\ IndexAfter(c, 2) = R(P, N, S, D, N) /\ IndexAfter(c, 3) = R(P, N, S, D, I)
      /\ IndexAfter(c, 4) = R(P, M, S, D, I)
  BY ONLY <1>2
<1>4. Unbuilt = R(none, N, N, N, N)
  BY ONLY <1>1, Zenon DEF Unbuilt
<1>5. [R(none, N, N, N, N) EXCEPT !.primary = P] = R(P, N, N, N, N)
  OBVIOUS
<1>6. [Unbuilt EXCEPT !.primary = PrimaryOf(c)] = IndexAfter(c, 0)
  BY ONLY <1>1, <1>3, <1>4, <1>5
<1>7. /\ Place("schema") = "hierarchical_schemas" /\ Place("decisions") = "decision_infos"
      /\ Place("data items") = "data_item_sections" /\ Place("map") = "resource_maps"
  BY ONLY Zenon DEF Place
<1>8. [IndexAfter(c, 0) EXCEPT ![Place("schema")] = Insert(@, 1, SchemaOf(c))] = IndexAfter(c, 1)
  <2>1. PICK r, f, v : r = IndexAfter(c, 0) /\ f = Place("schema") /\ v = Insert(r[f], 1, SchemaOf(c))
    OBVIOUS
  <2>2. f = "hierarchical_schemas" /\ r = R(P, N, N, N, N)
    BY ONLY <1>3, <1>7, <2>1, Zenon
  <2>3. r[f] = N /\ [r EXCEPT ![f] = S] = R(P, N, S, N, N)
    BY ONLY <2>2
  <2>4. v = S
    BY ONLY <1>1, <2>1, <2>3, Zenon
  <2>5. [r EXCEPT ![f] = v] = IndexAfter(c, 1)
    BY ONLY <1>3, <2>3, <2>4, Zenon
  <2>6. QED
    BY ONLY <2>1, <2>5, Zenon
<1>9. [IndexAfter(c, 1) EXCEPT ![Place("decisions")] = Insert(@, 2, c.decisions)] = IndexAfter(c, 2)
  <2>1. PICK r, f, v : r = IndexAfter(c, 1) /\ f = Place("decisions") /\ v = Insert(r[f], 2, c.decisions)
    OBVIOUS
  <2>2. f = "decision_infos" /\ r = R(P, N, S, N, N)
    BY ONLY <1>3, <1>7, <2>1, Zenon
  <2>3. r[f] = N /\ [r EXCEPT ![f] = D] = R(P, N, S, D, N)
    BY ONLY <2>2
  <2>4. v = D
    BY ONLY <1>1, <2>1, <2>3, Zenon
  <2>5. [r EXCEPT ![f] = v] = IndexAfter(c, 2)
    BY ONLY <1>3, <2>3, <2>4, Zenon
  <2>6. QED
    BY ONLY <2>1, <2>5, Zenon
<1>10. [IndexAfter(c, 2) EXCEPT ![Place("data items")] = Insert(@, 4, DataItemsOf(c))] = IndexAfter(c, 3)
  <2>1. PICK r, f, v : r = IndexAfter(c, 2) /\ f = Place("data items") /\ v = Insert(r[f], 4, DataItemsOf(c))
    OBVIOUS
  <2>2. f = "data_item_sections" /\ r = R(P, N, S, D, N)
    BY ONLY <1>3, <1>7, <2>1, Zenon
  <2>3. r[f] = N /\ [r EXCEPT ![f] = I] = R(P, N, S, D, I)
    BY ONLY <2>2
  <2>4. v = I
    BY ONLY <1>1, <2>1, <2>3, Zenon
  <2>5. [r EXCEPT ![f] = v] = IndexAfter(c, 3)
    BY ONLY <1>3, <2>3, <2>4, Zenon
  <2>6. QED
    BY ONLY <2>1, <2>5, Zenon
<1>11. [IndexAfter(c, 3) EXCEPT ![Place("map")] = Insert(@, 3, MapOf(c))] = IndexAfter(c, 4)
  <2>1. PICK r, f, v : r = IndexAfter(c, 3) /\ f = Place("map") /\ v = Insert(r[f], 3, MapOf(c))
    OBVIOUS
  <2>2. f = "resource_maps" /\ r = R(P, N, S, D, I)
    BY ONLY <1>3, <1>7, <2>1, Zenon
  <2>3. r[f] = N /\ [r EXCEPT ![f] = M] = R(P, M, S, D, I)
    BY ONLY <2>2
  <2>4. v = M
    BY ONLY <1>1, <2>1, <2>3, Zenon
  <2>5. [r EXCEPT ![f] = v] = IndexAfter(c, 4)
    BY ONLY <1>3, <2>3, <2>4, Zenon
  <2>6. QED
    BY ONLY <2>1, <2>5, Zenon
<1>12. QED
  BY ONLY <1>6, <1>8, <1>9, <1>10, <1>11, Zenon

\* The contents of the file are one of the given, well-formed ones.
LEMMA ContentIsWellFormed == FileIsWritten => IsContents(Content)
BY ONLY ContentsAssumption, Zenon DEF FileIsWritten, Content

\* What depends on variables that a step leaves alone stays as it is.
LEMMA KeptAsItIs ==
  /\ file' = file => Content' = Content
  /\ FileIsWritten /\ file' = file => FileIsWritten'
  /\ TocIsRead /\ file' = file /\ toc' = toc => TocIsRead'
  /\ DataIsSliced /\ file' = file /\ data' = data => DataIsSliced'
  /\ \A k : Stage(k) /\ file' = file /\ pending' = pending /\ index' = index => Stage(k)'
<1>1. file' = file => Content' = Content
  BY ONLY Zenon DEF Content
<1>2. FileIsWritten /\ file' = file => FileIsWritten'
  BY ONLY <1>1, Zenon DEF FileIsWritten
<1>3. TocIsRead /\ file' = file /\ toc' = toc => TocIsRead'
  BY ONLY <1>1, Zenon DEF TocIsRead
<1>4. DataIsSliced /\ file' = file /\ data' = data => DataIsSliced'
  BY ONLY <1>1, Zenon DEF DataIsSliced
<1>5. \A k : Stage(k) /\ file' = file /\ pending' = pending /\ index' = index => Stage(k)'
  BY ONLY <1>1, Zenon DEF Stage
<1>6. QED
  BY ONLY <1>1, <1>2, <1>3, <1>4, <1>5, Zenon

\* The file begins as an image of its contents.
LEMMA InitWritten == Init => FileIsWritten
<1> SUFFICES ASSUME Init PROVE FileIsWritten
  OBVIOUS
<1>1. PICK of \in DOMAIN Contents, short \in 0 .. Sections :
        \E img \in {Image(WriteFile(Contents[of], short))} :
          \E len \in {img.len} \cup IF short = 0 THEN DOMAIN img.at ELSE {} :
            file = [of |-> of, short |-> short, whole |-> img.len, len |-> len, at |-> img.at]
  BY ONLY Init, Zenon DEF Init
<1>2. PICK img : /\ img = Image(WriteFile(Contents[of], short))
                 /\ \E len \in {img.len} \cup IF short = 0 THEN DOMAIN img.at ELSE {} :
                      file = [of |-> of, short |-> short, whole |-> img.len, len |-> len, at |-> img.at]
  BY ONLY <1>1, Zenon
<1>3. PICK len \in {img.len} \cup IF short = 0 THEN DOMAIN img.at ELSE {} :
        file = [of |-> of, short |-> short, whole |-> img.len, len |-> len, at |-> img.at]
  BY ONLY <1>2, Zenon
<1>4. /\ file.of = of /\ file.short = short /\ file.whole = img.len /\ file.len = len
      /\ file.at = img.at
  BY ONLY <1>3
<1>5. short \in 0 .. 5
  BY ONLY short \in 0 .. Sections DEF Sections
<1>6. PICK c : c = Contents[of]
  OBVIOUS
<1>7. IsContents(c)
  BY ONLY <1>6, of \in DOMAIN Contents, ContentsAssumption, Zenon
<1>8. img = Image(WriteFile(c, short))
  BY ONLY <1>2, <1>6, Zenon
<1>9. /\ img.len = 192 + Begin(c, 6)
      /\ \A o \in DOMAIN img.at : o \in Nat /\ o < img.len
      /\ Carries(img.at, c, short)
  BY ONLY <1>5, <1>7, <1>8, ImageRead
<1>10. Begin(c, 6) \in Nat
  <2>1. 6 \in 1 .. 6
    OBVIOUS
  <2>2. QED
    BY ONLY <1>7, <2>1, BeginDef
<1>11. PICK whole, at : whole = img.len /\ at = img.at
  OBVIOUS
<1>12. whole \in Nat
  BY ONLY <1>9, <1>10, <1>11
<1>13. len = whole \/ (short = 0 /\ len \in DOMAIN at)
  BY ONLY <1>11, len \in {img.len} \cup IF short = 0 THEN DOMAIN img.at ELSE {}, Zenon
<1>14. \A o \in DOMAIN at : o \in Nat /\ o < whole
  BY ONLY <1>9, <1>11, Zenon
<1>15. len \in Nat /\ len <= whole /\ (short = 0 \/ len = whole)
  BY ONLY <1>12, <1>13, <1>14
<1>16. Content = c
  BY ONLY <1>4, <1>6, Zenon DEF Content
<1>17. QED
  BY ONLY <1>4, <1>5, <1>9, <1>11, <1>15, <1>16, of \in DOMAIN Contents, Zenon DEF FileIsWritten

\* The invariant holds at first.
LEMMA InitIInv == Init => IInv
<1> SUFFICES ASSUME Init PROVE IInv
  OBVIOUS
<1>1. FileIsWritten
  BY ONLY Init, InitWritten
<1>2. phase = "read" /\ toc = <<>> /\ data = <<>> /\ pending = <<>> /\ index = Unbuilt /\ asked = Unasked
  BY ONLY Init, Zenon DEF Init, Unbuilt
<1>3. phase \in Phases
  BY ONLY <1>2, Zenon DEF Phases
<1>4. \A i \in DOMAIN pending : pending[i][1] \in SectionKinds
  <2>1. DOMAIN pending = {}
    BY ONLY <1>2
  <2>2. QED
    BY ONLY <2>1, Zenon
<1>5. phase # "sections" /\ phase # "descriptor" /\ phase # "build" /\ phase # "ready"
  BY ONLY <1>2
<1>6. QED
  BY ONLY <1>1, <1>2, <1>3, <1>4, <1>5, Zenon DEF IInv

\* It is kept by ReadToEnd.
LEMMA ReadToEndKeeps == IInv /\ ReadToEnd => IInv'
<1> SUFFICES ASSUME IInv, ReadToEnd PROVE IInv'
  OBVIOUS
<1>1. phase = "read" /\ (phase' = "header" \/ phase' = "failed")
  BY ONLY ReadToEnd, Zenon DEF ReadToEnd, Continue
<1>2. file' = file /\ toc' = toc /\ data' = data /\ pending' = pending /\ index' = index /\ asked' = asked
  BY ONLY ReadToEnd, Zenon DEF ReadToEnd
<1>3. /\ FileIsWritten /\ (toc = <<>> \/ TocIsRead) /\ (data = <<>> \/ DataIsSliced)
      /\ (\A i \in DOMAIN pending : pending[i][1] \in SectionKinds)
      /\ index = Unbuilt /\ asked = Unasked
  <2>1. phase # "ready"
    BY ONLY <1>1
  <2>2. QED
    BY ONLY IInv, <1>1, <2>1, Zenon DEF IInv
<1>4. phase' \in Phases
  BY ONLY <1>1, Zenon DEF Phases
<1>5. FileIsWritten' /\ (toc' = <<>> \/ TocIsRead') /\ (data' = <<>> \/ DataIsSliced')
  BY ONLY <1>2, <1>3, KeptAsItIs, Zenon
<1>6. phase' # "sections" /\ phase' # "descriptor" /\ phase' # "build" /\ phase' # "ready"
  BY ONLY <1>1
<1>7. (asked = Unasked)' /\ (index = Unbuilt)' /\ (\A i \in DOMAIN pending : pending[i][1] \in SectionKinds)'
  BY ONLY <1>2, <1>3, Zenon DEF Unasked, Unbuilt
<1>8. QED
  BY ONLY <1>4, <1>5, <1>6, <1>7, Zenon DEF IInv

\* Four lists of one element, one behind the other.
LEMMA FourInOrder ==
  ASSUME NEW r1, NEW r2, NEW r3, NEW r4
  PROVE  <<r1>> \o <<r2>> \o <<r3>> \o <<r4>> = <<r1, r2, r3, r4>>
<1>1. PICK T, a, b, c, d, x, y, z :
        /\ T = {r1, r2, r3, r4} /\ a = <<r1>> /\ b = <<r2>> /\ c = <<r3>> /\ d = <<r4>>
        /\ x = <<r1, r2>> /\ y = <<r1, r2, r3>> /\ z = <<r1, r2, r3, r4>>
  OBVIOUS
<1>2. /\ a \in Seq(T) /\ b \in Seq(T) /\ c \in Seq(T) /\ d \in Seq(T)
      /\ Len(a) = 1 /\ Len(b) = 1 /\ Len(c) = 1 /\ Len(d) = 1
      /\ a[1] = r1 /\ b[1] = r2 /\ c[1] = r3 /\ d[1] = r4
  BY ONLY <1>1
<1>3. /\ x \in Seq(T) /\ y \in Seq(T) /\ z \in Seq(T) /\ Len(x) = 2 /\ Len(y) = 3 /\ Len(z) = 4
      /\ x[1] = r1 /\ x[2] = r2 /\ y[1] = r1 /\ y[2] = r2 /\ y[3] = r3
      /\ z[1] = r1 /\ z[2] = r2 /\ z[3] = r3 /\ z[4] = r4
  BY ONLY <1>1
<1>4. \A s, t, u : s \in Seq(T) /\ t \in Seq(T) /\ u \in Seq(T) /\ Len(t) = 1 /\ Len(u) = Len(s) + Len(t)
        /\ (\A i \in 1 .. Len(s) : u[i] = s[i]) /\ u[Len(s) + 1] = t[1] => u = s \o t
  <2>1. ASSUME NEW s \in Seq(T), NEW t \in Seq(T), NEW u \in Seq(T), Len(t) = 1, Len(u) = Len(s) + Len(t),
               \A i \in 1 .. Len(s) : u[i] = s[i], u[Len(s) + 1] = t[1]
        PROVE  u = s \o t
    <3>1. \A i \in 1 .. Len(t) : u[Len(s) + i] = t[i]
      <4>1. \A i \in 1 .. Len(t) : i = 1
        BY ONLY <2>1
      <4>2. QED
        BY ONLY <2>1, <4>1, Zenon
    <3>2. \A i \in 1 .. Len(s) : u[i] = s[i]
      BY ONLY <2>1
    <3>3. Len(u) = Len(s) + Len(t)
      BY ONLY <2>1
    <3>4. QED
      BY ONLY s \in Seq(T), t \in Seq(T), u \in Seq(T), <3>1, <3>2, <3>3, CatIs
  <2>2. QED
    BY ONLY <2>1, Zenon
<1>5. x = a \o b
  <2>1. (\A i \in 1 .. Len(a) : x[i] = a[i]) /\ x[Len(a) + 1] = b[1] /\ Len(x) = Len(a) + Len(b)
    BY ONLY <1>2, <1>3
  <2>2. QED
    BY ONLY <1>2, <1>3, <1>4, <2>1
<1>6. y = x \o c
  <2>1. (\A i \in 1 .. Len(x) : y[i] = x[i]) /\ y[Len(x) + 1] = c[1] /\ Len(y) = Len(x) + Len(c)
    BY ONLY <1>2, <1>3
  <2>2. QED
    BY ONLY <1>2, <1>3, <1>4, <2>1
<1>7. z = y \o d
  <2>1. (\A i \in 1 .. Len(y) : z[i] = y[i]) /\ z[Len(y) + 1] = d[1] /\ Len(z) = Len(y) + Len(d)
    BY ONLY <1>2, <1>3
  <2>2. QED
    BY ONLY <1>2, <1>3, <1>4, <2>1
<1>8. QED
  BY ONLY <1>1, <1>5, <1>6, <1>7, Zenon

\* It is kept by ReadHeader.
LEMMA ReadHeaderKeeps == IInv /\ ReadHeader => IInv'
<1> SUFFICES ASSUME IInv, ReadHeader PROVE IInv'
  OBVIOUS
<1> DEFINE
      header == Get(ResourceHeader, 0)
      toc_at == header.table_of_contents_offset
      ok == /\ Fits(Buffer, 0, ResourceHeader.size)
            /\ header.version_identifier \in Magics
            /\ Fits(Buffer, toc_at, header.number_of_sections * TableOfContentsEntry.size)
<1>1. /\ phase = "header"
      /\ phase' = IF ok THEN "sections" ELSE "failed"
      /\ toc' = IF ok THEN Rows(TableOfContentsEntry, toc_at, header.number_of_sections) ELSE toc
      /\ file' = file /\ data' = data /\ pending' = pending /\ index' = index /\ asked' = asked
  BY ONLY ReadHeader, Zenon DEF ReadHeader, Continue
<1>2. /\ FileIsWritten /\ (toc = <<>> \/ TocIsRead) /\ (data = <<>> \/ DataIsSliced)
      /\ (\A i \in DOMAIN pending : pending[i][1] \in SectionKinds)
      /\ index = Unbuilt /\ asked = Unasked
  <2>1. phase # "ready" /\ phase = "header"
    BY ONLY <1>1
  <2>2. QED
    BY ONLY IInv, <2>1, Zenon DEF IInv
<1>3. FileIsWritten' /\ (data' = <<>> \/ DataIsSliced') /\ Content' = Content
  BY ONLY <1>1, <1>2, KeptAsItIs, Zenon
<1>4. IsToc(Content, Rows(TableOfContentsEntry, toc_at, header.number_of_sections))
  <2>1. IsContents(Content)
    BY ONLY <1>2, ContentIsWellFormed
  <2>2. file.short \in 0 .. 5 /\ Carries(file.at, Content, file.short)
    BY ONLY <1>2, Zenon DEF FileIsWritten
  <2>3. /\ header.table_of_contents_offset = 32 /\ header.number_of_sections = 5
        /\ IsToc(Content, Rows(TableOfContentsEntry, 32, 5))
    BY ONLY <2>1, <2>2, HeaderRead
  <2>4. QED
    BY ONLY <2>3, Zenon
<1> HIDE DEF header, toc_at, ok
<1>5. (phase' = "sections" /\ TocIsRead') \/ (phase' = "failed" /\ toc' = toc)
  BY ONLY <1>1, <1>3, <1>4, Zenon DEF TocIsRead
<1>6. phase' \in Phases
  BY ONLY <1>5, Zenon DEF Phases
<1>7. phase' # "descriptor" /\ phase' # "build" /\ phase' # "ready"
      /\ (phase' \in {"sections", "descriptor", "build", "ready"} => TocIsRead')
  BY ONLY <1>5, Zenon
<1>8. toc' = <<>> \/ TocIsRead'
  BY ONLY <1>1, <1>2, <1>5, KeptAsItIs, Zenon
<1>9. (asked = Unasked)' /\ (index = Unbuilt)' /\ (\A i \in DOMAIN pending : pending[i][1] \in SectionKinds)'
  BY ONLY <1>1, <1>2, Zenon DEF Unasked, Unbuilt
<1>10. QED
  BY ONLY <1>3, <1>6, <1>7, <1>8, <1>9, Zenon DEF IInv

\* It is kept by SliceSections.
LEMMA SliceSectionsKeeps == IInv /\ SliceSections => IInv'
<1> SUFFICES ASSUME IInv, SliceSections PROVE IInv'
  OBVIOUS
<1> DEFINE ok == \A i \in DOMAIN toc : SectionData(toc[i]) # <<>>
           slices == [i \in DOMAIN toc |-> SectionData(toc[i])[1]]
<1>1. /\ phase = "sections"
      /\ phase' = IF ok THEN "descriptor" ELSE "failed"
      /\ data' = IF ok THEN slices ELSE data
      /\ file' = file /\ toc' = toc /\ pending' = pending /\ index' = index /\ asked' = asked
  BY ONLY SliceSections, Zenon DEF SliceSections, Continue
<1>2. /\ FileIsWritten /\ TocIsRead /\ (data = <<>> \/ DataIsSliced)
      /\ (\A i \in DOMAIN pending : pending[i][1] \in SectionKinds)
      /\ index = Unbuilt /\ asked = Unasked
  <2>1. phase # "ready" /\ phase = "sections"
    BY ONLY <1>1
  <2>2. QED
    BY ONLY IInv, <2>1, Zenon DEF IInv
<1>3. FileIsWritten' /\ TocIsRead' /\ Content' = Content
  BY ONLY <1>1, <1>2, KeptAsItIs, Zenon
<1>4. ok => IsSliced(Content, file.short, file.len, slices)
  <2>1. IsContents(Content)
    BY ONLY <1>2, ContentIsWellFormed
  <2>2. file.short \in 0 .. 5 /\ Carries(file.at, Content, file.short) /\ file.len \in Nat
    BY ONLY <1>2, Zenon DEF FileIsWritten
  <2>3. DOMAIN toc = 1 .. 5 /\ \A i \in 1 .. 5 : toc[i].section_offset = Begin(Content, i)
    BY ONLY <1>2, Zenon DEF TocIsRead, IsToc
  <2>4. ASSUME ok, NEW i \in 1 .. 5
        PROVE  /\ slices[i].base = 192 + Begin(Content, i) + 32 /\ slices[i].len = Slice(Content, file.short, i)
               /\ slices[i].len \in Nat /\ slices[i].base + slices[i].len <= file.len
    <3>1. PICK c, short, entry : c = Content /\ short = file.short /\ entry = toc[i]
      OBVIOUS
    <3>2. /\ IsContents(c) /\ short \in 0 .. 5 /\ Carries(file.at, c, short)
          /\ entry.section_offset = Begin(c, i) /\ SectionData(entry) # <<>>
      BY ONLY <2>1, <2>2, <2>3, <2>4, <3>1, Zenon
    <3>3. LET range == SectionData(entry)[1]
          IN  /\ range.base = 192 + Begin(c, i) + 32 /\ range.len = Slice(c, short, i)
              /\ range.len \in Nat /\ range.base + range.len <= file.len
      BY ONLY <2>2, <3>2, i \in 1 .. 5, SliceRead
    <3>4. slices[i] = SectionData(entry)[1]
      BY ONLY <2>3, <3>1, i \in 1 .. 5, Zenon
    <3>5. QED
      BY ONLY <3>1, <3>3, <3>4, Zenon
  <2>5. DOMAIN slices = 1 .. 5
    BY ONLY <2>3, Zenon
  <2> HIDE DEF slices, ok
  <2>6. QED
    BY ONLY <2>4, <2>5, Zenon DEF IsSliced
<1> HIDE DEF slices, ok
<1>5. (phase' = "descriptor" /\ DataIsSliced') \/ (phase' = "failed" /\ data' = data)
  BY ONLY <1>1, <1>3, <1>4, Zenon DEF DataIsSliced
<1>6. phase' \in Phases
  BY ONLY <1>5, Zenon DEF Phases
<1>7. phase' # "build" /\ phase' # "ready"
      /\ (phase' \in {"descriptor", "build", "ready"} => DataIsSliced')
  BY ONLY <1>5, Zenon
<1>8. data' = <<>> \/ DataIsSliced'
  BY ONLY <1>1, <1>2, <1>5, KeptAsItIs, Zenon
<1>9. (asked = Unasked)' /\ (index = Unbuilt)' /\ (\A i \in DOMAIN pending : pending[i][1] \in SectionKinds)'
  BY ONLY <1>1, <1>2, Zenon DEF Unasked, Unbuilt
<1>10. QED
  BY ONLY <1>3, <1>6, <1>7, <1>8, <1>9, Zenon DEF IInv

\* It is kept by ReadDescriptor.
LEMMA ReadDescriptorKeeps == IInv /\ ReadDescriptor => IInv'
<1> SUFFICES ASSUME IInv, ReadDescriptor PROVE IInv'
  OBVIOUS
<1> DEFINE
      found == {i \in DOMAIN toc : toc[i].section_type = "Descriptor"}
      range == data[Min(found)]
      descriptor == Get(PriDescriptor, range.base)
      counts == <<descriptor.hierarchical_schema_count, descriptor.decision_info_count,
                  descriptor.resource_map_count, descriptor.referenced_file_sections_count,
                  descriptor.data_item_section_count>>
      end(k)  == PriDescriptor.size + 2 * TotalOf(SubSeq(counts, 1, k))
      List(k, kind) == [i \in 1 .. counts[k] |->
                          <<kind, Field(range.base + end(k - 1) + 2 * (i - 1), 2)>>]
      lists == List(1, "schema") \o List(2, "decisions") \o List(5, "data items") \o List(3, "map")
      ok == found # {} /\ Fits(range, 0, end(Len(counts)))
<1>1. /\ phase = "descriptor"
      /\ phase' = IF ok THEN "build" ELSE "failed"
      /\ pending' = IF ok THEN lists ELSE pending
      /\ index' = IF ok THEN [index EXCEPT !.primary = descriptor.primary_resource_map_index]
                  ELSE index
      /\ file' = file /\ toc' = toc /\ data' = data /\ asked' = asked
  BY ONLY ReadDescriptor, Zenon DEF ReadDescriptor, Continue
<1>2. /\ FileIsWritten /\ TocIsRead /\ DataIsSliced
      /\ (\A i \in DOMAIN pending : pending[i][1] \in SectionKinds)
      /\ index = Unbuilt /\ asked = Unasked
  <2>1. phase # "ready" /\ phase = "descriptor"
    BY ONLY <1>1
  <2>2. QED
    BY ONLY IInv, <2>1, Zenon DEF IInv
<1>3. FileIsWritten' /\ TocIsRead' /\ DataIsSliced' /\ Content' = Content
  BY ONLY <1>1, <1>2, KeptAsItIs, Zenon
<1>4. PICK c, short, b : c = Content /\ short = file.short /\ b = data[1].base
  OBVIOUS
<1>5. /\ IsContents(c) /\ Carries(file.at, c, short) /\ IsSliced(c, short, file.len, data)
      /\ IsToc(c, toc)
  <2>1. IsContents(Content)
    BY ONLY <1>2, ContentIsWellFormed
  <2>2. QED
    BY ONLY <1>2, <1>4, <2>1, Zenon DEF FileIsWritten, DataIsSliced, TocIsRead
<1>6. found = {1} /\ Min(found) = 1 /\ range = data[1]
  BY ONLY <1>5, DescriptorFound, Zenon
<1>7. /\ Fits(range, 0, 28) <=> short # 1
      /\ b \in Nat /\ Laid(file.at, b, WriteDescriptor(c)) /\ range.base = b
  <2>1. (Fits(data[1], 0, 28) <=> short # 1) /\ data[1].base \in Nat
        /\ Laid(file.at, data[1].base, WriteDescriptor(c))
    BY ONLY <1>5, SectionsRead
  <2>2. QED
    BY ONLY <1>4, <1>6, <2>1, Zenon
<1>8. /\ Get(PriDescriptor, b).hierarchical_schema_count = 1
      /\ Get(PriDescriptor, b).decision_info_count = 1
      /\ Get(PriDescriptor, b).resource_map_count = 1
      /\ Get(PriDescriptor, b).primary_resource_map_index = PrimaryOf(c)
      /\ Get(PriDescriptor, b).referenced_file_sections_count = 0
      /\ Get(PriDescriptor, b).data_item_section_count = 1
      /\ Field(b + 20, 2) = 1 /\ Field(b + 22, 2) = 2
      /\ Field(b + 24, 2) = 3 /\ Field(b + 26, 2) = 4
  BY ONLY <1>7, DescriptorRead
<1>9. counts = <<1, 1, 1, 0, 1>>
  BY ONLY <1>7, <1>8, Zenon
<1>10. /\ end(0) = 20 /\ end(1) = 22 /\ end(2) = 24 /\ end(4) = 26 /\ end(Len(counts)) = 28
  <2>1. PICK w : w = counts
    OBVIOUS
  <2>2. w = <<1, 1, 1, 0, 1>>
    BY ONLY <1>9, <2>1, Zenon
  <2>3. /\ Len(w) = 5 /\ TotalOf(SubSeq(w, 1, 0)) = 0 /\ TotalOf(SubSeq(w, 1, 1)) = 1
        /\ TotalOf(SubSeq(w, 1, 2)) = 2 /\ TotalOf(SubSeq(w, 1, 4)) = 3 /\ TotalOf(SubSeq(w, 1, 5)) = 4
    BY ONLY <2>2, ListEnds
  <2>4. PriDescriptor.size = 20
    BY ONLY RecordSizes
  <2>5. \A k : end(k) = PriDescriptor.size + 2 * TotalOf(SubSeq(w, 1, k))
    BY ONLY <2>1, Zenon
  <2>6. Len(counts) = 5
    BY ONLY <2>1, <2>3, Zenon
  <2> HIDE DEF end, counts
  <2>7. /\ end(0) = 20 /\ end(1) = 22 /\ end(2) = 24 /\ end(4) = 26 /\ end(5) = 28
    BY ONLY <2>3, <2>4, <2>5
  <2>8. QED
    BY ONLY <2>6, <2>7, Zenon
<1>11. lists = Queue
  <2>1. \A k, kind : List(k, kind) = [i \in 1 .. counts[k] |-> <<kind, Field(b + end(k - 1) + 2 * (i - 1), 2)>>]
    BY ONLY <1>7, Zenon
  <2>2. PICK w : w = counts
    OBVIOUS
  <2>3. w[1] = 1 /\ w[2] = 1 /\ w[3] = 1 /\ w[5] = 1
    <3>1. w = <<1, 1, 1, 0, 1>>
      BY ONLY <1>9, <2>2, Zenon
    <3>2. QED
      BY ONLY <3>1
  <2>4. \A k, kind : List(k, kind) = [i \in 1 .. w[k] |-> <<kind, Field(b + end(k - 1) + 2 * (i - 1), 2)>>]
    BY ONLY <2>1, <2>2, Zenon
  <2> HIDE DEF List, end, counts
  <2>5. PICK k1, k2, k3, k4 : k1 = "schema" /\ k2 = "decisions" /\ k3 = "data items" /\ k4 = "map"
    BY Zenon
  <2>6. PICK e0, e1, e2, e4 : e0 = end(0) /\ e1 = end(1) /\ e2 = end(2) /\ e4 = end(4)
    OBVIOUS
  <2>7. e0 = 20 /\ e1 = 22 /\ e2 = 24 /\ e4 = 26
    BY ONLY <1>10, <2>6, Zenon
  <2>8. /\ 1 - 1 = 0 /\ 2 - 1 = 1 /\ 3 - 1 = 2 /\ 5 - 1 = 4
    OBVIOUS
  <2>9. /\ List(1, k1) = [i \in 1 .. 1 |-> <<k1, Field(b + e0 + 2 * (i - 1), 2)>>]
        /\ List(2, k2) = [i \in 1 .. 1 |-> <<k2, Field(b + e1 + 2 * (i - 1), 2)>>]
        /\ List(5, k3) = [i \in 1 .. 1 |-> <<k3, Field(b + e4 + 2 * (i - 1), 2)>>]
        /\ List(3, k4) = [i \in 1 .. 1 |-> <<k4, Field(b + e2 + 2 * (i - 1), 2)>>]
    BY ONLY <2>3, <2>4, <2>6, <2>8, Zenon
  <2>10. ASSUME NEW kind, NEW e \in Nat, NEW v, Field(b + e, 2) = v
         PROVE  [i \in 1 .. 1 |-> <<kind, Field(b + e + 2 * (i - 1), 2)>>] = << <<kind, v>> >>
    <3>1. \A i \in 1 .. 1 : i = 1
      OBVIOUS
    <3>2. b + e + 2 * (1 - 1) = b + e
      BY ONLY <1>7, e \in Nat
    <3>3. PICK f : f = [i \in 1 .. 1 |-> <<kind, Field(b + e + 2 * (i - 1), 2)>>]
      OBVIOUS
    <3>4. DOMAIN f = 1 .. 1 /\ f[1] = <<kind, Field(b + e + 2 * (1 - 1), 2)>>
      BY ONLY <3>3
    <3>5. f[1] = <<kind, v>>
      BY ONLY <2>10, <3>2, <3>4, Zenon
    <3>6. f = [i \in 1 .. 1 |-> f[1]]
      BY ONLY <3>1, <3>3, <3>4
    <3>7. PICK x : x = <<kind, v>>
      OBVIOUS
    <3>8. f = <<x>>
      BY ONLY <3>5, <3>6, <3>7
    <3>9. QED
      BY ONLY <3>3, <3>7, <3>8, Zenon
  <2>11. /\ List(1, k1) = << <<k1, 1>> >> /\ List(2, k2) = << <<k2, 2>> >>
         /\ List(5, k3) = << <<k3, 4>> >> /\ List(3, k4) = << <<k4, 3>> >>
    <3>1. /\ Field(b + e0, 2) = 1 /\ Field(b + e1, 2) = 2 /\ Field(b + e4, 2) = 4 /\ Field(b + e2, 2) = 3
      BY ONLY <1>8, <2>7, Zenon
    <3>2. e0 \in Nat /\ e1 \in Nat /\ e2 \in Nat /\ e4 \in Nat
      BY ONLY <2>7
    <3>3. PICK one, two, three, four : one = 1 /\ two = 2 /\ three = 3 /\ four = 4
      OBVIOUS
    <3>4. /\ Field(b + e0, 2) = one /\ Field(b + e1, 2) = two /\ Field(b + e4, 2) = four /\ Field(b + e2, 2) = three
      BY ONLY <3>1, <3>3, Zenon
    <3>5. [i \in 1 .. 1 |-> <<k1, Field(b + e0 + 2 * (i - 1), 2)>>] = << <<k1, one>> >>
      BY ONLY <2>10, <3>2, <3>4
    <3>6. [i \in 1 .. 1 |-> <<k2, Field(b + e1 + 2 * (i - 1), 2)>>] = << <<k2, two>> >>
      BY ONLY <2>10, <3>2, <3>4
    <3>7. [i \in 1 .. 1 |-> <<k3, Field(b + e4 + 2 * (i - 1), 2)>>] = << <<k3, four>> >>
      BY ONLY <2>10, <3>2, <3>4
    <3>8. [i \in 1 .. 1 |-> <<k4, Field(b + e2 + 2 * (i - 1), 2)>>] = << <<k4, three>> >>
      BY ONLY <2>10, <3>2, <3>4
    <3>9. QED
      BY ONLY <2>9, <3>3, <3>5, <3>6, <3>7, <3>8, Zenon
  <2>12. PICK r1, r2, r3, r4 : r1 = <<k1, 1>> /\ r2 = <<k2, 2>> /\ r3 = <<k3, 4>> /\ r4 = <<k4, 3>>
    OBVIOUS
  <2>13. <<r1>> \o <<r2>> \o <<r3>> \o <<r4>> = <<r1, r2, r3, r4>>
    BY ONLY FourInOrder
  <2>14. lists = <<r1>> \o <<r2>> \o <<r3>> \o <<r4>>
    BY ONLY <2>5, <2>11, <2>12, Zenon
  <2>15. Queue = <<r1, r2, r3, r4>>
    BY ONLY <2>5, <2>12, Zenon DEF Queue
  <2>16. QED
    BY ONLY <2>13, <2>14, <2>15, Zenon
<1>12. ok => short # 1
  BY ONLY <1>7, <1>10, Zenon
<1>13. descriptor.primary_resource_map_index = PrimaryOf(c)
  BY ONLY <1>7, <1>8, Zenon
<1> HIDE DEF found, range, descriptor, counts, end, List, lists, ok
<1>14. ok => Stage(0)'
  <2> SUFFICES ASSUME ok PROVE Stage(0)'
    OBVIOUS
  <2>1. pending' = SubSeq(Queue, 0 + 1, 4)
    BY ONLY <1>1, <1>11, ok, QueueSteps, Zenon
  <2>2. index' = IndexAfter(c, 0)
    <3>1. index' = [Unbuilt EXCEPT !.primary = PrimaryOf(c)]
      BY ONLY <1>1, <1>2, <1>13, ok, Zenon
    <3>2. QED
      BY ONLY <3>1, IndexGrows, Zenon
  <2>3. file'.short # 1 /\ \A j \in 1 .. 0 : file'.short # Queue[j][2] + 1
    BY ONLY <1>1, <1>4, <1>12, ok
  <2>4. QED
    BY ONLY <1>3, <1>4, <2>1, <2>2, <2>3, Zenon DEF Stage
<1>15. (ok /\ phase' = "build") \/ (~ok /\ phase' = "failed")
  BY ONLY <1>1, Zenon
<1>16. phase' \in Phases
  BY ONLY <1>15, Zenon DEF Phases
<1>17. /\ phase' # "ready" /\ phase' \notin {"read", "header", "sections", "descriptor"}
       /\ (phase' = "build" => \E k \in 0 .. 4 : Stage(k)')
  <2>1. phase' # "ready" /\ phase' \notin {"read", "header", "sections", "descriptor"}
    BY ONLY <1>15, Zenon
  <2>2. phase' = "build" => Stage(0)'
    BY ONLY <1>14, <1>15, Zenon
  <2>3. 0 \in 0 .. 4
    OBVIOUS
  <2>4. QED
    BY ONLY <2>1, <2>2, <2>3, Zenon
<1>18. \A i \in DOMAIN pending' : pending'[i][1] \in SectionKinds
  <2>1. CASE ok
    <3>1. pending' = SubSeq(Queue, 0 + 1, 4)
      BY ONLY <1>1, <1>11, ok, QueueSteps, Zenon
    <3>2. 0 \in 0 .. 4
      OBVIOUS
    <3>3. \A i \in DOMAIN SubSeq(Queue, 0 + 1, 4) : SubSeq(Queue, 0 + 1, 4)[i][1] \in SectionKinds
      BY ONLY <3>2, QueueSteps, Zenon
    <3>4. QED
      BY ONLY <3>1, <3>3, Zenon
  <2>2. CASE ~ok
    BY ONLY <1>1, <1>2, <2>2, Zenon
  <2>3. QED
    BY ONLY <2>1, <2>2
<1>19. (asked = Unasked)'
  BY ONLY <1>1, <1>2, Zenon DEF Unasked
<1>20. QED
  BY ONLY <1>3, <1>16, <1>17, <1>18, <1>19, Zenon DEF IInv

\* Whether the next section is there, what is built of it and what the index
\* then is.
NextSection(kind, at, k) ==
  /\ at + 1 \in DOMAIN toc /\ toc[at + 1].section_type \in Expected(kind)
  /\ \E v : /\ Yields(Build(kind, at + 1), file.short # at + 1, v)
            /\ [IndexAfter(Content, k) EXCEPT ![Place(kind)] = Insert(@, at, v)] = IndexAfter(Content, k + 1)

\* What Build does for each kind of section.
LEMMA BuildIs ==
  /\ Build("schema", 2) = BuildSchema(data[2], toc[2].section_type = "HierarchicalSchemaEx")
  /\ Build("decisions", 3) = BuildDecisions(data[3])
  /\ Build("data items", 5) = BuildDataItems(data[5])
  /\ Build("map", 4) = BuildMap(data[4])
BY ONLY Zenon DEF Build

\* Each section of the queue is the next one when its turn comes.
LEMMA EverySection ==
  ASSUME FileIsWritten, TocIsRead, DataIsSliced
  PROVE  /\ NextSection("schema", 1, 0) /\ NextSection("decisions", 2, 1)
         /\ NextSection("data items", 4, 2) /\ NextSection("map", 3, 3)
<1>1. PICK c, short : c = Content /\ short = file.short
  OBVIOUS
<1>2. /\ IsContents(c) /\ Carries(file.at, c, short) /\ IsSliced(c, short, file.len, data)
      /\ IsToc(c, toc)
  <2>1. IsContents(Content)
    BY ONLY FileIsWritten, ContentIsWellFormed
  <2>2. QED
    BY ONLY FileIsWritten, TocIsRead, DataIsSliced, <1>1, <2>1, Zenon DEF FileIsWritten, DataIsSliced, TocIsRead
<1>3. /\ Yields(BuildSchema(data[2], c.extended), short # 2, SchemaOf(c))
      /\ Yields(BuildDecisions(data[3]), short # 3, c.decisions)
      /\ Yields(BuildMap(data[4]), short # 4, MapOf(c))
      /\ Yields(BuildDataItems(data[5]), short # 5, DataItemsOf(c))
  BY ONLY <1>2, SectionsRead
<1>4. /\ 2 \in DOMAIN toc /\ toc[2].section_type \in Expected("schema")
      /\ 3 \in DOMAIN toc /\ toc[3].section_type \in Expected("decisions")
      /\ 4 \in DOMAIN toc /\ toc[4].section_type \in Expected("map")
      /\ 5 \in DOMAIN toc /\ toc[5].section_type \in Expected("data items")
      /\ (toc[2].section_type = "HierarchicalSchemaEx") = c.extended
  BY ONLY <1>2, TypesFit, Zenon
<1>5. /\ Yields(Build("schema", 2), short # 2, SchemaOf(c))
      /\ Yields(Build("decisions", 3), short # 3, c.decisions)
      /\ Yields(Build("map", 4), short # 4, MapOf(c))
      /\ Yields(Build("data items", 5), short # 5, DataItemsOf(c))
  BY ONLY <1>3, <1>4, BuildIs, Zenon
<1>6. /\ 1 + 1 = 2 /\ 2 + 1 = 3 /\ 4 + 1 = 5 /\ 3 + 1 = 4 /\ 0 + 1 = 1
  OBVIOUS
<1>7. NextSection("schema", 1, 0)
  <2>1. [IndexAfter(Content, 0) EXCEPT ![Place("schema")] = Insert(@, 1, SchemaOf(c))] = IndexAfter(Content, 0 + 1)
    BY ONLY <1>1, <1>6, IndexGrows, Zenon
  <2>2. Yields(Build("schema", 1 + 1), file.short # 1 + 1, SchemaOf(c))
    BY ONLY <1>1, <1>5, <1>6, Zenon
  <2>3. 1 + 1 \in DOMAIN toc /\ toc[1 + 1].section_type \in Expected("schema")
    BY ONLY <1>4, <1>6, Zenon
  <2>4. QED
    BY ONLY <2>1, <2>2, <2>3, Zenon DEF NextSection
<1>8. NextSection("decisions", 2, 1)
  <2>1. [IndexAfter(Content, 1) EXCEPT ![Place("decisions")] = Insert(@, 2, c.decisions)] = IndexAfter(Content, 1 + 1)
    BY ONLY <1>1, <1>6, IndexGrows, Zenon
  <2>2. Yields(Build("decisions", 2 + 1), file.short # 2 + 1, c.decisions)
    BY ONLY <1>1, <1>5, <1>6, Zenon
  <2>3. 2 + 1 \in DOMAIN toc /\ toc[2 + 1].section_type \in Expected("decisions")
    BY ONLY <1>4, <1>6, Zenon
  <2>4. QED
    BY ONLY <2>1, <2>2, <2>3, Zenon DEF NextSection
<1>9. NextSection("data items", 4, 2)
  <2>1. [IndexAfter(Content, 2) EXCEPT ![Place("data items")] = Insert(@, 4, DataItemsOf(c))] = IndexAfter(Content, 2 + 1)
    BY ONLY <1>1, <1>6, IndexGrows, Zenon
  <2>2. Yields(Build("data items", 4 + 1), file.short # 4 + 1, DataItemsOf(c))
    BY ONLY <1>1, <1>5, <1>6, Zenon
  <2>3. 4 + 1 \in DOMAIN toc /\ toc[4 + 1].section_type \in Expected("data items")
    BY ONLY <1>4, <1>6, Zenon
  <2>4. QED
    BY ONLY <2>1, <2>2, <2>3, Zenon DEF NextSection
<1>10. NextSection("map", 3, 3)
  <2>1. [IndexAfter(Content, 3) EXCEPT ![Place("map")] = Insert(@, 3, MapOf(c))] = IndexAfter(Content, 3 + 1)
    BY ONLY <1>1, <1>6, IndexGrows, Zenon
  <2>2. Yields(Build("map", 3 + 1), file.short # 3 + 1, MapOf(c))
    BY ONLY <1>1, <1>5, <1>6, Zenon
  <2>3. 3 + 1 \in DOMAIN toc /\ toc[3 + 1].section_type \in Expected("map")
    BY ONLY <1>4, <1>6, Zenon
  <2>4. QED
    BY ONLY <2>1, <2>2, <2>3, Zenon DEF NextSection
<1>11. QED
  BY ONLY <1>7, <1>8, <1>9, <1>10, Zenon

\* The queue of the sections, row by row.
LEMMA QueueRows ==
  /\ Queue[1][1] = "schema" /\ Queue[1][2] = 1 /\ Queue[2][1] = "decisions" /\ Queue[2][2] = 2
  /\ Queue[3][1] = "data items" /\ Queue[3][2] = 4 /\ Queue[4][1] = "map" /\ Queue[4][2] = 3
<1>1. PICK k1, k2, k3, k4 : k1 = "schema" /\ k2 = "decisions" /\ k3 = "data items" /\ k4 = "map"
  BY Zenon
<1>2. PICK q : q = Queue
  OBVIOUS
<1>3. q = << <<k1, 1>>, <<k2, 2>>, <<k3, 4>>, <<k4, 3>> >>
  BY ONLY <1>1, <1>2, Zenon DEF Queue
<1>4. /\ q[1][1] = k1 /\ q[1][2] = 1 /\ q[2][1] = k2 /\ q[2][2] = 2
      /\ q[3][1] = k3 /\ q[3][2] = 4 /\ q[4][1] = k4 /\ q[4][2] = 3
  BY ONLY <1>3
<1>5. QED
  BY ONLY <1>1, <1>2, <1>4, Zenon

\* The same, by the place in the queue.
LEMMA NextOfQueue ==
  ASSUME FileIsWritten, TocIsRead, DataIsSliced, NEW k \in 0 .. 3
  PROVE  NextSection(Queue[k + 1][1], Queue[k + 1][2], k)
<1>1. k = 0 \/ k = 1 \/ k = 2 \/ k = 3
  BY ONLY k \in 0 .. 3
<1>2. 0 + 1 = 1 /\ 1 + 1 = 2 /\ 2 + 1 = 3 /\ 3 + 1 = 4
  OBVIOUS
<1>3. /\ NextSection("schema", 1, 0) /\ NextSection("decisions", 2, 1)
      /\ NextSection("data items", 4, 2) /\ NextSection("map", 3, 3)
  BY ONLY FileIsWritten, TocIsRead, DataIsSliced, EverySection
<1>4. CASE k = 0
  BY ONLY <1>2, <1>3, <1>4, QueueRows, Zenon
<1>5. CASE k = 1
  BY ONLY <1>2, <1>3, <1>5, QueueRows, Zenon
<1>6. CASE k = 2
  BY ONLY <1>2, <1>3, <1>6, QueueRows, Zenon
<1>7. CASE k = 3
  BY ONLY <1>2, <1>3, <1>7, QueueRows, Zenon
<1>8. QED
  BY ONLY <1>1, <1>4, <1>5, <1>6, <1>7

\* It is kept by BuildSection.
LEMMA BuildSectionKeeps == IInv /\ BuildSection => IInv'
<1> SUFFICES ASSUME IInv, BuildSection PROVE IInv'
  OBVIOUS
<1> DEFINE
      kind  == Head(pending)[1]
      at    == Head(pending)[2]
      named == at + 1 \in DOMAIN toc /\ toc[at + 1].section_type \in Expected(kind)
<1>1. /\ phase = "build" /\ pending # <<>> /\ pending' = Tail(pending)
      /\ file' = file /\ toc' = toc /\ data' = data /\ asked' = asked
  BY ONLY BuildSection, Zenon DEF BuildSection
<1>2. PICK built : /\ built = (IF named THEN Build(kind, at + 1) ELSE <<>>)
                   /\ phase' = IF built # <<>> THEN "build" ELSE "failed"
                   /\ index' = IF built = <<>> THEN index
                               ELSE [index EXCEPT ![Place(kind)] = Insert(@, at, built[1])]
  BY ONLY BuildSection, Zenon DEF BuildSection, Continue
<1>3. /\ FileIsWritten /\ TocIsRead /\ DataIsSliced /\ asked = Unasked
      /\ \E k \in 0 .. 4 : Stage(k)
  <2>1. phase # "ready" /\ phase = "build"
    BY ONLY <1>1
  <2>2. QED
    BY ONLY IInv, <2>1, Zenon DEF IInv
<1>4. FileIsWritten' /\ TocIsRead' /\ DataIsSliced' /\ Content' = Content
  BY ONLY <1>1, <1>3, KeptAsItIs, Zenon
<1>5. PICK k \in 0 .. 4 : Stage(k)
  BY ONLY <1>3, Zenon
<1>6. /\ pending = SubSeq(Queue, k + 1, 4) /\ index = IndexAfter(Content, k)
      /\ file.short # 1 /\ \A j \in 1 .. k : file.short # Queue[j][2] + 1
  BY ONLY <1>5, Zenon DEF Stage
<1>7. k # 4
  BY ONLY <1>1, <1>6, QueueSteps, Zenon
<1>8. k \in 0 .. 3 /\ k + 1 \in 0 .. 4
  BY ONLY <1>7, k \in 0 .. 4
<1>9. /\ Head(pending) = Queue[k + 1] /\ Tail(pending) = SubSeq(Queue, (k + 1) + 1, 4)
  BY ONLY <1>6, <1>8, QueueSteps, Zenon
<1>10. NextSection(kind, at, k)
  <2>1. NextSection(Queue[k + 1][1], Queue[k + 1][2], k)
    BY ONLY <1>3, <1>8, NextOfQueue
  <2>2. QED
    BY ONLY <1>9, <2>1, Zenon
<1>11. PICK v : /\ Yields(Build(kind, at + 1), file.short # at + 1, v)
                /\ [IndexAfter(Content, k) EXCEPT ![Place(kind)] = Insert(@, at, v)] = IndexAfter(Content, k + 1)
  BY ONLY <1>10, Zenon DEF NextSection
<1>12. named
  BY ONLY <1>10, Zenon DEF NextSection
<1>13. Yields(built, file.short # at + 1, v)
  BY ONLY <1>2, <1>11, <1>12, Zenon
<1>14. PICK pair : pair = Queue[k + 1]
  OBVIOUS
<1>15. at = pair[2]
  BY ONLY <1>9, <1>14, Zenon
<1> HIDE DEF named
<1>16. CASE file.short # at + 1
  <2>1. built = <<v>>
    BY ONLY <1>13, <1>16, Zenon DEF Yields
  <2>2. built # <<>> /\ built[1] = v
    BY ONLY <2>1
  <2>3. phase' = "build"
    BY ONLY <1>2, <2>2, Zenon
  <2>4. index' = [index EXCEPT ![Place(kind)] = Insert(@, at, v)]
    BY ONLY <1>2, <2>2, Zenon
  <2>5. index' = IndexAfter(Content, k + 1)
    BY ONLY <1>6, <1>11, <2>4, Zenon
  <2>6. \A j \in 1 .. k + 1 : file.short # Queue[j][2] + 1
    <3>1. PICK short, a : short = file.short /\ a = at
      OBVIOUS
    <3>2. short # a + 1 /\ a = Queue[k + 1][2]
      BY ONLY <1>14, <1>15, <1>16, <3>1, Zenon
    <3>3. \A j \in 1 .. k : short # Queue[j][2] + 1
      BY ONLY <1>6, <3>1, Zenon
    <3>4. \A j \in 1 .. k + 1 : j \in 1 .. k \/ j = k + 1
      BY ONLY <1>8
    <3>5. \A j \in 1 .. k + 1 : short # Queue[j][2] + 1
      BY ONLY <3>2, <3>3, <3>4, Zenon
    <3>6. QED
      BY ONLY <3>1, <3>5, Zenon
  <2>7. Stage(k + 1)'
    BY ONLY <1>1, <1>4, <1>6, <1>9, <2>5, <2>6, Zenon DEF Stage
  <2>8. \E m \in 0 .. 4 : Stage(m)'
    BY ONLY <1>8, <2>7, Zenon
  <2>9. \A i \in DOMAIN pending' : pending'[i][1] \in SectionKinds
    BY ONLY <1>1, <1>8, <1>9, QueueSteps, Zenon
  <2>10. phase' \in Phases
    BY ONLY <2>3, Zenon DEF Phases
  <2>11. (asked = Unasked)'
    BY ONLY <1>1, <1>3, Zenon DEF Unasked
  <2>12. phase' # "ready" /\ phase' \notin {"read", "header", "sections", "descriptor"}
    BY ONLY <2>3, Zenon
  <2>13. QED
    BY ONLY <1>4, <2>8, <2>9, <2>10, <2>11, <2>12, Zenon DEF IInv
<1>17. CASE ~(file.short # at + 1)
  <2>1. built = <<>>
    BY ONLY <1>13, <1>17, Zenon DEF Yields
  <2>2. phase' = "failed"
    BY ONLY <1>2, <2>1, Zenon
  <2>3. \A i \in DOMAIN pending' : pending'[i][1] \in SectionKinds
    BY ONLY <1>1, <1>8, <1>9, QueueSteps, Zenon
  <2>4. phase' \in Phases
    BY ONLY <2>2, Zenon DEF Phases
  <2>5. (asked = Unasked)'
    BY ONLY <1>1, <1>3, Zenon DEF Unasked
  <2>6. phase' # "ready" /\ phase' # "build" /\ phase' \notin {"read", "header", "sections", "descriptor"}
    BY ONLY <2>2, Zenon
  <2>7. QED
    BY ONLY <1>4, <2>3, <2>4, <2>5, <2>6, Zenon DEF IInv
<1>18. QED
  BY ONLY <1>16, <1>17

\* It is kept by Finish.
LEMMA FinishKeeps == IInv /\ Finish => IInv'
<1> SUFFICES ASSUME IInv, Finish PROVE IInv'
  OBVIOUS
<1>1. /\ phase = "build" /\ pending = <<>> /\ phase' = "ready"
      /\ file' = file /\ toc' = toc /\ data' = data /\ pending' = pending /\ index' = index /\ asked' = asked
  BY ONLY Finish, Zenon DEF Finish
<1>2. /\ FileIsWritten /\ TocIsRead /\ DataIsSliced /\ asked = Unasked
      /\ (\A i \in DOMAIN pending : pending[i][1] \in SectionKinds)
      /\ \E k \in 0 .. 4 : Stage(k)
  <2>1. phase # "ready" /\ phase = "build"
    BY ONLY <1>1
  <2>2. QED
    BY ONLY IInv, <2>1, Zenon DEF IInv
<1>3. FileIsWritten' /\ TocIsRead' /\ DataIsSliced'
  BY ONLY <1>1, <1>2, KeptAsItIs, Zenon
<1>4. PICK k \in 0 .. 4 : Stage(k)
  BY ONLY <1>2, Zenon
<1>5. pending = SubSeq(Queue, k + 1, 4)
  BY ONLY <1>4, Zenon DEF Stage
<1>6. k \notin 0 .. 3
  BY ONLY <1>1, <1>5, QueueSteps, Zenon
<1>7. k = 4
  BY ONLY <1>6, k \in 0 .. 4
<1>8. Stage(4)'
  BY ONLY <1>1, <1>4, <1>7, KeptAsItIs, Zenon
<1>9. phase' \in Phases /\ phase' # "build" /\ phase' \notin {"read", "header", "sections", "descriptor"}
  BY ONLY <1>1, Zenon DEF Phases
<1>10. (asked = Unasked)' /\ (\A i \in DOMAIN pending : pending[i][1] \in SectionKinds)'
  BY ONLY <1>1, <1>2, Zenon DEF Unasked
<1>11. QED
  BY ONLY <1>3, <1>8, <1>9, <1>10, Zenon DEF IInv

\* It is kept by a question.
LEMMA AskKeeps == \A path \in Paths, ctx \in Contexts : IInv /\ Ask(path, ctx) => IInv'
<1> SUFFICES ASSUME NEW path \in Paths, NEW ctx \in Contexts, IInv, Ask(path, ctx) PROVE IInv'
  BY Zenon
<1>1. /\ phase = "ready" /\ phase' = phase
      /\ file' = file /\ toc' = toc /\ data' = data /\ pending' = pending /\ index' = index
      /\ asked' = [path |-> path, ctx |-> ctx, answer |-> Resolve(index, path, ctx),
                   explain |-> Explain(index, path, ctx)]
  BY ONLY Ask(path, ctx), Zenon DEF Ask
<1>2. /\ FileIsWritten /\ TocIsRead /\ DataIsSliced /\ Stage(4) /\ phase \in Phases
      /\ (\A i \in DOMAIN pending : pending[i][1] \in SectionKinds)
  BY ONLY IInv, <1>1, Zenon DEF IInv
<1>3. FileIsWritten' /\ TocIsRead' /\ DataIsSliced' /\ Stage(4)'
  BY ONLY <1>1, <1>2, KeptAsItIs, Zenon
<1>4. Answered'
  BY ONLY <1>1, path \in Paths, ctx \in Contexts, Zenon DEF Answered, Paths
<1>5. (phase \in Phases)' /\ phase' # "build" /\ phase' \notin {"read", "header", "sections", "descriptor"}
  BY ONLY <1>1, <1>2, Zenon DEF Phases
<1>6. (\A i \in DOMAIN pending : pending[i][1] \in SectionKinds)' /\ phase' = "ready"
  BY ONLY <1>1, <1>2, Zenon
<1>7. QED
  BY ONLY <1>3, <1>4, <1>5, <1>6, Zenon DEF IInv

\* It is kept if nothing changes.
LEMMA StutterKeeps == IInv /\ UNCHANGED vars => IInv'
<1> SUFFICES ASSUME IInv, UNCHANGED vars PROVE IInv'
  OBVIOUS
<1>1. file' = file /\ phase' = phase /\ toc' = toc /\ data' = data /\ pending' = pending /\ index' = index /\ asked' = asked
  BY ONLY UNCHANGED vars, Zenon DEF vars
<1>2. \A k : Stage(k) => Stage(k)'
  BY ONLY <1>1, KeptAsItIs, Zenon
<1>3. (FileIsWritten => FileIsWritten') /\ (TocIsRead => TocIsRead') /\ (DataIsSliced => DataIsSliced')
  BY ONLY <1>1, KeptAsItIs, Zenon
<1>4. Answered => Answered'
  BY ONLY <1>1, Zenon DEF Answered, Paths
<1>5. QED
  BY ONLY IInv, <1>1, <1>2, <1>3, <1>4, Zenon DEF IInv, Phases, SectionKinds, Unbuilt, Unasked

\* The invariant of reading: in every phase the state is what the contents
\* written to the file say, as far as they have been read (Pri::read).
THEOREM Invariant == Spec => []IInv
<1>1. Init => IInv
  BY InitIInv
<1>2. IInv /\ [Next]_vars => IInv'
  BY ReadToEndKeeps, ReadHeaderKeeps, SliceSectionsKeeps, ReadDescriptorKeeps, BuildSectionKeeps,
     FinishKeeps, AskKeeps, StutterKeeps, Zenon DEF Next
<1>3. QED
  BY <1>1, <1>2, PTL DEF Spec

\* An index that is ready is of a whole file.
LEMMA ReadyIsWhole == IInv /\ phase = "ready" => file.len = file.whole /\ file.short = 0
<1> SUFFICES ASSUME IInv, phase = "ready" PROVE file.len = file.whole /\ file.short = 0
  OBVIOUS
<1>1. FileIsWritten /\ DataIsSliced /\ Stage(4)
  BY ONLY IInv, phase = "ready", Zenon DEF IInv
<1>2. PICK c, short, len, whole : c = Content /\ short = file.short /\ len = file.len /\ whole = file.whole
  OBVIOUS
<1>3. /\ short \in 0 .. 5 /\ len \in Nat /\ len <= whole /\ whole = 192 + Begin(c, 6)
  BY ONLY <1>1, <1>2, Zenon DEF FileIsWritten
<1>4. IsSliced(c, short, len, data) /\ IsContents(c)
  BY ONLY <1>1, <1>2, ContentIsWellFormed, Zenon DEF DataIsSliced
<1>5. short = 0
  <2>1. PICK a, b, d, e : a = Queue[1][2] /\ b = Queue[2][2] /\ d = Queue[3][2] /\ e = Queue[4][2]
    OBVIOUS
  <2>2. a = 1 /\ b = 2 /\ d = 4 /\ e = 3
    BY ONLY <2>1, QueueRows, Zenon
  <2>3. 1 \in 1 .. 4 /\ 2 \in 1 .. 4 /\ 3 \in 1 .. 4 /\ 4 \in 1 .. 4
    OBVIOUS
  <2>4. short # 1 /\ short # a + 1 /\ short # b + 1 /\ short # d + 1 /\ short # e + 1
    BY ONLY <1>1, <1>2, <2>1, <2>3, Zenon DEF Stage
  <2>5. QED
    BY ONLY <1>3, <2>2, <2>4
<1>6. PICK n, g, r : n = SizeOf(Bodies(c)[5]) /\ g = Begin(c, 5) /\ r = data[5]
  OBVIOUS
<1>7. n \in Nat /\ g \in Nat /\ Begin(c, 6) = g + n + 32
  <2>1. 5 \in 1 .. 5 /\ 5 \in 1 .. 6 /\ 5 + 1 = 6
    OBVIOUS
  <2>2. QED
    BY ONLY <1>4, <1>6, <2>1, BeginDef
<1>8. r.base = 192 + g + 32 /\ r.len = Slice(c, short, 5) /\ r.base + r.len <= len
  <2>1. 5 \in 1 .. 5
    OBVIOUS
  <2>2. QED
    BY ONLY <1>4, <1>6, <2>1, Zenon DEF IsSliced
<1>9. Slice(c, short, 5) = n - (IF 5 = short THEN 1 ELSE 0)
  BY ONLY <1>6, Zenon DEF Slice
<1>10. len = whole
  BY ONLY <1>3, <1>5, <1>7, <1>8, <1>9
<1>11. QED
  BY ONLY <1>2, <1>5, <1>10, Zenon

\* A file that was cut off, or one with a section shorter than its tables, never
\* becomes an index (the bounds checks of Pri::read and the builders).
THEOREM OnlyWholeFilesAreRead == Spec => []IncompleteIsRefused
<1>1. IInv => IncompleteIsRefused
  BY ONLY ReadyIsWhole, Zenon DEF IncompleteIsRefused
<1>2. QED
  BY <1>1, Invariant, PTL

\* The invariant has the types of the state.
LEMMA InvariantTypes == IInv => TypeOK
<1> SUFFICES ASSUME IInv PROVE TypeOK
  OBVIOUS
<1>1. /\ phase \in Phases /\ FileIsWritten /\ (toc = <<>> \/ TocIsRead) /\ (data = <<>> \/ DataIsSliced)
      /\ \A i \in DOMAIN pending : pending[i][1] \in SectionKinds
  BY ONLY IInv, Zenon DEF IInv
<1>2. phase \in {"read", "header", "sections", "descriptor", "build", "ready", "failed"}
  BY ONLY <1>1, Zenon DEF Phases
<1>3. \A i \in DOMAIN toc : toc[i].section_type \in SectionTypes
  <2>1. CASE toc = <<>>
    <3>1. DOMAIN toc = {}
      BY ONLY <2>1
    <3>2. QED
      BY ONLY <3>1, Zenon
  <2>2. CASE TocIsRead
    <3>1. IsContents(Content) /\ IsToc(Content, toc)
      BY ONLY <1>1, <2>2, ContentIsWellFormed, Zenon DEF TocIsRead
    <3>2. QED
      BY ONLY <3>1, TypesFit, Zenon
  <2>3. QED
    BY ONLY <1>1, <2>1, <2>2
<1>4. file.of \in DOMAIN Contents /\ file.short \in 0 .. Sections /\ file.len \in Nat
  <2>1. Sections = 5
    BY DEF Sections
  <2>2. QED
    BY ONLY <1>1, <2>1, Zenon DEF FileIsWritten
<1>5. \A i \in DOMAIN data : data[i].len \in Nat /\ data[i].base + data[i].len <= file.len
  <2>1. CASE data = <<>>
    <3>1. DOMAIN data = {}
      BY ONLY <2>1
    <3>2. QED
      BY ONLY <3>1, Zenon
  <2>2. CASE DataIsSliced
    BY ONLY <2>2, Zenon DEF DataIsSliced, IsSliced
  <2>3. QED
    BY ONLY <1>1, <2>1, <2>2
<1>6. \A i \in DOMAIN pending : pending[i][1] \in {"schema", "decisions", "data items", "map"}
  BY ONLY <1>1, Zenon DEF SectionKinds
<1>7. QED
  BY ONLY <1>2, <1>3, <1>4, <1>5, <1>6, Zenon DEF TypeOK

\* Every range of a section lies in the file, and the rest is of its type.
THEOREM TypesAreKept == Spec => []TypeOK
<1>1. QED
  BY InvariantTypes, Invariant, PTL

-----------------------------------------------------------------------------
\* Scores: what a qualifier, a set and a decision are worth.

\* Among numbered things there is one that is at least as great as the others.
LEMMA Greatest ==
  ASSUME NEW n \in Nat, NEW f \in [1 .. n -> Int], NEW M, M \subseteq 1 .. n, M # {}
  PROVE  \E i \in M : \A j \in M : f[j] <= f[i]
<1> DEFINE Upto0(k) == M \cap (1 .. k)
           S == {k \in Nat : k <= n /\ Upto0(k) # {} =>
                   \E i \in Upto0(k) : \A j \in Upto0(k) : f[j] <= f[i]}
<1>1. 0 \in S
  <2>1. Upto0(0) = {}
    OBVIOUS
  <2>2. QED
    BY <2>1
<1>2. ASSUME NEW k \in S PROVE k + 1 \in S
  <2>1. k \in Nat /\ k + 1 \in Nat
    OBVIOUS
  <2>2. SUFFICES ASSUME k + 1 <= n, Upto0(k + 1) # {}
                 PROVE  \E i \in Upto0(k + 1) : \A j \in Upto0(k + 1) : f[j] <= f[i]
    BY <2>1
  <2>3. \A j \in Upto0(k + 1) : j = k + 1 \/ j \in Upto0(k)
    BY <2>1
  <2>4. CASE k + 1 \notin M
    <3>1. Upto0(k + 1) = Upto0(k)
      BY <2>1, <2>4
    <3>2. k <= n /\ Upto0(k) # {}
      BY <2>1, <2>2, <3>1
    <3>3. \E i \in Upto0(k) : \A j \in Upto0(k) : f[j] <= f[i]
      BY <3>2
    <3>4. QED
      BY ONLY <3>1, <3>3
  <2>5. CASE k + 1 \in M /\ Upto0(k) = {}
    <3>1. k + 1 \in Upto0(k + 1) /\ \A j \in Upto0(k + 1) : j = k + 1
      BY <2>1, <2>3, <2>5
    <3>2. f[k + 1] \in Int
      BY <2>1, <2>2
    <3>3. \A j \in Upto0(k + 1) : f[j] <= f[k + 1]
      BY <3>1, <3>2
    <3>4. QED
      BY <3>1, <3>3
  <2>6. CASE k + 1 \in M /\ Upto0(k) # {}
    <3>1. PICK i \in Upto0(k) : \A j \in Upto0(k) : f[j] <= f[i]
      BY <2>1, <2>2, <2>6
    <3>2. k + 1 \in Upto0(k + 1) /\ i \in Upto0(k + 1)
      BY <2>1, <2>6
    <3>3. f[k + 1] \in Int /\ f[i] \in Int /\ \A j \in Upto0(k) : f[j] \in Int
      BY <2>1, <2>2
    <3>4. CASE f[k + 1] <= f[i]
      <4>1. \A j \in Upto0(k + 1) : f[j] <= f[i]
        BY <2>3, <3>1, <3>4
      <4>2. QED
        BY <3>2, <4>1
    <3>5. CASE f[i] <= f[k + 1]
      <4>1. \A j \in Upto0(k) : f[j] <= f[k + 1]
        BY <3>1, <3>3, <3>5
      <4>2. \A j \in Upto0(k + 1) : f[j] <= f[k + 1]
        BY <2>3, <3>3, <4>1
      <4>3. QED
        BY <3>2, <4>2
    <3>6. QED
      BY <3>3, <3>4, <3>5
  <2>7. QED
    BY <2>4, <2>5, <2>6
<1>3. S = Nat
  <2> HIDE DEF S
  <2>1. S \subseteq Nat
    BY DEF S
  <2>2. QED
    BY <1>1, <1>2, <2>1, InductionOnSet
<1>4. n \in S /\ Upto0(n) = M
  BY <1>3
<1>5. QED
  BY <1>4

\* The minimum of one number.
LEMMA MinOfOne == ASSUME NEW i \in Int PROVE Min({i}) = i
  BY DEF Min

\* The minimum of two.
LEMMA MinOfTwo ==
  ASSUME NEW a \in Int, NEW b \in Int
  PROVE  Min({a, b}) = IF a <= b THEN a ELSE b
BY DEF Min

\* The maximum of two.
LEMMA MaxOfTwo ==
  ASSUME NEW a \in Int, NEW b \in Int
  PROVE  Max({a, b}) = IF a >= b THEN a ELSE b
BY DEF Max
-----------------------------------------------------------------------------
\* The scores of one qualifier.
LEMMA LanguageScore ==
  ASSUME NEW n \in Nat, NEW preferred, DOMAIN preferred = 1 .. n, Len(preferred) = n, NEW value
  PROVE  \/ MatchLanguage(preferred, value) = -1
         \/ MatchLanguage(preferred, value) \in Nat /\ MatchLanguage(preferred, value) >= 500
<1> DEFINE matching == {i \in 1 .. Len(preferred) :
                          LanguageMatchScore(preferred[i], value) # NoMatch}
           Score(i) == LanguageMatchScore(preferred[i], value) + Max({0, 1000 - (i - 1)})
<1>1. MatchLanguage(preferred, value) = IF matching = {} THEN NoMatch ELSE Max({Score(i) : i \in matching})
  BY ONLY Zenon DEF MatchLanguage
<1>2. NoMatch = -1
  BY DEF NoMatch
<1>3. ASSUME NEW i \in matching PROVE Score(i) \in Nat /\ Score(i) >= 500
  <2>1. PICK s, t : s = LanguageMatchScore(preferred[i], value) /\ t = Max({0, 1000 - (i - 1)})
    OBVIOUS
  <2>2. s = 1000 \/ s = 500 \/ s = NoMatch
    <3>1. PICK p, none : p = preferred[i] /\ none = NoMatch
      OBVIOUS
    <3>2. LanguageMatchScore(p, value) = 1000 \/ LanguageMatchScore(p, value) = 500
          \/ LanguageMatchScore(p, value) = none
      BY ONLY <3>1, SMT DEF LanguageMatchScore
    <3>3. QED
      BY ONLY <2>1, <3>1, <3>2
  <2>3. s # NoMatch /\ i \in Int
    BY <1>3, <2>1
  <2>4. t \in Nat
    <3>1. PICK b \in Int : b = 1000 - (i - 1)
      BY <2>3
    <3>2. t = IF 0 >= b THEN 0 ELSE b
      BY <2>1, <3>1, MaxOfTwo
    <3>3. QED
      BY <3>1, <3>2
  <2>5. QED
    BY <2>1, <2>2, <2>3, <2>4
<1>4. CASE matching = {}
  BY <1>1, <1>2, <1>4
<1>5. CASE matching # {}
  <2>1. PICK m : m = matching
    OBVIOUS
  <2>2. m \subseteq 1 .. n
    BY <2>1
  <2>3. PICK f : f = [i \in 1 .. n |-> IF i \in m THEN Score(i) ELSE 0]
    OBVIOUS
  <2> HIDE DEF matching, Score
  <2>4. f \in [1 .. n -> Int] /\ \A i \in m : f[i] = Score(i)
    BY <1>3, <2>1, <2>2, <2>3
  <2>5. PICK i \in m : \A j \in m : f[j] <= f[i]
    BY <1>5, <2>1, <2>2, <2>4, Greatest
  <2>6. PICK X : X = {Score(j) : j \in matching}
    OBVIOUS
  <2>7. Score(i) \in X /\ \A y \in X : Score(i) >= y
    BY <2>1, <2>4, <2>5, <2>6
  <2>8. Max(X) \in X
    BY <2>7 DEF Max
  <2>9. Max(X) \in Nat /\ Max(X) >= 500
    BY <1>3, <2>6, <2>8
  <2>10. QED
    BY <1>1, <1>5, <2>6, <2>9
<1>6. QED
  BY <1>4, <1>5

\* What a number is worth: nothing above the current one, less the further
\* below it.
LEMMA NumericScore ==
  ASSUME NEW current \in Nat, NEW value \in Int
  PROVE  /\ value < 0 \/ value > current => MatchNumeric(current, value) = -1
         /\ value \in 0 .. current /\ current - value < 1000 =>
              MatchNumeric(current, value) = 1000 - (current - value)
         /\ value \in 0 .. current /\ current - value >= 1000 => MatchNumeric(current, value) = 0
<1>1. PICK d \in Int : d = current - value
  OBVIOUS
<1>2. Min({d, 1000}) = IF d <= 1000 THEN d ELSE 1000
  BY MinOfTwo
<1>3. NoMatch = -1
  BY DEF NoMatch
<1>4. MatchNumeric(current, value) = IF value >= 0 /\ value <= current THEN 1000 - Min({d, 1000}) ELSE NoMatch
  BY <1>1 DEF MatchNumeric
<1>5. QED
  BY <1>1, <1>2, <1>3, <1>4

\* What a qualifier tests is of its type.
LEMMA TestedQualifier ==
  ASSUME NEW q, IsQualifier(q)
  PROVE  q.value \in ValuesOf(q.type) /\ q.fallback_score \in Nat
<1>1. PICK A, B, C : A = Range(QualifierTypes) /\ B = ValuesOf(q.type) /\ C = Nat
  OBVIOUS
<1>2. q \in [type : A, value : B, priority : C, fallback_score : C]
  BY ONLY <1>1, IsQualifier(q), Zenon DEF IsQualifier
<1>3. q.value \in B /\ q.fallback_score \in C
  BY ONLY <1>2
<1>4. QED
  BY ONLY <1>1, <1>3, Zenon

\* A numeric type is not the language and not custom; its values are numbers.
LEMMA NumericTypes ==
  ASSUME NEW type, type \in Numeric
  PROVE  type # "Language" /\ type # "Custom" /\ ValuesOf(type) = Int
<1>1. type = "Scale" \/ type = "TargetSize"
  BY ONLY type \in Numeric, Zenon DEF Numeric
<1>2. type # "Language" /\ type # "Custom"
  BY ONLY <1>1
<1>3. ValuesOf(type) = Int
  BY ONLY <1>2, type \in Numeric, Zenon DEF ValuesOf
<1>4. QED
  BY ONLY <1>2, <1>3, Zenon

\* A qualifier that is not satisfied has no score; one that is has a natural
\* one, and weighs something unless it is custom or a number far off.
LEMMA QualifierScore ==
  ASSUME NEW q, IsQualifier(q), NEW ctx, IsContext(ctx), NEW e, e = EvaluateQualifier(q, ctx)
  PROVE  /\ e = NoMatch \/ e \in Nat
         /\ e # NoMatch /\ q.type # "Custom" /\ (q.type \in Numeric => ctx[q.type] - q.value < 1000)
              => e > 0
<1>1. NoMatch = -1
  BY DEF NoMatch
<1>2. CASE q.type = "Language"
  <2>0. q.type \notin Numeric /\ q.type # "Custom" /\ q.type \in Numeric \cup {"Language", "Custom"}
    BY ONLY <1>2, Zenon DEF Numeric
  <2>1. e = MatchLanguage(ctx["Language"], q.value)
    BY ONLY <1>2, <2>0, e = EvaluateQualifier(q, ctx), Zenon DEF EvaluateQualifier
  <2>2. ctx["Language"] \in Seq(Seq(STRING) \ {<<>>})
    BY ONLY IsContext(ctx), Zenon DEF IsContext
  <2>3. PICK l, T, value : l = ctx["Language"] /\ T = Seq(STRING) \ {<<>>} /\ value = q.value
    OBVIOUS
  <2>4. l \in Seq(T)
    BY ONLY <2>2, <2>3, Zenon
  <2>5. PICK n : n = Len(l)
    OBVIOUS
  <2>6. n \in Nat /\ DOMAIN l = 1 .. n /\ Len(l) = n
    BY ONLY <2>4, <2>5
  <2>7. \/ MatchLanguage(l, value) = -1
        \/ MatchLanguage(l, value) \in Nat /\ MatchLanguage(l, value) >= 500
    BY ONLY <2>6, LanguageScore
  <2>8. e = MatchLanguage(l, value)
    BY ONLY <2>1, <2>3, Zenon
  <2>9. e = -1 \/ (e \in Nat /\ e > 0)
    BY ONLY <2>7, <2>8
  <2>10. QED
    BY ONLY <1>1, <2>9
<1>3. CASE q.type \in Numeric
  <2>1. q.type # "Language" /\ q.type # "Custom" /\ ValuesOf(q.type) = Int
    BY ONLY <1>3, NumericTypes, Zenon
  <2>2. q.value \in Int
    <3>1. q.value \in ValuesOf(q.type)
      BY ONLY IsQualifier(q), TestedQualifier
    <3>2. QED
      BY ONLY <2>1, <3>1, Zenon
  <2>3. CASE q.type \in DOMAIN ctx
    <3>1. e = MatchNumeric(ctx[q.type], q.value)
      BY ONLY <1>3, <2>1, <2>3, e = EvaluateQualifier(q, ctx), Zenon DEF EvaluateQualifier
    <3>2. ctx[q.type] \in Nat
      BY ONLY <1>3, <2>3, IsContext(ctx), Zenon DEF IsContext
    <3>3. PICK current, value : current = ctx[q.type] /\ value = q.value
      OBVIOUS
    <3>4. current \in Nat /\ value \in Int /\ e = MatchNumeric(current, value)
      BY ONLY <2>2, <3>1, <3>2, <3>3, Zenon
    <3>5. /\ value < 0 \/ value > current => MatchNumeric(current, value) = -1
          /\ value \in 0 .. current /\ current - value < 1000 =>
               MatchNumeric(current, value) = 1000 - (current - value)
          /\ value \in 0 .. current /\ current - value >= 1000 => MatchNumeric(current, value) = 0
      BY ONLY <3>4, NumericScore
    <3>6. /\ e = -1 \/ e \in Nat
          /\ e # -1 /\ current - value < 1000 => e > 0
      BY ONLY <3>4, <3>5
    <3>7. current - value = ctx[q.type] - q.value
      BY ONLY <3>3, Zenon
    <3>8. QED
      BY ONLY <1>1, <1>3, <3>6, <3>7
  <2>4. CASE q.type \notin DOMAIN ctx
    <3>1. e = NoMatch
      BY ONLY <1>3, <2>1, <2>4, e = EvaluateQualifier(q, ctx), Zenon DEF EvaluateQualifier
    <3>2. QED
      BY ONLY <3>1, Zenon
  <2>5. QED
    BY ONLY <2>3, <2>4, Zenon
<1>4. CASE q.type = "Custom"
  <2>1. q.type # "Language" /\ q.type \notin Numeric
    BY ONLY <1>4, Zenon DEF Numeric
  <2>2. e = 0
    BY ONLY <1>4, <2>1, e = EvaluateQualifier(q, ctx), Zenon DEF EvaluateQualifier
  <2>3. e \in Nat
    BY ONLY <2>2
  <2>4. QED
    BY ONLY <1>4, <2>3, Zenon
<1>5. CASE q.type # "Language" /\ q.type # "Custom" /\ q.type \notin Numeric
  <2>1. q.type \notin Numeric \cup {"Language", "Custom"}
    BY ONLY <1>5, Zenon
  <2>2. e = NoMatch \/ e = MatchExact(ctx[q.type], q.value)
    BY ONLY <1>5, <2>1, e = EvaluateQualifier(q, ctx), Zenon DEF EvaluateQualifier
  <2>3. MatchExact(ctx[q.type], q.value) = 1000 \/ MatchExact(ctx[q.type], q.value) = NoMatch
    BY ONLY Zenon DEF MatchExact
  <2>4. e = NoMatch \/ e = 1000
    BY ONLY <2>2, <2>3, Zenon
  <2>5. e = NoMatch \/ (e \in Nat /\ e > 0)
    BY ONLY <2>4
  <2>6. QED
    BY ONLY <2>5, Zenon
<1>6. QED
  BY ONLY <1>2, <1>3, <1>4, <1>5, Zenon

\* The score depends on what a qualifier tests alone.
LEMMA SameTest ==
  ASSUME NEW q, NEW r, Condition(q) = Condition(r), NEW ctx
  PROVE  /\ EvaluateQualifier(q, ctx) = EvaluateQualifier(r, ctx)
         /\ q.type = r.type /\ q.value = r.value
<1>1. Condition(q) = <<q.type, q.value>> /\ Condition(r) = <<r.type, r.value>>
  BY ONLY Zenon DEF Condition
<1>2. PICK a, b, c, d : a = q.type /\ b = q.value /\ c = r.type /\ d = r.value
  OBVIOUS
<1>3. <<a, b>> = <<c, d>>
  BY ONLY <1>1, <1>2, Condition(q) = Condition(r), Zenon
<1>4. a = c /\ b = d
  BY ONLY <1>3
<1>5. q.type = r.type /\ q.value = r.value
  BY ONLY <1>2, <1>4, Zenon
<1>6. EvaluateQualifier(q, ctx) = EvaluateQualifier(r, ctx)
  BY ONLY <1>5, Zenon DEF EvaluateQualifier
<1>7. QED
  BY ONLY <1>5, <1>6, Zenon

IsSet(s)      == IsList(s) /\ \A q \in Range(s) : IsQualifier(q)
IsDecision(d) == IsList(d) /\ \A s \in Range(d) : IsSet(s)

\* The qualifiers of a set, and the sets of a decision, by their places.
LEMMA ListParts ==
  ASSUME NEW s, IsList(s)
  PROVE  /\ Len(s) \in Nat /\ DOMAIN s = 1 .. Len(s)
         /\ \A i \in 1 .. Len(s) : s[i] \in Range(s)
<1>1. PICK R : R = Range(s)
  OBVIOUS
<1>2. s \in Seq(R)
  BY ONLY <1>1, IsList(s), Zenon DEF IsList
<1>3. Len(s) \in Nat /\ DOMAIN s = 1 .. Len(s)
  BY ONLY <1>2
<1>4. \A i \in 1 .. Len(s) : s[i] \in R
  BY ONLY <1>2
<1>5. QED
  BY ONLY <1>1, <1>3, <1>4, Zenon

\* The weights of the qualifiers of a set.
Weights(s, ctx) == [i \in DOMAIN s |-> EvaluateQualifier(s[i], ctx) + s[i].fallback_score]
IsWeighed(s, ctx, n, w) ==
  /\ Evaluate(s, ctx) \in Nat /\ Evaluate(s, ctx) = TotalOf(w) /\ w \in [1 .. n -> Nat]
  /\ \A i \in 1 .. n :
       /\ EvaluateQualifier(s[i], ctx) # NoMatch
       /\ EvaluateQualifier(s[i], ctx) \in Nat /\ s[i].fallback_score \in Nat
       /\ w[i] = EvaluateQualifier(s[i], ctx) + s[i].fallback_score

\* A list of naturals has a natural total.
LEMMA TotalIsNat ==
  ASSUME NEW n \in Nat, NEW w \in [1 .. n -> Nat]
  PROVE  TotalOf(w) \in Nat
<1>1. Len(w) = n /\ w \in [1 .. n -> Int]
  OBVIOUS
<1>2. TotalOf(w) = Sums(w)[n]
  BY <1>1 DEF TotalOf
<1>3. QED
  BY <1>1, <1>2, SumsRise, SumsDef

\* A set is not satisfied if one of its qualifiers is not, and else it is worth
\* the sum of what they weigh.
LEMMA EvaluateScore ==
  ASSUME NEW s, IsSet(s), NEW ctx, IsContext(ctx)
  PROVE  \/ /\ Evaluate(s, ctx) = NoMatch
            /\ \E i \in 1 .. Len(s) : EvaluateQualifier(s[i], ctx) = NoMatch
         \/ IsWeighed(s, ctx, Len(s), Weights(s, ctx))
<1>1. PICK n, w : n = Len(s) /\ w = Weights(s, ctx)
  OBVIOUS
<1>2. /\ n \in Nat /\ DOMAIN s = 1 .. n
      /\ \A i \in 1 .. n : s[i] \in Range(s)
  BY ONLY <1>1, IsSet(s), ListParts DEF IsSet
<1>3. \A i \in 1 .. n : IsQualifier(s[i])
  BY ONLY <1>2, IsSet(s), Zenon DEF IsSet
<1>4. /\ (\E i \in DOMAIN s : EvaluateQualifier(s[i], ctx) = NoMatch) => Evaluate(s, ctx) = NoMatch
      /\ ~(\E i \in DOMAIN s : EvaluateQualifier(s[i], ctx) = NoMatch) => Evaluate(s, ctx) = TotalOf(w)
  BY ONLY <1>1, Zenon DEF Evaluate, Weights
<1>5. SUFFICES ASSUME ~(\E i \in DOMAIN s : EvaluateQualifier(s[i], ctx) = NoMatch)
               PROVE  IsWeighed(s, ctx, n, w)
  <2>1. IsWeighed(s, ctx, n, w) => IsWeighed(s, ctx, Len(s), Weights(s, ctx))
    BY ONLY <1>1, Zenon
  <2>2. CASE \E i \in DOMAIN s : EvaluateQualifier(s[i], ctx) = NoMatch
    BY ONLY <1>1, <1>2, <1>4, <2>2, Zenon
  <2>3. QED
    BY <2>1, <2>2, Zenon
<1>6. ASSUME NEW i \in 1 .. n
      PROVE  /\ EvaluateQualifier(s[i], ctx) # NoMatch
             /\ EvaluateQualifier(s[i], ctx) \in Nat /\ s[i].fallback_score \in Nat
  <2>1. PICK q, e : q = s[i] /\ e = EvaluateQualifier(q, ctx)
    OBVIOUS
  <2>2. e # NoMatch /\ IsQualifier(q)
    BY ONLY <1>2, <1>3, <1>5, <1>6, <2>1, Zenon
  <2>3. e = NoMatch \/ e \in Nat
    BY ONLY <2>1, <2>2, IsContext(ctx), QualifierScore
  <2>4. q.fallback_score \in Nat
    BY ONLY <2>2, TestedQualifier
  <2>5. QED
    BY ONLY <2>1, <2>2, <2>3, <2>4, Zenon
<1>7. PICK e, g : /\ e = [i \in 1 .. n |-> EvaluateQualifier(s[i], ctx)]
                  /\ g = [i \in 1 .. n |-> s[i].fallback_score]
  OBVIOUS
<1>8. \A i \in 1 .. n : e[i] = EvaluateQualifier(s[i], ctx) /\ g[i] = s[i].fallback_score
  BY ONLY <1>7, Zenon
<1>9. w = [i \in 1 .. n |-> e[i] + g[i]]
  <2>1. w = [i \in 1 .. n |-> EvaluateQualifier(s[i], ctx) + s[i].fallback_score]
    BY ONLY <1>1, <1>2, Zenon DEF Weights
  <2>2. \A i \in 1 .. n : EvaluateQualifier(s[i], ctx) + s[i].fallback_score = e[i] + g[i]
    BY ONLY <1>8, Zenon
  <2> DEFINE F(i) == EvaluateQualifier(s[i], ctx) + s[i].fallback_score
  <2>3. w = [i \in 1 .. n |-> F(i)] /\ \A i \in 1 .. n : F(i) = e[i] + g[i]
    BY ONLY <2>1, <2>2, Zenon
  <2> HIDE DEF F
  <2>4. QED
    BY ONLY <2>3
<1>10. \A i \in 1 .. n : e[i] \in Nat /\ g[i] \in Nat
  BY ONLY <1>6, <1>8, Zenon
<1>11. w \in [1 .. n -> Nat] /\ \A i \in 1 .. n : w[i] = e[i] + g[i]
  BY ONLY <1>9, <1>10
<1>12. TotalOf(w) \in Nat
  BY ONLY <1>2, <1>11, TotalIsNat
<1>13. Evaluate(s, ctx) = TotalOf(w)
  BY ONLY <1>4, <1>5, Zenon
<1>14. Evaluate(s, ctx) \in Nat
  BY ONLY <1>12, <1>13, Zenon
<1>15. QED
  BY ONLY <1>6, <1>8, <1>11, <1>13, <1>14, Zenon DEF IsWeighed

\* What is kept after each step of the loop over the sets.
IsKept(sets, ctx, n, kept) ==
  /\ kept \in [0 .. n -> 0 .. n]
  /\ kept[0] = 0
  /\ \A i \in 1 .. n : kept[i] = IF TakesOver(sets, ctx, i, kept[i - 1]) THEN i ELSE kept[i - 1]

LEMMA BestLoop ==
  ASSUME NEW sets, NEW ctx, NEW n \in Nat, n = Len(sets)
  PROVE  \E kept : IsKept(sets, ctx, n, kept) /\ Best(sets, ctx) = kept[n]
<1> DEFINE Is(g) == g = [i \in 0 .. n |->
                          IF i = 0 THEN 0
                          ELSE IF TakesOver(sets, ctx, i, g[i - 1]) THEN i ELSE g[i - 1]]
<1>1. Best(sets, ctx) = (CHOOSE g : Is(g))[n]
  BY n = Len(sets) DEF Best
<1>2. PICK f : /\ f \in [0 .. n -> 0 .. n]
               /\ f[0] = 0
               /\ \A i \in 1 .. n : f[i] = IF TakesOver(sets, ctx, i, f[i - 1]) THEN i ELSE f[i - 1]
  <2> DEFINE step == [i \in 1 .. n |->
                       [b \in 0 .. n |-> IF TakesOver(sets, ctx, i, b) THEN i ELSE b]]
  <2>1. Steps(0 .. n, n, step) /\ 0 \in 0 .. n
    BY DEF Steps
  <2>2. \A i \in 1 .. n, b \in 0 .. n : step[i][b] = IF TakesOver(sets, ctx, i, b) THEN i ELSE b
    OBVIOUS
  <2> HIDE DEF step
  <2>3. PICK f : Follows(0 .. n, 0, n, step, f)
    BY ONLY <2>1, RecursionExists, n \in Nat
  <2>4. f \in [0 .. n -> 0 .. n] /\ f[0] = 0 /\ \A i \in 1 .. n : f[i] = step[i][f[i - 1]]
    BY <2>3 DEF Follows
  <2>5. \A i \in 1 .. n : f[i - 1] \in 0 .. n
    BY <2>4
  <2>6. ASSUME NEW i \in 1 .. n
        PROVE  f[i] = IF TakesOver(sets, ctx, i, f[i - 1]) THEN i ELSE f[i - 1]
    <3>1. PICK b : b = f[i - 1]
      OBVIOUS
    <3>2. b \in 0 .. n
      BY ONLY <2>5, <2>6, <3>1
    <3>3. f[i] = step[i][b]
      BY ONLY <2>4, <2>6, <3>1
    <3>4. step[i][b] = IF TakesOver(sets, ctx, i, b) THEN i ELSE b
      BY ONLY <2>2, <2>6, <3>2, Zenon
    <3>5. QED
      BY ONLY <3>1, <3>3, <3>4, Zenon
  <2>7. QED
    BY ONLY <2>4, <2>6, Zenon
<1>3. Is(f)
  BY <1>2
<1>4. PICK kept : kept = (CHOOSE g : Is(g))
  OBVIOUS
<1>5. Is(kept)
  BY <1>3, <1>4
<1>6. /\ DOMAIN kept = 0 .. n /\ kept[0] = 0
      /\ \A i \in 1 .. n : kept[i] = IF TakesOver(sets, ctx, i, kept[i - 1]) THEN i ELSE kept[i - 1]
  BY <1>5
<1> DEFINE S == {i \in Nat : i <= n => kept[i] = f[i]}
<1>7. S = Nat
  <2>1. 0 \in S
    BY <1>2, <1>6
  <2>2. ASSUME NEW i \in S PROVE i + 1 \in S
    <3>1. i \in Nat /\ (i + 1) - 1 = i
      OBVIOUS
    <3>2. SUFFICES ASSUME i + 1 <= n PROVE kept[i + 1] = f[i + 1]
      BY <3>1
    <3>3. i + 1 \in 1 .. n /\ kept[i] = f[i]
      BY <3>1, <3>2, <2>2
    <3>4. kept[i + 1] = IF TakesOver(sets, ctx, i + 1, kept[i]) THEN i + 1 ELSE kept[i]
      BY <1>6, <3>1, <3>3
    <3>5. f[i + 1] = IF TakesOver(sets, ctx, i + 1, kept[i]) THEN i + 1 ELSE kept[i]
      BY <1>2, <3>1, <3>3
    <3>6. QED
      BY ONLY <3>4, <3>5, Zenon
  <2> HIDE DEF S
  <2>3. S \subseteq Nat
    BY DEF S
  <2>4. QED
    BY ONLY <2>1, <2>2, <2>3, InductionOnSet
<1>8. \A i \in 0 .. n : kept[i] = f[i]
  BY <1>7
<1>9. kept \in [0 .. n -> 0 .. n]
  <2>1. kept = [i \in 0 .. n |-> kept[i]]
    BY <1>5
  <2>2. QED
    BY ONLY <1>2, <1>8, <2>1
<1>10. Best(sets, ctx) = kept[n]
  BY ONLY <1>1, <1>4, Zenon
<1>11. IsKept(sets, ctx, n, kept)
  BY ONLY <1>6, <1>9, Zenon DEF IsKept
<1>12. QED
  BY ONLY <1>10, <1>11, Zenon

\* The loop over the sets keeps none if none is satisfied, else one that is, with
\* the highest score, and the first of those that have it.
LEMMA BestDef ==
  ASSUME NEW sets, IsDecision(sets), NEW ctx, IsContext(ctx), NEW best, best = Best(sets, ctx)
  PROVE  /\ best \in 0 .. Len(sets)
         /\ best = 0 => \A i \in 1 .. Len(sets) : Evaluate(sets[i], ctx) = NoMatch
         /\ best # 0 => /\ Evaluate(sets[best], ctx) # NoMatch
                        /\ \A i \in 1 .. Len(sets) :
                             Evaluate(sets[i], ctx) <= Evaluate(sets[best], ctx)
         /\ best # 0 => \A i \in 1 .. Len(sets) :
                          Evaluate(sets[i], ctx) = Evaluate(sets[best], ctx) => best <= i
<1>1. PICK n : n = Len(sets)
  OBVIOUS
<1>2. /\ n \in Nat /\ DOMAIN sets = 1 .. n
      /\ \A i \in 1 .. n : sets[i] \in Range(sets)
  BY ONLY <1>1, IsDecision(sets), ListParts DEF IsDecision
<1>3. \A i \in 1 .. n : IsSet(sets[i])
  BY ONLY <1>2, IsDecision(sets), Zenon DEF IsDecision
<1>4. PICK f : f = [i \in 1 .. n |-> Evaluate(sets[i], ctx)]
  OBVIOUS
<1>5. \A i \in 1 .. n : f[i] = Evaluate(sets[i], ctx)
  BY ONLY <1>4, Zenon
<1>6. NoMatch = -1
  BY DEF NoMatch
<1>7. \A i \in 1 .. n : f[i] = -1 \/ f[i] \in Nat
  <2>1. ASSUME NEW i \in 1 .. n PROVE f[i] = NoMatch \/ f[i] \in Nat
    <3>1. PICK s : s = sets[i]
      OBVIOUS
    <3>2. IsSet(s)
      BY ONLY <1>3, <2>1, <3>1, Zenon
    <3>3. Evaluate(s, ctx) = NoMatch \/ IsWeighed(s, ctx, Len(s), Weights(s, ctx))
      BY ONLY <3>2, IsContext(ctx), EvaluateScore
    <3>4. Evaluate(s, ctx) = NoMatch \/ Evaluate(s, ctx) \in Nat
      BY ONLY <3>3, Zenon DEF IsWeighed
    <3>5. QED
      BY ONLY <1>5, <2>1, <3>1, <3>4, Zenon
  <2>2. QED
    BY ONLY <1>6, <2>1
<1>8. f \in [1 .. n -> Int]
  BY ONLY <1>4, <1>7
<1>9. PICK kept : IsKept(sets, ctx, n, kept) /\ Best(sets, ctx) = kept[n]
  <2>1. n \in Nat
    BY ONLY <1>2
  <2>2. QED
    BY ONLY <1>1, <2>1, BestLoop
<1>10. /\ kept \in [0 .. n -> 0 .. n]
       /\ kept[0] = 0
       /\ \A i \in 1 .. n : kept[i] = IF TakesOver(sets, ctx, i, kept[i - 1]) THEN i ELSE kept[i - 1]
       /\ Best(sets, ctx) = kept[n]
  BY ONLY <1>9, Zenon DEF IsKept
<1>11. ASSUME NEW i \in 1 .. n, NEW b \in 0 .. n
       PROVE  TakesOver(sets, ctx, i, b) <=> f[i] # -1 /\ (b = 0 \/ f[b] < f[i])
  <2>1. b # 0 => b \in 1 .. n
    BY ONLY <1>2, <1>11
  <2>2. b # 0 => f[b] = Evaluate(sets[b], ctx)
    BY ONLY <1>5, <2>1, Zenon
  <2>3. f[i] = Evaluate(sets[i], ctx)
    BY ONLY <1>5, <1>11, Zenon
  <2>4. TakesOver(sets, ctx, i, b)
          <=> Evaluate(sets[i], ctx) # -1
              /\ (b = 0 \/ Evaluate(sets[b], ctx) < Evaluate(sets[i], ctx))
    BY ONLY <1>6, Zenon DEF TakesOver
  <2>5. QED
    BY ONLY <2>2, <2>3, <2>4, Zenon
<1> DEFINE Known(m, k) ==
             /\ k \in 0 .. m
             /\ k = 0 => \A i \in 1 .. m : f[i] = -1
             /\ k # 0 => f[k] # -1 /\ \A i \in 1 .. m : f[i] <= f[k] /\ (f[i] = f[k] => k <= i)
           S == {m \in Nat : m <= n => Known(m, kept[m])}
<1>12. S = Nat
  <2>1. 0 \in S
    BY ONLY <1>10
  <2> HIDE DEF Known
  <2>2. ASSUME NEW m \in S PROVE m + 1 \in S
    <3>1. m \in Nat /\ m + 1 \in Nat /\ (m + 1) - 1 = m
      BY ONLY <2>2
    <3>2. SUFFICES ASSUME m + 1 <= n PROVE Known(m + 1, kept[m + 1])
      BY <3>1
    <3>3. m <= n /\ m + 1 \in 1 .. n /\ m \in 0 .. n
      BY ONLY <1>2, <3>1, <3>2
    <3>4. PICK k, l, j : k = kept[m] /\ l = kept[m + 1] /\ j = m + 1
      OBVIOUS
    <3>5. Known(m, k)
      BY ONLY <2>2, <3>1, <3>3, <3>4
    <3>6. k \in 0 .. n
      BY ONLY <1>10, <3>3, <3>4
    <3>7. l = IF TakesOver(sets, ctx, j, k) THEN j ELSE k
      BY ONLY <1>10, <3>1, <3>3, <3>4
    <3>8. TakesOver(sets, ctx, j, k) <=> f[j] # -1 /\ (k = 0 \/ f[k] < f[j])
      BY ONLY <1>11, <3>3, <3>4, <3>6
    <3>9. /\ f[j] # -1 /\ (k = 0 \/ f[k] < f[j]) => l = j
          /\ ~(f[j] # -1 /\ (k = 0 \/ f[k] < f[j])) => l = k
      BY ONLY <3>7, <3>8, Zenon
    <3>10. j = m + 1 /\ j \in Nat /\ j \in 1 .. n
      BY ONLY <3>1, <3>3, <3>4
    <3>11. /\ k \in 0 .. m
           /\ k = 0 => \A i \in 1 .. m : f[i] = -1
           /\ k # 0 => f[k] # -1 /\ \A i \in 1 .. m : f[i] <= f[k] /\ (f[i] = f[k] => k <= i)
      BY ONLY <3>5 DEF Known
    <3>12. CASE l = j
      <4>1. f[j] # -1 /\ (k = 0 \/ f[k] < f[j])
        BY ONLY <3>1, <3>9, <3>10, <3>11, <3>12
      <4>2. ASSUME NEW i \in 1 .. j PROVE f[i] <= f[j] /\ (f[i] = f[j] => j <= i)
        <5>1. CASE i = j
          BY ONLY <1>8, <3>10, <5>1
        <5>2. CASE i # j
          <6>1. i \in 1 .. m /\ f[i] \in Int /\ f[j] \in Int /\ (f[j] = -1 \/ f[j] \in Nat)
            BY ONLY <1>2, <1>7, <1>8, <3>1, <3>3, <3>10, <4>2, <5>2
          <6>2. k # 0 => f[k] \in Int
            BY ONLY <1>2, <1>8, <3>6
          <6>3. QED
            BY ONLY <3>11, <4>1, <6>1, <6>2
        <5>3. QED
          BY ONLY <5>1, <5>2
      <4>3. QED
        BY ONLY <3>4, <3>10, <3>12, <4>1, <4>2 DEF Known
    <3>13. CASE l # j
      <4>1. l = k /\ ~(f[j] # -1 /\ (k = 0 \/ f[k] < f[j]))
        BY ONLY <3>9, <3>13, Zenon
      <4>2. f[j] \in Int /\ (f[j] = -1 \/ f[j] \in Nat)
        BY ONLY <1>7, <1>8, <3>10
      <4>3. k # 0 => k \in 1 .. n /\ f[k] \in Nat
        BY ONLY <1>2, <1>7, <3>6, <3>11
      <4>4. k = 0 => \A i \in 1 .. j : f[i] = -1
        BY ONLY <3>1, <3>10, <3>11, <4>1
      <4>5. k # 0 => \A i \in 1 .. j : f[i] <= f[k] /\ (f[i] = f[k] => k <= i)
        BY ONLY <3>1, <3>10, <3>11, <4>1, <4>2, <4>3
      <4>6. k \in 0 .. j
        BY ONLY <3>1, <3>10, <3>11
      <4>7. QED
        BY ONLY <3>4, <3>10, <3>11, <4>1, <4>4, <4>5, <4>6 DEF Known
    <3>14. QED
      BY ONLY <3>12, <3>13
  <2> HIDE DEF S
  <2>3. S \subseteq Nat
    BY ONLY DEF S
  <2>4. QED
    BY ONLY <2>1, <2>2, <2>3, InductionOnSet
<1>13. Known(n, kept[n])
  BY ONLY <1>2, <1>12
<1>14. PICK k : k = kept[n]
  OBVIOUS
<1>15. /\ best = k /\ k \in 0 .. n
       /\ k = 0 => \A i \in 1 .. n : f[i] = -1
       /\ k # 0 => f[k] # -1 /\ \A i \in 1 .. n : f[i] <= f[k] /\ (f[i] = f[k] => k <= i)
  BY ONLY <1>10, <1>13, <1>14, best = Best(sets, ctx), Zenon
<1>16. k # 0 => k \in 1 .. n
  BY ONLY <1>2, <1>15
<1>17. k = 0 => \A i \in 1 .. n : Evaluate(sets[i], ctx) = NoMatch
  BY ONLY <1>5, <1>6, <1>15, Zenon
<1>18. k # 0 => /\ Evaluate(sets[k], ctx) # NoMatch
                /\ \A i \in 1 .. n : Evaluate(sets[i], ctx) <= Evaluate(sets[k], ctx)
                /\ \A i \in 1 .. n : Evaluate(sets[i], ctx) = Evaluate(sets[k], ctx) => k <= i
  BY ONLY <1>5, <1>6, <1>15, <1>16, Zenon
<1>19. QED
  BY ONLY <1>1, <1>15, <1>17, <1>18, Zenon

-----------------------------------------------------------------------------
\* The index of a whole file: a path is located, a candidate resolved, and the
\* answer is the one meant.

\* The index of a whole file, part by part.
LEMMA InsertDef ==
  ASSUME NEW key, NEW value
  PROVE  DOMAIN Insert(Nothing, key, value) = {key} /\ Insert(Nothing, key, value)[key] = value
<1>1. DOMAIN Nothing = {}
  BY DEF Nothing
<1>2. Insert(Nothing, key, value)
        = [k \in DOMAIN Nothing \cup {key} |-> IF k = key THEN value ELSE Nothing[k]]
  BY ONLY Zenon DEF Insert
<1>3. QED
  BY ONLY <1>1, <1>2

WholeIndex(c) == IndexAfter(c, 4)

\* What the index of a whole file has for each kind of section.
LEMMA IndexParts ==
  ASSUME NEW c
  PROVE  /\ WholeIndex(c).primary = PrimaryOf(c)
         /\ DOMAIN WholeIndex(c).resource_maps = {3} /\ WholeIndex(c).resource_maps[3] = MapOf(c)
         /\ DOMAIN WholeIndex(c).hierarchical_schemas = {1}
         /\ WholeIndex(c).hierarchical_schemas[1] = SchemaOf(c)
         /\ DOMAIN WholeIndex(c).decision_infos = {2}
         /\ WholeIndex(c).decision_infos[2] = c.decisions
         /\ DOMAIN WholeIndex(c).data_item_sections = {4}
         /\ WholeIndex(c).data_item_sections[4] = DataItemsOf(c)
<1>1. 4 >= 1 /\ 4 >= 2 /\ 4 >= 3 /\ 4 >= 4
  OBVIOUS
<1>2. WholeIndex(c) =
        [primary |-> PrimaryOf(c), resource_maps |-> Insert(Nothing, 3, MapOf(c)),
         hierarchical_schemas |-> Insert(Nothing, 1, SchemaOf(c)),
         decision_infos |-> Insert(Nothing, 2, c.decisions),
         data_item_sections |-> Insert(Nothing, 4, DataItemsOf(c))]
  BY ONLY <1>1, Zenon DEF WholeIndex, IndexAfter
<1>3. PICK p, a, b, d, e :
        /\ p = PrimaryOf(c) /\ a = Insert(Nothing, 3, MapOf(c)) /\ b = Insert(Nothing, 1, SchemaOf(c))
        /\ d = Insert(Nothing, 2, c.decisions) /\ e = Insert(Nothing, 4, DataItemsOf(c))
  OBVIOUS
<1>4. WholeIndex(c) = [primary |-> p, resource_maps |-> a, hierarchical_schemas |-> b,
                       decision_infos |-> d, data_item_sections |-> e]
  BY ONLY <1>2, <1>3, Zenon
<1>5. /\ WholeIndex(c).primary = p /\ WholeIndex(c).resource_maps = a
      /\ WholeIndex(c).hierarchical_schemas = b /\ WholeIndex(c).decision_infos = d
      /\ WholeIndex(c).data_item_sections = e
  BY ONLY <1>4
<1>6. \A key, value : DOMAIN Insert(Nothing, key, value) = {key} /\ Insert(Nothing, key, value)[key] = value
  BY InsertDef
<1>7. DOMAIN a = {3} /\ a[3] = MapOf(c)
  BY ONLY <1>3, <1>6, Zenon
<1>8. DOMAIN b = {1} /\ b[1] = SchemaOf(c)
  BY ONLY <1>3, <1>6, Zenon
<1>9. DOMAIN d = {2} /\ d[2] = c.decisions
  BY ONLY <1>3, <1>6, Zenon
<1>10. DOMAIN e = {4} /\ e[4] = DataItemsOf(c)
  BY ONLY <1>3, <1>6, Zenon
<1>11. WholeIndex(c).primary = PrimaryOf(c)
  BY ONLY <1>3, <1>5, Zenon
<1>12. QED
  BY ONLY <1>5, <1>7, <1>8, <1>9, <1>10, <1>11, Zenon

\* What the map of it has.
LEMMA MapParts ==
  ASSUME NEW c
  PROVE  /\ MapOf(c).schema_index = 1 /\ MapOf(c).decision_index = 2
         /\ MapOf(c).resource_value_types = TypesOf(c)
         /\ MapOf(c).items = ItemsBy(Props(c), InfoPairs(c))
         /\ MapOf(c).candidates = [i \in 1 .. Len(AllVariants(c)) |-> CandidateOf(c, AllVariants(c)[i])]
<1>1. PICK t, i, a : /\ t = TypesOf(c) /\ i = ItemsBy(Props(c), InfoPairs(c))
                     /\ a = [j \in 1 .. Len(AllVariants(c)) |-> CandidateOf(c, AllVariants(c)[j])]
  OBVIOUS
<1>2. MapOf(c) = [schema_index |-> 1, decision_index |-> 2, resource_value_types |-> t,
                  items |-> i, candidates |-> a]
  BY ONLY <1>1, Zenon DEF MapOf
<1>3. /\ MapOf(c).schema_index = 1 /\ MapOf(c).decision_index = 2
      /\ MapOf(c).resource_value_types = t /\ MapOf(c).items = i /\ MapOf(c).candidates = a
  BY ONLY <1>2
<1>4. QED
  BY ONLY <1>1, <1>3, Zenon

\* The item of a path, and its decision.
ItemPaths(c)   == {PathsOf(c)[i] : i \in ItemNames(c)}
PropFor(c, path) == c.names[CHOOSE i \in ItemNames(c) : PathsOf(c)[i] = path].prop
ItemFor(c, path) == CHOOSE k \in DOMAIN c.items : c.items[k].prop = PropFor(c, path)
SetsFor(c, path) == c.decisions[c.items[ItemFor(c, path)].decision]
VariantsFor(c, path) == c.items[ItemFor(c, path)].variants

\* The item of a path: one name has it, one item its property.
LEMMA PathOfItem ==
  ASSUME NEW c, IsContents(c), NEW path, path \in ItemPaths(c)
  PROVE  /\ SchemaOf(c)[path] = PropFor(c, path) /\ path \in DOMAIN SchemaOf(c)
         /\ ItemFor(c, path) \in 1 .. Len(c.items)
         /\ c.items[ItemFor(c, path)].prop = PropFor(c, path)
         /\ \E i \in ItemNames(c) : /\ PathsOf(c)[i] = path /\ PropFor(c, path) = c.names[i].prop
                                    /\ \A j \in ItemNames(c) : PathsOf(c)[j] = path => j = i
<1>1. /\ NamesAreWellFormed(c) /\ ItemsAreWellFormed(c) /\ DecisionsAreWellFormed(c)
      /\ \A i \in DOMAIN c.names : ~c.names[i].scope =>
            \E k \in DOMAIN c.items : c.items[k].prop = c.names[i].prop
  BY ONLY IsContents(c), Zenon DEF IsContents
<1>2. SchemaOf(c) = [p \in ItemPaths(c) |-> PropFor(c, p)]
  BY ONLY Zenon DEF SchemaOf, ItemPaths, PropFor
<1>3. PICK P, s : P = ItemPaths(c) /\ s = SchemaOf(c)
  OBVIOUS
<1>4. DOMAIN s = P /\ \A p \in P : s[p] = PropFor(c, p)
  BY ONLY <1>2, <1>3, Zenon
<1>5. PICK i \in ItemNames(c) : PathsOf(c)[i] = path
  BY ONLY path \in ItemPaths(c), Zenon DEF ItemPaths
<1>6. /\ DOMAIN c.names = 1 .. Len(c.names)
      /\ \A j \in 1 .. Len(c.names) : PathsOf(c)[j] = c.names[j].path
  BY ONLY <1>1, NameParts
<1>7. \A j \in ItemNames(c) : j \in DOMAIN c.names /\ ~c.names[j].scope
  BY ONLY Zenon DEF ItemNames
<1>8. \A j, k \in DOMAIN c.names : c.names[j].path = c.names[k].path => j = k
  BY ONLY <1>1, Zenon DEF NamesAreWellFormed
<1>9. \A j \in ItemNames(c) : PathsOf(c)[j] = path => j = i
  BY ONLY <1>5, <1>6, <1>7, <1>8, Zenon
<1>10. (CHOOSE j \in ItemNames(c) : PathsOf(c)[j] = path) = i
  <2>1. PICK j : j = CHOOSE k \in ItemNames(c) : PathsOf(c)[k] = path
    OBVIOUS
  <2>2. j \in ItemNames(c) /\ PathsOf(c)[j] = path
    BY ONLY <1>5, <2>1, Zenon
  <2>3. QED
    BY ONLY <1>9, <2>1, <2>2, Zenon
<1>11. PropFor(c, path) = c.names[i].prop
  BY ONLY <1>10, Zenon DEF PropFor
<1>12. \E k \in DOMAIN c.items : c.items[k].prop = PropFor(c, path)
  BY ONLY <1>1, <1>5, <1>7, <1>11, Zenon
<1>13. ItemFor(c, path) \in DOMAIN c.items /\ c.items[ItemFor(c, path)].prop = PropFor(c, path)
  <2>1. PICK k : k = ItemFor(c, path)
    OBVIOUS
  <2>2. k = CHOOSE j \in DOMAIN c.items : c.items[j].prop = PropFor(c, path)
    BY ONLY <2>1, Zenon DEF ItemFor
  <2>3. k \in DOMAIN c.items /\ c.items[k].prop = PropFor(c, path)
    BY ONLY <1>12, <2>2, Zenon
  <2>4. QED
    BY ONLY <2>1, <2>3, Zenon
<1>14. DOMAIN c.items = 1 .. Len(c.items)
  BY ONLY <1>1, ItemParts
<1>15. QED
  BY ONLY path \in ItemPaths(c), <1>3, <1>4, <1>5, <1>9, <1>11, <1>13, <1>14, Zenon

Located(c, path) ==
  [kind |-> "found", map |-> MapOf(c), sets |-> SetsFor(c, path),
   candidates |-> [j \in 1 .. Len(VariantsFor(c, path)) |-> CandidateOf(c, VariantsFor(c, path)[j])]]

\* Where the item of a property is found in a map.
LEMMA MapEntry ==
  ASSUME NEW c, ItemsAreWellFormed(c), DecisionsAreWellFormed(c), NEW k, k \in 1 .. Len(c.items)
  PROVE  LET p == c.items[k].prop
             item == MapOf(c).items[p]
         IN  /\ p \in DOMAIN MapOf(c).items
             /\ item.decision_index = c.items[k].decision - 1
             /\ item.first_candidate_index = CandidatesBefore(c, k)
<1>1. PICK p, prop, infos, n :
        p = c.items[k].prop /\ prop = Props(c) /\ infos = InfoPairs(c) /\ n = Len(c.items)
  OBVIOUS
<1>2. /\ n \in Nat \ {0} /\ DOMAIN c.items = 1 .. n
      /\ \A i, j \in 1 .. n : c.items[i].prop = c.items[j].prop => i = j
  BY ONLY <1>1, ItemsAreWellFormed(c), DecisionsAreWellFormed(c), ItemParts
<1>3. k \in 1 .. n
  BY ONLY <1>1, k \in 1 .. Len(c.items), Zenon
<1>4. DOMAIN prop = 1 .. n /\ \A i \in 1 .. n : prop[i] = c.items[i].prop
  BY ONLY <1>1, <1>2, Zenon DEF Props
<1>5. /\ prop[k] = p
      /\ \A i \in 1 .. n : prop[i] = p => i = k
  BY ONLY <1>1, <1>2, <1>3, <1>4, Zenon
<1>6. ItemOf(prop, p) = k
  <2>1. PICK j : j = CHOOSE i \in DOMAIN prop : prop[i] = p
    OBVIOUS
  <2>2. j \in DOMAIN prop /\ prop[j] = p
    BY ONLY <1>3, <1>4, <1>5, <2>1, Zenon
  <2>3. j = k
    BY ONLY <1>4, <1>5, <2>2, Zenon
  <2>4. QED
    BY ONLY <2>1, <2>3, Zenon DEF ItemOf
<1>7. infos[k] = <<c.items[k].decision - 1, CandidatesBefore(c, k)>>
  BY ONLY <1>1, <1>2, <1>3, Zenon DEF InfoPairs
<1>8. PICK items : items = ItemsBy(prop, infos)
  OBVIOUS
<1>9. p \in {prop[i] : i \in DOMAIN prop}
  BY ONLY <1>3, <1>4, <1>5, Zenon
<1>10. /\ p \in DOMAIN items
       /\ items[p] = [decision_index |-> infos[k][1], first_candidate_index |-> infos[k][2]]
  <2> DEFINE Entry(x) == [decision_index |-> infos[ItemOf(prop, x)][1],
                          first_candidate_index |-> infos[ItemOf(prop, x)][2]]
  <2>1. items = [x \in {prop[i] : i \in DOMAIN prop} |-> Entry(x)]
    BY ONLY <1>8, Zenon DEF ItemsBy
  <2>2. Entry(p) = [decision_index |-> infos[k][1], first_candidate_index |-> infos[k][2]]
    BY ONLY <1>6, Zenon
  <2> HIDE DEF Entry
  <2>3. p \in DOMAIN items /\ items[p] = Entry(p)
    BY ONLY <1>9, <2>1, Zenon
  <2>4. QED
    BY ONLY <2>2, <2>3, Zenon
<1>11. PICK a, b : a = c.items[k].decision - 1 /\ b = CandidatesBefore(c, k)
  OBVIOUS
<1>12. infos[k] = <<a, b>>
  BY ONLY <1>7, <1>11, Zenon
<1>13. items[p].decision_index = a /\ items[p].first_candidate_index = b
  BY ONLY <1>10, <1>12
<1>14. MapOf(c).items = items
  BY ONLY <1>1, <1>8, MapParts, Zenon
<1>15. QED
  BY ONLY <1>1, <1>10, <1>11, <1>13, <1>14, Zenon

CandidateList(c, k, n) == [j \in 1 .. n |-> CandidateOf(c, c.items[k].variants[j])]

\* The candidates of an item stand one behind another.
LEMMA CandidatesOfItem ==
  ASSUME NEW c, ItemsAreWellFormed(c), NEW k, k \in 1 .. Len(c.items),
         NEW first, first = CandidatesBefore(c, k), NEW n, n = Len(c.items[k].variants),
         n \in Nat, NEW all, all = MapOf(c).candidates
  PROVE  /\ first \in Nat /\ first + n <= Len(all)
         /\ SubSeq(all, first + 1, first + n) = CandidateList(c, k, n)
<1>1. PICK V, v, N : V = AllVariants(c) /\ v = c.items[k].variants /\ N = Len(V)
  OBVIOUS
<1>2. /\ first \in Nat /\ first + n <= N
      /\ \A j \in 1 .. n : V[first + j] = v[j]
  <2>1. /\ CandidatesBefore(c, k) \in Nat
        /\ CandidatesBefore(c, k) + Len(c.items[k].variants) <= Len(AllVariants(c))
        /\ \A j \in 1 .. Len(c.items[k].variants) :
             AllVariants(c)[CandidatesBefore(c, k) + j] = c.items[k].variants[j]
    BY ONLY ItemsAreWellFormed(c), k \in 1 .. Len(c.items), CandidatePlaces
  <2>2. QED
    BY ONLY <1>1, <2>1, first = CandidatesBefore(c, k), n = Len(c.items[k].variants), Zenon
<1>3. N \in Nat
  <2>1. PICK T : V \in Seq(T)
    BY ONLY <1>1, ItemsAreWellFormed(c), VariantList
  <2>2. QED
    BY ONLY <1>1, <2>1
<1>4. all = [i \in 1 .. N |-> CandidateOf(c, V[i])]
  BY ONLY <1>1, all = MapOf(c).candidates, MapParts, Zenon
<1>5. PICK R : R = {CandidateOf(c, V[i]) : i \in 1 .. N}
  OBVIOUS
<1>6. \A i \in 1 .. N : all[i] = CandidateOf(c, V[i]) /\ all[i] \in R
  BY ONLY <1>4, <1>5, Zenon
<1>7. DOMAIN all = 1 .. N /\ all = [i \in 1 .. N |-> all[i]]
  BY ONLY <1>4
<1>8. all \in Seq(R) /\ Len(all) = N
  BY ONLY <1>3, <1>6, <1>7
<1>9. PICK a, b : a = first + 1 /\ b = first + n
  OBVIOUS
<1>10. a \in 1 .. Len(all) + 1 /\ b \in a - 1 .. Len(all) /\ b - a + 1 = n
  BY ONLY <1>2, <1>3, <1>8, <1>9, n \in Nat
<1>11. PICK s : s = SubSeq(all, a, b)
  OBVIOUS
<1>12. s \in Seq(R) /\ Len(s) = n /\ \A j \in 1 .. n : s[j] = all[a + j - 1]
  <2>1. /\ SubSeq(all, a, b) \in Seq(R) /\ Len(SubSeq(all, a, b)) = b - a + 1
        /\ \A j \in 1 .. b - a + 1 : SubSeq(all, a, b)[j] = all[a + j - 1]
    BY ONLY <1>8, <1>10, SubSeqProperties
  <2>2. QED
    BY ONLY <1>10, <1>11, <2>1
<1>13. \A j \in 1 .. n : first + j \in 1 .. N /\ a + j - 1 = first + j
  BY ONLY <1>2, <1>3, <1>9, n \in Nat
<1>14. \A j \in 1 .. n : s[j] = CandidateOf(c, v[j])
  BY ONLY <1>2, <1>6, <1>12, <1>13, Zenon
<1>15. s = [j \in 1 .. n |-> s[j]]
  BY ONLY <1>12
<1>16. s = [j \in 1 .. n |-> CandidateOf(c, v[j])]
  BY ONLY <1>14, <1>15
<1>17. SubSeq(all, first + 1, first + n) = CandidateList(c, k, n)
  BY ONLY <1>1, <1>9, <1>11, <1>16, Zenon DEF CandidateList
<1>18. QED
  BY ONLY <1>2, <1>8, <1>17, Zenon

\* What is known of the item of a path.
LEMMA ItemOfPath ==
  ASSUME NEW c, IsContents(c), NEW path, path \in ItemPaths(c)
  PROVE  /\ IsDecision(SetsFor(c, path)) /\ Len(SetsFor(c, path)) \in Nat
         /\ DOMAIN SetsFor(c, path) = 1 .. Len(SetsFor(c, path))
         /\ Len(VariantsFor(c, path)) = Len(SetsFor(c, path))
         /\ ItemFor(c, path) \in 1 .. Len(c.items)
         /\ c.items[ItemFor(c, path)].decision - 1 + 1 = c.items[ItemFor(c, path)].decision
         /\ c.items[ItemFor(c, path)].decision - 1 < Len(c.decisions)
<1>1. ItemsAreWellFormed(c) /\ DecisionsAreWellFormed(c)
  BY ONLY IsContents(c), Zenon DEF IsContents
<1>2. PICK k : k = ItemFor(c, path)
  OBVIOUS
<1>3. k \in 1 .. Len(c.items)
  BY ONLY <1>2, IsContents(c), path \in ItemPaths(c), PathOfItem
<1>4. /\ c.items[k].decision \in 1 .. Len(c.decisions)
      /\ Len(c.items[k].variants) = Len(c.decisions[c.items[k].decision])
  BY ONLY <1>1, <1>3, ItemParts
<1>5. IsList(c.decisions) /\ \A d \in Range(c.decisions) :
        IsList(d) /\ \A s \in Range(d) : IsList(s) /\ \A q \in Range(s) : IsQualifier(q)
  BY ONLY <1>1, Zenon DEF DecisionsAreWellFormed
<1>6. \A d \in Range(c.decisions) : IsDecision(d)
  BY ONLY <1>5, Zenon DEF IsDecision, IsSet
<1>7. Len(c.decisions) \in Nat /\ \A i \in 1 .. Len(c.decisions) : c.decisions[i] \in Range(c.decisions)
  BY ONLY <1>5, ListParts
<1>8. PICK d, N : d = c.items[k].decision /\ N = Len(c.decisions)
  OBVIOUS
<1>9. d \in 1 .. N /\ N \in Nat
  BY ONLY <1>4, <1>7, <1>8, Zenon
<1>10. d - 1 + 1 = d /\ d - 1 < N
  BY ONLY <1>9
<1>11. PICK sets : sets = c.decisions[d]
  OBVIOUS
<1>12. IsDecision(sets)
  BY ONLY <1>6, <1>7, <1>8, <1>9, <1>11, Zenon
<1>13. IsList(sets)
  BY ONLY <1>12, Zenon DEF IsDecision
<1>14. Len(sets) \in Nat /\ DOMAIN sets = 1 .. Len(sets)
  BY ONLY <1>13, ListParts
<1>15. SetsFor(c, path) = sets /\ VariantsFor(c, path) = c.items[k].variants
  BY ONLY <1>2, <1>8, <1>11, Zenon DEF SetsFor, VariantsFor
<1>16. QED
  BY ONLY <1>2, <1>3, <1>4, <1>8, <1>10, <1>11, <1>12, <1>14, <1>15, Zenon

\* The primary map, if there is one.
LEMMA LocatePrimary ==
  ASSUME NEW c, IsContents(c)
  PROVE  /\ c.primary => PrimaryOf(c) = 3
         /\ ~c.primary => PrimaryOf(c) = NoIndex
         /\ 3 # NoIndex
<1>1. NoSection = NoIndex
  BY DEF NoSection, NoIndex
<1>2. 3 # NoIndex
  BY DEF NoIndex
<1>3. PrimaryOf(c) = IF c.primary THEN 3 ELSE NoSection
  BY ONLY Zenon DEF PrimaryOf
<1>4. QED
  BY ONLY <1>1, <1>2, <1>3

\* A path of an item leads to its decision and its candidates, any other to
\* nothing.
LEMMA LocateDef ==
  ASSUME NEW c, IsContents(c), NEW path, NEW found, found = Locate(WholeIndex(c), path)
  PROVE  /\ c.primary /\ path \in ItemPaths(c) => found = Located(c, path)
         /\ ~(c.primary /\ path \in ItemPaths(c)) => found = [kind |-> "none"]
<1>0. ItemsAreWellFormed(c) /\ DecisionsAreWellFormed(c)
  BY ONLY IsContents(c), Zenon DEF IsContents
<1> DEFINE
      whole    == WholeIndex(c)
      map      == whole.resource_maps[whole.primary]
      schema   == whole.hierarchical_schemas[map.schema_index]
      item     == map.items[schema[path]]
      info     == whole.decision_infos[map.decision_index]
      decision == info[item.decision_index + 1]
      first    == item.first_candidate_index
      leads    == /\ whole.primary # NoIndex
                  /\ whole.primary \in DOMAIN whole.resource_maps
                  /\ map.schema_index \in DOMAIN whole.hierarchical_schemas
                  /\ path \in DOMAIN schema
                  /\ schema[path] \in DOMAIN map.items
                  /\ map.decision_index \in DOMAIN whole.decision_infos
                  /\ item.decision_index < Len(info)
<1>1. found = IF leads
              THEN IF first + Len(decision) > Len(map.candidates) THEN [kind |-> "error"]
                   ELSE [kind |-> "found", map |-> map, sets |-> decision,
                         candidates |-> SubSeq(map.candidates, first + 1, first + Len(decision))]
              ELSE [kind |-> "none"]
  BY ONLY found = Locate(WholeIndex(c), path), Zenon DEF Locate
<1>2. leads <=> /\ whole.primary # NoIndex
                /\ whole.primary \in DOMAIN whole.resource_maps
                /\ map.schema_index \in DOMAIN whole.hierarchical_schemas
                /\ path \in DOMAIN schema
                /\ schema[path] \in DOMAIN map.items
                /\ map.decision_index \in DOMAIN whole.decision_infos
                /\ item.decision_index < Len(info)
  BY ONLY Zenon
<1> HIDE DEF leads
<1>3. /\ whole.primary = PrimaryOf(c)
      /\ DOMAIN whole.resource_maps = {3} /\ whole.resource_maps[3] = MapOf(c)
      /\ DOMAIN whole.hierarchical_schemas = {1}
      /\ whole.hierarchical_schemas[1] = SchemaOf(c)
      /\ DOMAIN whole.decision_infos = {2}
      /\ whole.decision_infos[2] = c.decisions
  BY ONLY IndexParts
<1>4. /\ c.primary => PrimaryOf(c) = 3
      /\ ~c.primary => PrimaryOf(c) = NoIndex
      /\ 3 # NoIndex
  BY ONLY IsContents(c), LocatePrimary
<1>5. MapOf(c).schema_index = 1 /\ MapOf(c).decision_index = 2
  BY ONLY MapParts
<1>6. CASE ~c.primary
  <2>1. ~leads
    BY ONLY <1>2, <1>3, <1>4, <1>6, Zenon
  <2>2. found = [kind |-> "none"]
    BY ONLY <1>1, <2>1, Zenon
  <2>3. QED
    BY ONLY <1>6, <2>2, Zenon
<1>7. CASE c.primary
  <2>1. whole.primary = 3 /\ whole.primary # NoIndex /\ whole.primary \in DOMAIN whole.resource_maps
    BY ONLY <1>3, <1>4, <1>7
  <2>2. map = MapOf(c)
    BY ONLY <1>3, <2>1, Zenon
  <2> HIDE DEF map
  <2>3. map.schema_index \in DOMAIN whole.hierarchical_schemas /\ map.decision_index \in DOMAIN whole.decision_infos
    <3>1. map.schema_index = 1 /\ map.decision_index = 2
      BY ONLY <1>5, <2>2, Zenon
    <3>2. QED
      BY ONLY <1>3, <3>1, Zenon
  <2>4. schema = SchemaOf(c) /\ info = c.decisions
    <3>1. map.schema_index = 1 /\ map.decision_index = 2
      BY ONLY <1>5, <2>2, Zenon
    <3>2. QED
      BY ONLY <1>3, <3>1, Zenon
  <2> HIDE DEF schema, info
  <2>5. DOMAIN SchemaOf(c) = ItemPaths(c)
    BY ONLY Zenon DEF SchemaOf, ItemPaths
  <2>6. CASE path \notin ItemPaths(c)
    <3>1. ~leads
      BY ONLY <1>2, <2>4, <2>5, <2>6, Zenon
    <3>2. found = [kind |-> "none"]
      BY ONLY <1>1, <3>1, Zenon
    <3>3. QED
      BY ONLY <2>6, <3>2, Zenon
  <2>7. CASE path \in ItemPaths(c)
    <3>1. PICK k : k = ItemFor(c, path)
      OBVIOUS
    <3>2. /\ SchemaOf(c)[path] = PropFor(c, path) /\ path \in DOMAIN SchemaOf(c)
          /\ k \in 1 .. Len(c.items) /\ c.items[k].prop = PropFor(c, path)
      BY ONLY <3>1, IsContents(c), <2>7, PathOfItem
    <3>3. schema[path] = c.items[k].prop /\ path \in DOMAIN schema
      BY ONLY <2>4, <3>2, Zenon
    <3>4. /\ c.items[k].prop \in DOMAIN MapOf(c).items
          /\ MapOf(c).items[c.items[k].prop].decision_index = c.items[k].decision - 1
          /\ MapOf(c).items[c.items[k].prop].first_candidate_index = CandidatesBefore(c, k)
      BY ONLY <1>0, <3>2, MapEntry
    <3>5. /\ schema[path] \in DOMAIN map.items
          /\ item.decision_index = c.items[k].decision - 1
          /\ first = CandidatesBefore(c, k)
      BY ONLY <2>2, <3>3, <3>4, Zenon
    <3> HIDE DEF item
    <3>6. PICK sets, variants, n : /\ sets = SetsFor(c, path) /\ variants = VariantsFor(c, path)
                                   /\ n = Len(sets)
      OBVIOUS
    <3>7. /\ n \in Nat /\ Len(variants) = n
          /\ c.items[k].decision - 1 + 1 = c.items[k].decision
          /\ c.items[k].decision - 1 < Len(c.decisions)
      BY ONLY <3>1, <3>6, IsContents(c), <2>7, ItemOfPath
    <3>8. sets = c.decisions[c.items[k].decision] /\ variants = c.items[k].variants
      BY ONLY <3>1, <3>6, Zenon DEF SetsFor, VariantsFor
    <3>9. PICK x, d : x = item.decision_index /\ d = c.items[k].decision
      OBVIOUS
    <3>10. x + 1 = d /\ x < Len(info)
      <4>1. x = d - 1 /\ d - 1 + 1 = d /\ d - 1 < Len(info)
        BY ONLY <2>4, <3>5, <3>7, <3>9, Zenon
      <4>2. QED
        BY ONLY <4>1
    <3>11. decision = sets
      <4>1. info[x + 1] = info[d]
        BY ONLY <3>10
      <4>2. QED
        BY ONLY <2>4, <3>8, <3>9, <4>1, Zenon
    <3>12. leads
      BY ONLY <1>2, <2>1, <2>3, <3>3, <3>5, <3>9, <3>10, Zenon
    <3> HIDE DEF decision, first
    <3>13. PICK all, f : all = map.candidates /\ f = first
      OBVIOUS
    <3>14. /\ f = CandidatesBefore(c, k) /\ n = Len(c.items[k].variants)
           /\ all = MapOf(c).candidates
      BY ONLY <2>2, <3>5, <3>7, <3>8, <3>13, Zenon
    <3>15. /\ f \in Nat /\ f + n <= Len(all)
           /\ SubSeq(all, f + 1, f + n) = CandidateList(c, k, n)
      <4>1. ItemsAreWellFormed(c)
        BY ONLY <1>0, Zenon
      <4>2. k \in 1 .. Len(c.items)
        BY ONLY <3>2, Zenon
      <4>3. f = CandidatesBefore(c, k)
        BY ONLY <3>14, Zenon
      <4>4. n = Len(c.items[k].variants)
        BY ONLY <3>14, Zenon
      <4>5. n \in Nat
        BY ONLY <3>7, Zenon
      <4>6. all = MapOf(c).candidates
        BY ONLY <3>14, Zenon
      <4>7. QED
        BY ONLY <4>1, <4>2, <4>3, <4>4, <4>5, <4>6, CandidatesOfItem
    <3>16. PICK v : v = [j \in 1 .. n |-> CandidateOf(c, variants[j])]
      OBVIOUS
    <3>17. SubSeq(all, f + 1, f + n) = v
      BY ONLY <3>8, <3>15, <3>16, Zenon DEF CandidateList
    <3>18. ~(f + n > Len(all))
      <4>1. PICK N : N = Len(all)
        OBVIOUS
      <4>2. f + n <= N
        BY ONLY <3>15, <4>1, Zenon
      <4>3. N \in Nat
        <5>1. all = [i \in 1 .. Len(AllVariants(c)) |-> CandidateOf(c, AllVariants(c)[i])]
          BY ONLY <3>14, MapParts, Zenon
        <5>2. PICK T : AllVariants(c) \in Seq(T)
          BY ONLY <1>0, VariantList
        <5>3. PICK V, M, g : V = AllVariants(c) /\ M = Len(V) /\ g = [i \in 1 .. M |-> CandidateOf(c, V[i])]
          OBVIOUS
        <5>4. M \in Nat
          BY ONLY <5>2, <5>3
        <5>5. Len(g) = M
          <6> DEFINE F(i) == CandidateOf(c, V[i])
          <6>1. g = [i \in 1 .. M |-> F(i)]
            BY ONLY <5>3, Zenon
          <6> HIDE DEF F
          <6>2. QED
            BY ONLY <5>4, <6>1
        <5>6. QED
          BY ONLY <4>1, <5>1, <5>3, <5>4, <5>5, Zenon
      <4>4. ~(f + n > N)
        BY ONLY <3>7, <3>15, <4>2, <4>3
      <4>5. QED
        BY ONLY <4>1, <4>4, Zenon
    <3>19. found = [kind |-> "found", map |-> map, sets |-> sets, candidates |-> v]
      <4>1. /\ decision = sets /\ Len(decision) = n /\ first = f /\ map.candidates = all
        BY ONLY <3>6, <3>11, <3>13, Zenon
      <4>2. first + Len(decision) = f + n /\ first + 1 = f + 1
        BY ONLY <4>1
      <4>3. ~(first + Len(decision) > Len(map.candidates))
        BY ONLY <3>18, <4>1, <4>2, Zenon
      <4>4. SubSeq(map.candidates, first + 1, first + Len(decision)) = v
        BY ONLY <3>17, <4>1, <4>2, Zenon
      <4>5. QED
        BY ONLY <1>1, <3>12, <4>1, <4>3, <4>4, Zenon
    <3>20. v = [j \in 1 .. Len(VariantsFor(c, path)) |-> CandidateOf(c, VariantsFor(c, path)[j])]
      BY ONLY <3>6, <3>7, <3>16, Zenon
    <3>21. found = Located(c, path)
      BY ONLY <2>2, <3>6, <3>19, <3>20, Zenon DEF Located
    <3>22. QED
      BY ONLY <1>7, <2>7, <3>21, Zenon
  <2>8. QED
    BY ONLY <2>6, <2>7, Zenon
<1>8. QED
  BY ONLY <1>6, <1>7, Zenon

\* What a variant is resolved to.
ValueOf(v) ==
  CASE v.store \in {"Embedded", "DataString", "DataBlob"} -> DecodeValue(v.data, v.type)
    [] v.store = "External" -> [kind |-> "External", data |-> <<1, 9, v.data>>]
    [] OTHER -> [kind |-> "error"]

\* The type of a candidate, and its value if it is a data item.
LEMMA TypeOfCandidate ==
  ASSUME NEW c, ItemsAreWellFormed(c), NEW j, j \in 1 .. Len(AllVariants(c)), NEW v,
         v = AllVariants(c)[j]
  PROVE  /\ TypeIndex(c, v) < Len(MapOf(c).resource_value_types)
         /\ ResourceValueType(MapOf(c), TypeIndex(c, v)) = v.type
<1>1. PICK t, types : t = TypeIndex(c, v) /\ types = TypesOf(c)
  OBVIOUS
<1>2. TypeIndex(c, v) \in 0 .. Len(TypesOf(c)) - 1 /\ TypesOf(c)[TypeIndex(c, v) + 1] = v.type
  BY ONLY ItemsAreWellFormed(c), j \in 1 .. Len(AllVariants(c)), v = AllVariants(c)[j], VariantPlaces
<1>3. t \in 0 .. Len(types) - 1 /\ types[t + 1] = v.type
  BY ONLY <1>1, <1>2, Zenon
<1>4. Len(TypesOf(c)) \in Nat
  BY ONLY ItemsAreWellFormed(c), TypesList
<1>5. PICK n : n = Len(types)
  OBVIOUS
<1>6. n \in Nat /\ t \in 0 .. n - 1
  BY ONLY <1>1, <1>3, <1>4, <1>5, Zenon
<1>7. t < n
  BY ONLY <1>6
<1>8. MapOf(c).resource_value_types = types
  BY ONLY <1>1, MapParts, Zenon
<1>9. QED
  BY ONLY <1>1, <1>3, <1>5, <1>7, <1>8, Zenon DEF ResourceValueType

\* The data of a variant kept in the data item section is at its index.
LEMMA DataOfCandidate ==
  ASSUME NEW c, ItemsAreWellFormed(c), NEW j, j \in 1 .. Len(AllVariants(c)), NEW v,
         v = AllVariants(c)[j], v.store \in {"DataString", "DataBlob"}
  PROVE  /\ IndexIn(Stored(c), v) < Len(DataItemsOf(c))
         /\ DataItemsOf(c)[IndexIn(Stored(c), v) + 1] = v.data
<1>1. PICK i, s, d : i = IndexIn(Stored(c), v) /\ s = Stored(c) /\ d = DataItemsOf(c)
  OBVIOUS
<1>2. v.store \in {"DataString", "DataBlob"} =>
              /\ IndexIn(Stored(c), v) \in 0 .. Len(Stored(c)) - 1
              /\ Stored(c)[IndexIn(Stored(c), v) + 1] = v
  BY ONLY ItemsAreWellFormed(c), j \in 1 .. Len(AllVariants(c)), v = AllVariants(c)[j], VariantPlaces
<1>3. i \in 0 .. Len(s) - 1 /\ s[i + 1] = v
  BY ONLY <1>1, <1>2, v.store \in {"DataString", "DataBlob"}, Zenon
<1>4. PICK n : n = Strings(c) + Blobs(c)
  OBVIOUS
<1>5. /\ Strings(c) \in Nat /\ Blobs(c) \in Nat /\ Len(Stored(c)) = Strings(c) + Blobs(c)
  BY ONLY ItemsAreWellFormed(c), StoredParts
<1>6. Len(s) = n /\ n \in Nat
  BY ONLY <1>1, <1>4, <1>5
<1>7. i + 1 \in 1 .. n /\ i < n
  <2>1. i \in 0 .. n - 1
    BY ONLY <1>3, <1>6, Zenon
  <2>2. QED
    BY ONLY <1>6, <2>1
<1>8. d = [k \in 1 .. n |-> s[k].data]
  BY ONLY <1>1, <1>4, Zenon DEF DataItemsOf
<1>9. d[i + 1] = v.data
  BY ONLY <1>3, <1>7, <1>8, Zenon
<1>10. Len(d) = n
  <2> DEFINE F(k) == s[k].data
  <2>1. d = [k \in 1 .. n |-> F(k)]
    BY ONLY <1>8, Zenon
  <2> HIDE DEF F
  <2>2. QED
    BY ONLY <1>6, <2>1
<1>11. QED
  BY ONLY <1>1, <1>7, <1>9, <1>10, Zenon

\* A candidate is resolved to its variant's value.
LEMMA CandidateResolved ==
  ASSUME NEW c, ItemsAreWellFormed(c), NEW j, j \in 1 .. Len(AllVariants(c)), NEW v,
         v = AllVariants(c)[j]
  PROVE  ResolveCandidate(WholeIndex(c), MapOf(c), CandidateOf(c, v)) = ValueOf(v)
<1>1. PICK whole, map, t, p, d : whole = WholeIndex(c) /\ map = MapOf(c) /\ t = TypeIndex(c, v)
                                 /\ p = IndexIn(Stored(c), v) /\ d = v.data
  OBVIOUS
<1>2. t < Len(map.resource_value_types) /\ ResourceValueType(map, t) = v.type
  <2>1. /\ TypeIndex(c, v) < Len(MapOf(c).resource_value_types)
        /\ ResourceValueType(MapOf(c), TypeIndex(c, v)) = v.type
    BY ONLY ItemsAreWellFormed(c), j \in 1 .. Len(AllVariants(c)), v = AllVariants(c)[j], TypeOfCandidate
  <2>2. QED
    BY ONLY <1>1, <2>1, Zenon
<1>3. CASE v.store = "Embedded"
  <2>1. PICK kind : kind = "Embedded"
    OBVIOUS
  <2>2. PICK r : r = [kind |-> kind, type_index |-> t, data |-> d]
    OBVIOUS
  <2>3. CandidateOf(c, v) = r
    <3>1. v.store \notin {"DataString", "DataBlob"} /\ v.store # "External"
      BY ONLY <1>3
    <3>2. QED
      BY ONLY <1>1, <1>3, <2>1, <2>2, <3>1, Zenon DEF CandidateOf
  <2>4. r.kind = kind /\ r.type_index = t /\ r.data = d
    BY ONLY <2>2
  <2>5. r.kind # "DataItem" /\ r.kind # "External"
    BY ONLY <2>1, <2>4
  <2>6. ResolveCandidate(whole, map, r) = DecodeValue(r.data, ResourceValueType(map, r.type_index))
    BY ONLY <1>2, <2>1, <2>4, <2>5, Zenon DEF ResolveCandidate
  <2>7. v.store \in {"Embedded", "DataString", "DataBlob"} /\ v.store # "External"
    BY ONLY <1>3
  <2>8. ValueOf(v) = DecodeValue(v.data, v.type)
    BY ONLY <2>7, Zenon DEF ValueOf
  <2>9. QED
    BY ONLY <1>1, <1>2, <2>3, <2>4, <2>6, <2>8, Zenon
<1>4. CASE v.store \in {"DataString", "DataBlob"}
  <2>1. PICK kind : kind = "DataItem"
    OBVIOUS
  <2>2. PICK r, four : r = [kind |-> kind, type_index |-> t, section_index |-> four, data_item_index |-> p]
                       /\ four = 4
    OBVIOUS
  <2>3. CandidateOf(c, v) = r
    <3>1. v.store # "Embedded" /\ v.store # "External"
      BY ONLY <1>4
    <3>2. QED
      BY ONLY <1>1, <1>4, <2>1, <2>2, <3>1, Zenon DEF CandidateOf
  <2>4. r.kind = kind /\ r.type_index = t /\ r.section_index = four /\ r.data_item_index = p
    BY ONLY <2>2
  <2>5. r.kind # "Embedded" /\ r.kind # "External"
    BY ONLY <2>1, <2>4
  <2>6. four \in DOMAIN whole.data_item_sections /\ whole.data_item_sections[four] = DataItemsOf(c)
    <3>1. DOMAIN whole.data_item_sections = {4} /\ whole.data_item_sections[4] = DataItemsOf(c)
      BY ONLY <1>1, IndexParts, Zenon
    <3>2. QED
      BY ONLY <2>2, <3>1
  <2>7. p < Len(DataItemsOf(c)) /\ DataItemsOf(c)[p + 1] = d
    <3>1. /\ IndexIn(Stored(c), v) < Len(DataItemsOf(c))
          /\ DataItemsOf(c)[IndexIn(Stored(c), v) + 1] = v.data
      BY ONLY ItemsAreWellFormed(c), j \in 1 .. Len(AllVariants(c)), v = AllVariants(c)[j], <1>4,
              DataOfCandidate
    <3>2. QED
      BY ONLY <1>1, <3>1, Zenon
  <2>8. ResolveCandidate(whole, map, r) = DecodeValue(d, v.type)
    <3>1. ResolveCandidate(whole, map, r)
            = DecodeValue(whole.data_item_sections[r.section_index][r.data_item_index + 1],
                          ResourceValueType(map, r.type_index))
      BY ONLY <1>2, <2>1, <2>4, <2>5, <2>6, <2>7, Zenon DEF ResolveCandidate
    <3>2. QED
      BY ONLY <1>2, <2>4, <2>6, <2>7, <3>1, Zenon
  <2>9. v.store \in {"Embedded", "DataString", "DataBlob"} /\ v.store # "External"
    BY ONLY <1>4
  <2>10. ValueOf(v) = DecodeValue(v.data, v.type)
    BY ONLY <2>9, Zenon DEF ValueOf
  <2>11. QED
    BY ONLY <1>1, <2>3, <2>8, <2>10, Zenon
<1>5. CASE v.store = "External"
  <2>1. PICK kind : kind = "External"
    OBVIOUS
  <2>2. PICK r, none, one, nine :
          /\ r = [kind |-> kind, type_index |-> none, referenced_file_index |-> one,
                  section_index |-> nine, data_item_index |-> d]
          /\ none = 0 /\ one = 1 /\ nine = 9
    OBVIOUS
  <2>3. CandidateOf(c, v) = r
    <3>1. v.store # "Embedded" /\ v.store \notin {"DataString", "DataBlob"}
      BY ONLY <1>5
    <3>2. QED
      BY ONLY <1>1, <1>5, <2>1, <2>2, <3>1, Zenon DEF CandidateOf
  <2>4. /\ r.kind = kind /\ r.referenced_file_index = one /\ r.section_index = nine
        /\ r.data_item_index = d
    BY ONLY <2>2
  <2>5. r.kind # "Embedded" /\ r.kind # "DataItem"
    BY ONLY <2>1, <2>4
  <2>6. ResolveCandidate(whole, map, r) = [kind |-> "External", data |-> <<one, nine, d>>]
    BY ONLY <2>1, <2>4, <2>5, Zenon DEF ResolveCandidate
  <2>7. v.store \notin {"Embedded", "DataString", "DataBlob"}
    BY ONLY <1>5
  <2>8. ValueOf(v) = [kind |-> "External", data |-> <<1, 9, v.data>>]
    BY ONLY <1>5, <2>7, Zenon DEF ValueOf
  <2>9. QED
    BY ONLY <1>1, <2>2, <2>3, <2>6, <2>8, Zenon
<1>6. CASE v.store \notin {"Embedded", "DataString", "DataBlob", "External"}
  <2>1. PICK kind : kind = "Unknown"
    OBVIOUS
  <2>2. PICK r, seven : r = [kind |-> kind, candidate_type |-> seven] /\ seven = 7
    OBVIOUS
  <2>3. v.store # "Embedded" /\ v.store \notin {"DataString", "DataBlob"} /\ v.store # "External"
        /\ v.store \notin {"Embedded", "DataString", "DataBlob"}
    BY ONLY <1>6, Zenon
  <2>4. CandidateOf(c, v) = r
    BY ONLY <2>1, <2>2, <2>3, Zenon DEF CandidateOf
  <2>5. r.kind = kind
    BY ONLY <2>2
  <2>6. r.kind # "Embedded" /\ r.kind # "DataItem" /\ r.kind # "External"
    BY ONLY <2>1, <2>5
  <2>7. ResolveCandidate(whole, map, r) = [kind |-> "error"]
    BY ONLY <2>6, Zenon DEF ResolveCandidate
  <2>8. ValueOf(v) = [kind |-> "error"]
    BY ONLY <2>3, Zenon DEF ValueOf
  <2>9. QED
    BY ONLY <1>1, <2>4, <2>7, <2>8, Zenon
<1>7. QED
  BY ONLY <1>3, <1>4, <1>5, <1>6, Zenon

\* What the contents mean for a path, in the terms of the item it names.
LEMMA MeantDef ==
  ASSUME NEW c, IsContents(c), NEW path, NEW ctx
  PROVE  LET best == Best(SetsFor(c, path), ctx)
             answer == [kind |-> "none"]
         IN  /\ c.primary /\ path \in ItemPaths(c) /\ best # 0
                  => Meant(c, path, ctx) = ValueOf(VariantsFor(c, path)[best])
             /\ c.primary /\ path \in ItemPaths(c) /\ best = 0 => Meant(c, path, ctx) = answer
             /\ ~(c.primary /\ path \in ItemPaths(c)) => Meant(c, path, ctx) = answer
<1> DEFINE
      named == {i \in DOMAIN c.names : c.names[i].path = path /\ ~c.names[i].scope}
      item  == c.items[CHOOSE k \in DOMAIN c.items : c.items[k].prop = c.names[Min(named)].prop]
      best  == Best(c.decisions[item.decision], ctx)
      v     == item.variants[best]
<1>1. Meant(c, path, ctx) =
        IF named = {} \/ ~c.primary \/ best = 0 THEN [kind |-> "none"]
        ELSE CASE v.store \in {"Embedded", "DataString", "DataBlob"} -> DecodeValue(v.data, v.type)
               [] v.store = "External" -> [kind |-> "External", data |-> <<1, 9, v.data>>]
               [] OTHER -> [kind |-> "error"]
  BY ONLY Zenon DEF Meant
<1>2. Meant(c, path, ctx) = IF named = {} \/ ~c.primary \/ best = 0 THEN [kind |-> "none"] ELSE ValueOf(v)
  BY ONLY <1>1, Zenon DEF ValueOf
<1>3. NamesAreWellFormed(c)
  BY ONLY IsContents(c), Zenon DEF IsContents
<1>4. /\ DOMAIN c.names = 1 .. Len(c.names)
      /\ \A j \in 1 .. Len(c.names) : PathsOf(c)[j] = c.names[j].path
  BY ONLY <1>3, NameParts
<1>5. \A i : i \in named <=> i \in ItemNames(c) /\ PathsOf(c)[i] = path
  BY ONLY <1>4, Zenon DEF ItemNames
<1> HIDE DEF named
<1>6. CASE path \notin ItemPaths(c)
  <2>1. \A i : i \notin named
    BY ONLY <1>5, <1>6, Zenon DEF ItemPaths
  <2>2. named = {}
    BY ONLY <2>1
  <2>3. QED
    BY ONLY <1>2, <1>6, <2>2, Zenon
<1>7. CASE path \in ItemPaths(c)
  <2>1. PICK i \in ItemNames(c) : /\ PathsOf(c)[i] = path /\ PropFor(c, path) = c.names[i].prop
                                  /\ \A j \in ItemNames(c) : PathsOf(c)[j] = path => j = i
    BY ONLY IsContents(c), <1>7, PathOfItem
  <2>2. \A j : j \in named <=> j = i
    BY ONLY <1>5, <2>1, Zenon
  <2>3. named = {i}
    BY ONLY <2>2
  <2>4. i \in Int
    <3>1. i \in DOMAIN c.names
      BY ONLY <2>1, Zenon DEF ItemNames
    <3>2. i \in 1 .. Len(c.names)
      BY ONLY <1>4, <3>1, Zenon
    <3>3. QED
      BY ONLY <3>2
  <2>5. Min(named) = i
    BY ONLY <2>3, <2>4, MinOfOne
  <2>6. item = c.items[ItemFor(c, path)]
    BY ONLY <2>1, <2>5, Zenon DEF ItemFor
  <2> HIDE DEF item
  <2>7. best = Best(SetsFor(c, path), ctx)
    BY ONLY <2>6, Zenon DEF SetsFor
  <2>8. item.variants = VariantsFor(c, path)
    BY ONLY <2>6, Zenon DEF VariantsFor
  <2> HIDE DEF best
  <2>9. named # {}
    BY ONLY <2>3
  <2>10. QED
    BY ONLY <1>2, <1>7, <2>7, <2>8, <2>9, Zenon
<1>8. QED
  BY ONLY <1>6, <1>7, Zenon

\* The index of a whole file answers as its contents say.
LEMMA ResolvedAsMeant ==
  ASSUME NEW c, IsContents(c), NEW path, NEW ctx, IsContext(ctx)
  PROVE  Resolve(WholeIndex(c), path, ctx) = Meant(c, path, ctx)
<1> DEFINE found == Locate(WholeIndex(c), path)
           best  == Best(found.sets, ctx)
<1>1. Resolve(WholeIndex(c), path, ctx) =
        IF found.kind # "found" THEN [kind |-> found.kind]
        ELSE IF best = 0 THEN [kind |-> "none"]
        ELSE ResolveCandidate(WholeIndex(c), found.map, found.candidates[best])
  BY ONLY Zenon DEF Resolve
<1>2. /\ c.primary /\ path \in ItemPaths(c) => found = Located(c, path)
      /\ ~(c.primary /\ path \in ItemPaths(c)) => found = [kind |-> "none"]
  <2>1. PICK f : f = Locate(WholeIndex(c), path)
    OBVIOUS
  <2>2. /\ c.primary /\ path \in ItemPaths(c) => f = Located(c, path)
        /\ ~(c.primary /\ path \in ItemPaths(c)) => f = [kind |-> "none"]
    BY ONLY IsContents(c), <2>1, LocateDef
  <2>3. QED
    BY ONLY <2>1, <2>2, Zenon
<1> HIDE DEF found
<1>3. CASE ~(c.primary /\ path \in ItemPaths(c))
  <2>1. PICK none : none = "none"
    OBVIOUS
  <2>2. found = [kind |-> none]
    BY ONLY <1>2, <1>3, <2>1, Zenon
  <2>3. found.kind = none
    BY ONLY <2>2
  <2>4. found.kind # "found"
    BY ONLY <2>1, <2>3
  <2>5. Resolve(WholeIndex(c), path, ctx) = [kind |-> "none"]
    BY ONLY <1>1, <2>1, <2>3, <2>4, Zenon
  <2>6. Meant(c, path, ctx) = [kind |-> "none"]
    BY ONLY IsContents(c), <1>3, MeantDef, Zenon
  <2>7. QED
    BY ONLY <2>5, <2>6, Zenon
<1>4. CASE c.primary /\ path \in ItemPaths(c)
  <2>1. PICK kind, m, sets, v, n, w :
          /\ kind = "found" /\ m = MapOf(c) /\ sets = SetsFor(c, path) /\ v = VariantsFor(c, path)
          /\ n = Len(v) /\ w = [j \in 1 .. n |-> CandidateOf(c, v[j])]
    OBVIOUS
  <2>2. found = [kind |-> kind, map |-> m, sets |-> sets, candidates |-> w]
    BY ONLY <1>2, <1>4, <2>1, Zenon DEF Located
  <2>3. found.kind = kind /\ found.map = m /\ found.sets = sets /\ found.candidates = w
    BY ONLY <2>2
  <2>4. PICK b : b = Best(sets, ctx)
    OBVIOUS
  <2>5. /\ b = 0 => Resolve(WholeIndex(c), path, ctx) = [kind |-> "none"]
        /\ b # 0 => Resolve(WholeIndex(c), path, ctx) = ResolveCandidate(WholeIndex(c), m, w[b])
    BY ONLY <1>1, <2>1, <2>3, <2>4, Zenon
  <2>6. /\ b = 0 => Meant(c, path, ctx) = [kind |-> "none"]
        /\ b # 0 => Meant(c, path, ctx) = ValueOf(v[b])
    BY ONLY IsContents(c), <1>4, <2>1, <2>4, MeantDef, Zenon
  <2>7. CASE b = 0
    BY ONLY <2>5, <2>6, <2>7, Zenon
  <2>8. CASE b # 0
    <3>1. /\ IsDecision(sets) /\ Len(sets) \in Nat /\ Len(v) = Len(sets)
          /\ ItemFor(c, path) \in 1 .. Len(c.items)
      BY ONLY IsContents(c), <1>4, <2>1, ItemOfPath
    <3>2. b \in 0 .. Len(sets)
      BY ONLY <2>4, <3>1, IsContext(ctx), BestDef
    <3>3. b \in 1 .. n
      <4>1. PICK l : l = Len(sets)
        OBVIOUS
      <4>2. l \in Nat /\ n = l /\ b \in 0 .. l
        BY ONLY <2>1, <3>1, <3>2, <4>1, Zenon
      <4>3. QED
        BY ONLY <2>8, <4>2
    <3>4. w[b] = CandidateOf(c, v[b])
      BY ONLY <2>1, <3>3, Zenon
    <3>5. ItemsAreWellFormed(c)
      BY ONLY IsContents(c), Zenon DEF IsContents
    <3>6. PICK k : k = ItemFor(c, path)
      OBVIOUS
    <3>7. k \in 1 .. Len(c.items) /\ v = c.items[k].variants
      BY ONLY <2>1, <3>1, <3>6, Zenon DEF VariantsFor
    <3>8. PICK x, y : x = v[b] /\ y = CandidatesBefore(c, k) + b
      OBVIOUS
    <3>9. /\ CandidatesBefore(c, k) \in Nat
          /\ CandidatesBefore(c, k) + Len(c.items[k].variants) <= Len(AllVariants(c))
          /\ \A j \in 1 .. Len(c.items[k].variants) :
               AllVariants(c)[CandidatesBefore(c, k) + j] = c.items[k].variants[j]
      BY ONLY <3>5, <3>7, CandidatePlaces
    <3>10. x = AllVariants(c)[y]
      BY ONLY <2>1, <3>3, <3>7, <3>8, <3>9, Zenon
    <3>11. y \in 1 .. Len(AllVariants(c))
      <4>1. PICK f, N : f = CandidatesBefore(c, k) /\ N = Len(AllVariants(c))
        OBVIOUS
      <4>2. f \in Nat /\ f + n <= N /\ y = f + b
        BY ONLY <2>1, <3>7, <3>8, <3>9, <4>1, Zenon
      <4>3. n \in Nat
        BY ONLY <2>1, <3>1, Zenon
      <4>4. N \in Nat
        <5>1. PICK T : AllVariants(c) \in Seq(T)
          BY ONLY <3>5, VariantList
        <5>2. QED
          BY ONLY <4>1, <5>1
      <4>5. y \in 1 .. N
        BY ONLY <3>3, <4>2, <4>3, <4>4
      <4>6. QED
        BY ONLY <4>1, <4>5, Zenon
    <3>12. ResolveCandidate(WholeIndex(c), MapOf(c), CandidateOf(c, x)) = ValueOf(x)
      BY ONLY <3>5, <3>10, <3>11, CandidateResolved
    <3>13. QED
      BY ONLY <2>1, <2>5, <2>6, <2>8, <3>4, <3>8, <3>12, Zenon
  <2>9. QED
    BY ONLY <2>7, <2>8, Zenon
<1>5. QED
  BY ONLY <1>3, <1>4, Zenon

\* It lists the paths of the items.
LEMMA PathsListed ==
  ASSUME NEW c, IsContents(c)
  PROVE  ResourcePaths(WholeIndex(c)) =
           IF c.primary THEN {c.names[i].path : i \in {j \in DOMAIN c.names : ~c.names[j].scope}}
           ELSE {}
<1>1. PICK whole, map : whole = WholeIndex(c) /\ map = MapOf(c)
  OBVIOUS
<1>2. /\ whole.primary = PrimaryOf(c)
      /\ DOMAIN whole.resource_maps = {3} /\ whole.resource_maps[3] = map
      /\ DOMAIN whole.hierarchical_schemas = {1}
      /\ whole.hierarchical_schemas[1] = SchemaOf(c)
  BY ONLY <1>1, IndexParts, Zenon
<1>3. /\ c.primary => PrimaryOf(c) = 3
      /\ ~c.primary => PrimaryOf(c) = NoIndex
      /\ 3 # NoIndex
  BY ONLY IsContents(c), LocatePrimary
<1>4. ResourcePaths(whole) =
        IF /\ whole.primary # NoIndex /\ whole.primary \in DOMAIN whole.resource_maps
           /\ whole.resource_maps[whole.primary].schema_index \in DOMAIN whole.hierarchical_schemas
        THEN DOMAIN whole.hierarchical_schemas[whole.resource_maps[whole.primary].schema_index]
        ELSE {}
  BY ONLY Zenon DEF ResourcePaths
<1>5. CASE ~c.primary
  <2>1. ResourcePaths(whole) = {}
    BY ONLY <1>2, <1>3, <1>4, <1>5, Zenon
  <2>2. QED
    BY ONLY <1>1, <1>5, <2>1, Zenon
<1>6. CASE c.primary
  <2>1. PICK three, one : three = 3 /\ one = 1
    OBVIOUS
  <2>2. /\ whole.primary = three /\ three # NoIndex /\ three \in DOMAIN whole.resource_maps
        /\ whole.resource_maps[three] = map
    BY ONLY <1>2, <1>3, <1>6, <2>1
  <2>3. map.schema_index = one
    BY ONLY <1>1, <2>1, MapParts
  <2>4. one \in DOMAIN whole.hierarchical_schemas /\ whole.hierarchical_schemas[one] = SchemaOf(c)
    BY ONLY <1>2, <2>1
  <2>5. ResourcePaths(whole) = DOMAIN SchemaOf(c)
    BY ONLY <1>4, <2>2, <2>3, <2>4, Zenon
  <2>6. DOMAIN SchemaOf(c) = ItemPaths(c)
    BY ONLY Zenon DEF SchemaOf, ItemPaths
  <2>7. NamesAreWellFormed(c)
    BY ONLY IsContents(c), Zenon DEF IsContents
  <2>8. /\ DOMAIN c.names = 1 .. Len(c.names)
        /\ \A j \in 1 .. Len(c.names) : PathsOf(c)[j] = c.names[j].path
    BY ONLY <2>7, NameParts
  <2>9. PICK P : P = {c.names[i].path : i \in {j \in DOMAIN c.names : ~c.names[j].scope}}
    OBVIOUS
  <2>10. \A p : p \in P <=> p \in ItemPaths(c)
    BY ONLY <2>8, <2>9, Zenon DEF ItemPaths, ItemNames
  <2>11. P = ItemPaths(c)
    BY ONLY <2>10
  <2>12. QED
    BY ONLY <1>1, <1>6, <2>5, <2>6, <2>9, <2>11, Zenon
<1>7. QED
  BY ONLY <1>5, <1>6, Zenon

\* An index that is ready is that of its contents, and an answer was given by it.
LEMMA ReadyIsIndexed ==
  IInv /\ phase = "ready" =>
    /\ IsContents(Content) /\ index = WholeIndex(Content)
    /\ asked # Unasked => Answered
<1> SUFFICES ASSUME IInv, phase = "ready"
             PROVE  /\ IsContents(Content) /\ index = WholeIndex(Content)
                    /\ asked # Unasked => Answered
  OBVIOUS
<1>1. FileIsWritten /\ Stage(4) /\ (asked = Unasked \/ (phase = "ready" /\ Answered))
  BY ONLY IInv, phase = "ready", Zenon DEF IInv
<1>2. IsContents(Content)
  BY ONLY <1>1, ContentIsWellFormed
<1>3. index = WholeIndex(Content)
  BY ONLY <1>1, Zenon DEF Stage, WholeIndex
<1>4. QED
  BY ONLY <1>1, <1>2, <1>3, Zenon

\* The invariant has every answer right.
LEMMA AnswerIsMeant == IInv => AnswersAsWritten
<1> SUFFICES ASSUME IInv, phase = "ready" PROVE AnswersAsWritten
  BY Zenon DEF AnswersAsWritten
<1>1. PICK c : c = Content
  OBVIOUS
<1>2. IsContents(c) /\ index = WholeIndex(c) /\ (asked # Unasked => Answered)
  BY ONLY IInv, phase = "ready", <1>1, ReadyIsIndexed, Zenon
<1>3. ResourcePaths(index) =
        IF c.primary THEN {c.names[i].path : i \in {j \in DOMAIN c.names : ~c.names[j].scope}} ELSE {}
  BY ONLY <1>2, PathsListed, Zenon
<1>4. ASSUME asked # Unasked PROVE asked.answer = Meant(c, asked.path, asked.ctx)
  <2>1. PICK path \in Paths, ctx \in Contexts :
          asked = [path |-> path, ctx |-> ctx, answer |-> Resolve(index, path, ctx),
                   explain |-> Explain(index, path, ctx)]
    BY ONLY <1>2, <1>4, Zenon DEF Answered
  <2>2. PICK a, e : a = Resolve(index, path, ctx) /\ e = Explain(index, path, ctx)
    OBVIOUS
  <2>3. asked = [path |-> path, ctx |-> ctx, answer |-> a, explain |-> e]
    BY ONLY <2>1, <2>2, Zenon
  <2>4. asked.path = path /\ asked.ctx = ctx /\ asked.answer = a
    BY ONLY <2>3
  <2>5. IsContext(ctx)
    BY ContextsAssumption, Zenon
  <2>6. Resolve(WholeIndex(c), path, ctx) = Meant(c, path, ctx)
    BY ONLY <1>2, <2>5, ResolvedAsMeant
  <2>7. QED
    BY ONLY <1>2, <2>2, <2>4, <2>6, Zenon
<1>5. QED
  BY ONLY <1>1, <1>3, <1>4, Zenon DEF AnswersAsWritten, Content

\* However a file packs its items, names and values, its index lists the paths of
\* its items and answers every question as the contents say: Pri::read, then
\* resource_paths and resolve.
THEOREM AnswersAreWritten == Spec => []AnswersAsWritten
<1>1. QED
  BY AnswerIsMeant, Invariant, PTL

-----------------------------------------------------------------------------
\* Which set is chosen.

Naturals0(n, w) == n \in Nat /\ w \in [1 .. n -> Nat]

\* A list of naturals with the element at p made 0.
Without(n, g, p) == [i \in 1 .. n |-> IF i = p THEN 0 ELSE g[i]]

\* It sums up to that element less.
LEMMA TotalWithout ==
  ASSUME NEW n, NEW g, Naturals0(n, g), NEW p, p \in 1 .. n
  PROVE  /\ Naturals0(n, Without(n, g, p))
         /\ TotalOf(Without(n, g, p)) = TotalOf(g) - g[p]
<1>0. PICK h : h = Without(n, g, p)
  OBVIOUS
<1>1. /\ n \in Nat /\ g \in [1 .. n -> Nat] /\ h \in [1 .. n -> Nat]
      /\ h[p] = 0 /\ \A i \in 1 .. n : i # p => h[i] = g[i]
  <2>1. n \in Nat /\ g \in [1 .. n -> Nat]
    BY DEF Naturals0
  <2>2. h = [i \in 1 .. n |-> IF i = p THEN 0 ELSE g[i]]
    BY <1>0 DEF Without
  <2>3. QED
    BY ONLY <2>1, <2>2, p \in 1 .. n
<1>2. PICK sg, sh : sg = Sums(g) /\ sh = Sums(h)
  OBVIOUS
<1>3. /\ sg \in [0 .. n -> Int] /\ sg[0] = 0 /\ \A i \in 1 .. n : sg[i] = sg[i - 1] + g[i]
      /\ sh \in [0 .. n -> Int] /\ sh[0] = 0 /\ \A i \in 1 .. n : sh[i] = sh[i - 1] + h[i]
  <2>1. g \in [1 .. n -> Int] /\ h \in [1 .. n -> Int]
    BY <1>1
  <2>2. QED
    BY <1>1, <1>2, <2>1, SumsDef
<1>9. PICK c : c = g[p]
  OBVIOUS
<1>10. c \in Nat /\ p \in Nat /\ 1 <= p /\ p <= n
  BY <1>1, <1>9
<1> DEFINE S == {k \in Nat : /\ (k <= n /\ k < p => sh[k] = sg[k])
                             /\ (k <= n /\ k >= p => sh[k] = sg[k] - c)}
<1>4. 0 \in S
  BY <1>1, <1>3, <1>10
<1>5. ASSUME NEW k \in S PROVE k + 1 \in S
  <2>1. k \in Nat /\ k + 1 \in Nat /\ k + 1 - 1 = k
    OBVIOUS
  <2>2. CASE k + 1 > n
    BY <1>1, <2>1, <2>2
  <2>3. CASE k + 1 <= n
    <3>1. k + 1 \in 1 .. n /\ k \in 0 .. n
      BY ONLY <1>1, <2>1, <2>3
    <3>2. sg[k + 1] = sg[k] + g[k + 1] /\ sh[k + 1] = sh[k] + h[k + 1]
      BY <1>3, <2>1, <3>1
    <3>3. sg[k] \in Int /\ sh[k] \in Int /\ g[k + 1] \in Nat
      BY ONLY <1>1, <1>3, <3>1
    <3>4. (k < p => sh[k] = sg[k]) /\ (k >= p => sh[k] = sg[k] - c)
      BY <1>1, <2>1, <2>3
    <3>5. CASE k + 1 = p
      <4>1. h[k + 1] = 0 /\ g[k + 1] = c
        BY <1>1, <1>9, <3>5
      <4>2. sh[k + 1] = sg[k + 1] - c
        BY ONLY <1>10, <2>1, <3>2, <3>3, <3>4, <3>5, <4>1
      <4>3. QED
        BY ONLY <1>10, <2>1, <3>5, <4>2
    <3>6. CASE k + 1 # p
      <4>1. h[k + 1] = g[k + 1]
        BY <1>1, <3>1, <3>6
      <4>2. (k + 1 < p => sh[k + 1] = sg[k + 1]) /\ (k + 1 >= p => sh[k + 1] = sg[k + 1] - c)
        BY ONLY <1>10, <2>1, <3>2, <3>3, <3>4, <3>6, <4>1
      <4>3. QED
        BY ONLY <2>1, <4>2
    <3>7. QED
      BY <3>5, <3>6
  <2>4. QED
    BY ONLY <1>1, <2>1, <2>2, <2>3
<1>6. S = Nat
  <2> HIDE DEF S
  <2>1. S \subseteq Nat
    BY DEF S
  <2>2. QED
    BY <1>4, <1>5, <2>1, InductionOnSet
<1>7. sh[n] = sg[n] - c
  <2>1. n \in S
    BY <1>1, <1>6
  <2>2. QED
    BY <1>1, <1>10, <2>1
<1>8. TotalOf(g) = sg[n] /\ TotalOf(h) = sh[n]
  BY <1>1, <1>2 DEF TotalOf
<1>11. Naturals0(n, h)
  BY <1>1 DEF Naturals0
<1>12. QED
  BY ONLY <1>0, <1>7, <1>8, <1>9, <1>11

\* The elements of a list f each have a greater or equal one of g.
Injects(n, f, m, g, e) ==
  /\ Naturals0(n, f) /\ Naturals0(m, g) /\ e \in [1 .. n -> 1 .. m]
  /\ \A k, l \in 1 .. n : e[k] = e[l] => k = l
  /\ \A k \in 1 .. n : f[k] <= g[e[k]]

\* What that says, with the types of the lists.
LEMMA InjectsParts ==
  ASSUME NEW n, NEW f, NEW m, NEW g, NEW e
  PROVE  Injects(n, f, m, g, e) <=>
           /\ n \in Nat /\ f \in [1 .. n -> Nat] /\ m \in Nat /\ g \in [1 .. m -> Nat]
           /\ Naturals0(n, f) /\ Naturals0(m, g) /\ e \in [1 .. n -> 1 .. m]
           /\ \A k, l \in 1 .. n : e[k] = e[l] => k = l
           /\ \A k \in 1 .. n : f[k] <= g[e[k]]
BY ONLY Zenon DEF Injects, Naturals0

\* Its total is a natural.
LEMMA TotalIsNat0 ==
  ASSUME NEW n, NEW w, Naturals0(n, w)
  PROVE  TotalOf(w) \in Nat
BY TotalIsNat DEF Naturals0

\* Then f sums up to no more than g.
LEMMA TotalOfInjected ==
  \A n \in Nat : \A f, m, g, e : Injects(n, f, m, g, e) => TotalOf(f) <= TotalOf(g)
<1> DEFINE S == {n \in Nat : \A f, m, g, e : Injects(n, f, m, g, e) => TotalOf(f) <= TotalOf(g)}
<1>1. 0 \in S
  <2>1. SUFFICES ASSUME NEW f, NEW m, NEW g, NEW e, Injects(0, f, m, g, e)
                 PROVE  TotalOf(f) <= TotalOf(g)
    OBVIOUS
  <2>2. f \in [1 .. 0 -> Int] /\ Naturals0(m, g)
    <3>1. f \in [1 .. 0 -> Nat] /\ Naturals0(m, g)
      BY ONLY Injects(0, f, m, g, e), InjectsParts
    <3>2. QED
      BY <3>1
  <2>3. TotalOf(g) \in Nat
    BY ONLY <2>2, TotalIsNat0
  <2>4. TotalOf(f) = 0
    <3>1. Len(f) = 0
      BY <2>2
    <3>2. Sums(f)[0] = 0
      BY <2>2, SumsDef
    <3>3. QED
      BY <3>1, <3>2 DEF TotalOf
  <2>5. QED
    BY <2>3, <2>4
<1>2. ASSUME NEW n \in S PROVE n + 1 \in S
  <2>1. n \in Nat /\ n + 1 \in Nat
    OBVIOUS
  <2>2. SUFFICES ASSUME NEW f, NEW m, NEW g, NEW e, Injects(n + 1, f, m, g, e)
                 PROVE  TotalOf(f) <= TotalOf(g)
    BY <2>1
  <2>3. \A f0, m0, g0, e0 : Injects(n, f0, m0, g0, e0) => TotalOf(f0) <= TotalOf(g0)
    OBVIOUS
  <2> HIDE DEF S
  <2>4. PICK N, p : N = n + 1 /\ p = e[n + 1]
    OBVIOUS
  <2>5. /\ f \in [1 .. N -> Nat] /\ m \in Nat /\ g \in [1 .. m -> Nat] /\ e \in [1 .. N -> 1 .. m]
        /\ \A k, l \in 1 .. N : e[k] = e[l] => k = l
        /\ \A k \in 1 .. N : f[k] <= g[e[k]]
        /\ Naturals0(m, g)
    <3>1. Injects(N, f, m, g, e)
      BY ONLY <2>2, <2>4, Zenon
    <3>2. QED
      BY ONLY <3>1, InjectsParts
  <2>6. N \in 1 .. N /\ (\A k \in 1 .. n : k \in 1 .. N /\ k # N) /\ N - 1 = n /\ N \in Nat
    BY <2>1, <2>4
  <2>7. p \in 1 .. m /\ f[N] <= g[p] /\ p = e[N]
    BY <2>4, <2>5, <2>6
  <2>8. PICK h : h = Without(m, g, p)
    OBVIOUS
  <2>9. Naturals0(m, h) /\ TotalOf(h) = TotalOf(g) - g[p] /\ h \in [1 .. m -> Nat]
    <3>1. Naturals0(m, g)
      BY <2>5
    <3>2. p \in 1 .. m
      BY <2>7
    <3>3. Naturals0(m, h) /\ TotalOf(h) = TotalOf(g) - g[p]
      BY ONLY <2>8, <3>1, <3>2, TotalWithout
    <3>4. QED
      BY <3>3 DEF Naturals0
  <2>10. PICK f0, e0 : f0 = [k \in 1 .. n |-> f[k]] /\ e0 = [k \in 1 .. n |-> e[k]]
    OBVIOUS
  <2>11. Injects(n, f0, m, h, e0)
    <3>1. f0 \in [1 .. n -> Nat] /\ e0 \in [1 .. n -> 1 .. m]
      BY <2>5, <2>6, <2>10
    <3>2. \A k, l \in 1 .. n : e0[k] = e0[l] => k = l
      BY <2>5, <2>6, <2>10
    <3>3. \A k \in 1 .. n : e0[k] # p /\ f0[k] <= g[e0[k]] /\ e0[k] \in 1 .. m
      BY <2>5, <2>6, <2>7, <2>10
    <3>4. \A k \in 1 .. n : h[e0[k]] = g[e0[k]]
      BY ONLY <2>8, <3>3 DEF Without
    <3>5. \A k \in 1 .. n : f0[k] <= h[e0[k]]
      BY <3>3, <3>4
    <3>6. QED
      <4>1. Naturals0(n, f0) /\ Naturals0(m, h)
        BY <2>1, <2>9, <3>1 DEF Naturals0
      <4>2. m \in Nat
        BY <2>5
      <4>3. QED
        BY ONLY <2>1, <2>9, <3>1, <3>2, <3>5, <4>1, <4>2, InjectsParts
  <2>12. TotalOf(f0) <= TotalOf(h)
    BY <2>3, <2>11
  <2>13. TotalOf(f) = TotalOf(f0) + f[N]
    <3>1. f \in [1 .. N -> Int] /\ f0 \in [1 .. n -> Int] /\ Len(f) = N /\ Len(f0) = n /\ f[N] \in Nat
      BY <2>1, <2>5, <2>6, <2>10
    <3>2. Sums(f)[N] = Sums(f)[N - 1] + f[N]
      BY <2>6, <3>1, SumsDef
    <3>3. n \in 0 .. N /\ n \in 0 .. n
      BY <2>1, <2>4
    <3>4. \A i \in 1 .. n : f0[i] = f[i]
      BY <2>10
    <3>5. \A i \in 0 .. n : Sums(f0)[i] = Sums(f)[i]
      BY <2>6, <3>1, <3>3, <3>4, SumsOfFront
    <3>6. Sums(f0)[n] = Sums(f)[n]
      BY <3>3, <3>5
    <3>7. TotalOf(f) = Sums(f)[N] /\ TotalOf(f0) = Sums(f0)[n]
      BY <3>1 DEF TotalOf
    <3>8. QED
      BY <2>6, <3>2, <3>6, <3>7
  <2>14. TotalOf(g) \in Nat /\ TotalOf(h) \in Nat
    BY <2>5, <2>9, TotalIsNat0
  <2>15. TotalOf(f0) \in Nat
    BY <2>11, TotalIsNat0 DEF Injects
  <2>16. f[N] \in Nat /\ g[p] \in Nat
    BY <2>5, <2>6, <2>7
  <2>17. QED
    BY ONLY <2>7, <2>9, <2>12, <2>13, <2>14, <2>15, <2>16
<1>3. S = Nat
  <2> HIDE DEF S
  <2>1. S \subseteq Nat
    BY DEF S
  <2>2. QED
    BY <1>1, <1>2, <2>1, InductionOnSet
<1>4. QED
  BY <1>3

\* If an element of g is none of them and more than 0, g sums up to more.
LEMMA TotalIsMore ==
  ASSUME NEW n, NEW f, NEW m, NEW g, NEW e, Injects(n, f, m, g, e),
         NEW p, p \in 1 .. m, \A k \in 1 .. n : e[k] # p, g[p] > 0
  PROVE  TotalOf(f) < TotalOf(g)
<1>1. /\ n \in Nat /\ f \in [1 .. n -> Nat] /\ m \in Nat /\ g \in [1 .. m -> Nat]
      /\ Naturals0(n, f) /\ Naturals0(m, g) /\ e \in [1 .. n -> 1 .. m]
      /\ \A k, l \in 1 .. n : e[k] = e[l] => k = l
      /\ \A k \in 1 .. n : f[k] <= g[e[k]]
  BY ONLY Injects(n, f, m, g, e), InjectsParts
<1>2. PICK h : h = Without(m, g, p)
  OBVIOUS
<1>3. Naturals0(m, h) /\ TotalOf(h) = TotalOf(g) - g[p] /\ h \in [1 .. m -> Nat]
  <2>1. Naturals0(m, g)
    BY <1>1
  <2>2. p \in 1 .. m
    OBVIOUS
  <2>3. Naturals0(m, h) /\ TotalOf(h) = TotalOf(g) - g[p]
    BY ONLY <1>2, <2>1, <2>2, TotalWithout
  <2>4. QED
    BY <2>3 DEF Naturals0
<1>4. \A k \in 1 .. n : f[k] <= h[e[k]]
  BY ONLY <1>1, <1>2, \A k \in 1 .. n : e[k] # p DEF Without
<1>5. Injects(n, f, m, h, e)
  BY ONLY <1>1, <1>3, <1>4, InjectsParts
<1>6. TotalOf(f) <= TotalOf(h)
  <2>1. n \in Nat
    BY <1>1
  <2>2. QED
    BY ONLY <1>5, <2>1, TotalOfInjected
<1>7. TotalOf(g) \in Nat /\ TotalOf(h) \in Nat /\ TotalOf(f) \in Nat
  BY <1>1, <1>3, TotalIsNat0
<1>8. g[p] \in Nat
  BY <1>1
<1>9. QED
  BY ONLY <1>3, <1>6, <1>7, <1>8, g[p] > 0

\* An explanation lists the sets of a decision with their scores.
IsExplained(sets, ctx, explain) ==
  /\ IsDecision(sets) /\ IsContext(ctx) /\ DOMAIN explain = 1 .. Len(sets)
  /\ \A i \in 1 .. Len(sets) : /\ explain[i].qualifiers = sets[i]
                               /\ explain[i].score = Evaluate(sets[i], ctx)

\* The explanation of a path of the index of a whole file.
LEMMA ExplainDef ==
  ASSUME NEW c, IsContents(c), NEW path, NEW ctx, IsContext(ctx),
         Explain(WholeIndex(c), path, ctx) # <<>>
  PROVE  IsExplained(SetsFor(c, path), ctx, Explain(WholeIndex(c), path, ctx))
<1>1. PICK found, sets, x : /\ found = Locate(WholeIndex(c), path)
                            /\ sets = SetsFor(c, path) /\ x = Explain(WholeIndex(c), path, ctx)
  OBVIOUS
<1>2. x = IF found.kind # "found" THEN <<>>
          ELSE [i \in DOMAIN found.sets |->
                  [qualifiers |-> found.sets[i], score |-> Evaluate(found.sets[i], ctx),
                   candidate |-> found.candidates[i]]]
  BY ONLY <1>1, Zenon DEF Explain
<1>3. x # <<>>
  BY ONLY Explain(WholeIndex(c), path, ctx) # <<>>, <1>1, Zenon
<1>4. x = [i \in DOMAIN found.sets |->
             [qualifiers |-> found.sets[i], score |-> Evaluate(found.sets[i], ctx),
              candidate |-> found.candidates[i]]]
      /\ found.kind = "found"
  BY ONLY <1>2, <1>3, Zenon
<1>5. /\ c.primary /\ path \in ItemPaths(c) => found = Located(c, path)
      /\ ~(c.primary /\ path \in ItemPaths(c)) => found = [kind |-> "none"]
  BY ONLY IsContents(c), <1>1, LocateDef
<1>6. c.primary /\ path \in ItemPaths(c)
  <2>1. SUFFICES ASSUME ~(c.primary /\ path \in ItemPaths(c)) PROVE FALSE
    BY Zenon
  <2>2. PICK none : none = "none"
    OBVIOUS
  <2>3. found = [kind |-> none]
    BY ONLY <1>5, <2>1, <2>2, Zenon
  <2>4. found.kind = none
    BY ONLY <2>3
  <2>5. none # "found"
    BY ONLY <2>2
  <2>6. QED
    BY ONLY <1>4, <2>4, <2>5, Zenon
<1>7. PICK kind, m, w : /\ kind = "found" /\ m = MapOf(c)
                        /\ w = [j \in 1 .. Len(VariantsFor(c, path)) |-> CandidateOf(c, VariantsFor(c, path)[j])]
  OBVIOUS
<1>8. found = [kind |-> kind, map |-> m, sets |-> sets, candidates |-> w]
  BY ONLY <1>1, <1>5, <1>6, <1>7, Zenon DEF Located
<1>9. found.sets = sets
  BY ONLY <1>8
<1>10. /\ IsDecision(sets) /\ DOMAIN sets = 1 .. Len(sets)
  BY ONLY IsContents(c), <1>1, <1>6, ItemOfPath
<1>11. PICK score, candidate : /\ score = [i \in DOMAIN sets |-> Evaluate(sets[i], ctx)]
                               /\ candidate = found.candidates
  OBVIOUS
<1>12. DOMAIN x = 1 .. Len(sets)
  BY ONLY <1>4, <1>9, <1>10, Zenon
<1>13. ASSUME NEW i \in 1 .. Len(sets)
       PROVE  x[i].qualifiers = sets[i] /\ x[i].score = Evaluate(sets[i], ctx)
  <2>1. PICK a, b, d : a = sets[i] /\ b = Evaluate(sets[i], ctx) /\ d = found.candidates[i]
    OBVIOUS
  <2>2. x[i] = [qualifiers |-> a, score |-> b, candidate |-> d]
    BY ONLY <1>4, <1>9, <1>10, <1>13, <2>1, Zenon
  <2>3. x[i].qualifiers = a /\ x[i].score = b
    BY ONLY <2>2
  <2>4. QED
    BY ONLY <2>1, <2>3, Zenon
<1>14. QED
  BY ONLY <1>1, <1>10, <1>12, <1>13, IsContext(ctx), Zenon DEF IsExplained

\* A question that has an explanation was one about a decision of the contents.
LEMMA Explained ==
  IInv /\ Asked => \E sets : /\ IsExplained(sets, asked.ctx, asked.explain)
                             /\ Chosen = Best(sets, asked.ctx)
<1> SUFFICES ASSUME IInv, Asked
             PROVE  \E sets : /\ IsExplained(sets, asked.ctx, asked.explain)
                              /\ Chosen = Best(sets, asked.ctx)
  OBVIOUS
<1>1. phase = "ready" /\ asked # Unasked /\ asked.explain # <<>>
  BY ONLY Asked, Zenon DEF Asked
<1>2. PICK c : c = Content
  OBVIOUS
<1>3. IsContents(c) /\ index = WholeIndex(c) /\ Answered
  BY ONLY IInv, <1>1, <1>2, ReadyIsIndexed, Zenon
<1>4. PICK path \in Paths, ctx \in Contexts :
        asked = [path |-> path, ctx |-> ctx, answer |-> Resolve(index, path, ctx),
                 explain |-> Explain(index, path, ctx)]
  BY ONLY <1>3, Zenon DEF Answered
<1>5. PICK a, e : a = Resolve(index, path, ctx) /\ e = Explain(index, path, ctx)
  OBVIOUS
<1>6. asked = [path |-> path, ctx |-> ctx, answer |-> a, explain |-> e]
  BY ONLY <1>4, <1>5, Zenon
<1>7. asked.ctx = ctx /\ asked.explain = e
  BY ONLY <1>6
<1>8. IsContext(ctx)
  BY ContextsAssumption, Zenon
<1>9. e = Explain(WholeIndex(c), path, ctx) /\ e # <<>>
  BY ONLY <1>1, <1>3, <1>5, <1>7, Zenon
<1>10. PICK sets : sets = SetsFor(c, path)
  OBVIOUS
<1>11. IsExplained(sets, ctx, e)
  <2>1. Explain(WholeIndex(c), path, ctx) # <<>>
    BY ONLY <1>9, Zenon
  <2>2. IsContents(c)
    BY <1>3
  <2>3. IsExplained(SetsFor(c, path), ctx, Explain(WholeIndex(c), path, ctx))
    BY ONLY <1>8, <2>1, <2>2, ExplainDef
  <2>4. QED
    BY ONLY <1>9, <1>10, <2>3, Zenon
<1>12. sets = [i \in DOMAIN e |-> e[i].qualifiers]
  <2>1. /\ IsDecision(sets) /\ DOMAIN e = 1 .. Len(sets)
        /\ \A i \in 1 .. Len(sets) : e[i].qualifiers = sets[i]
    BY ONLY <1>11, Zenon DEF IsExplained
  <2>2. IsList(sets)
    BY ONLY <2>1, Zenon DEF IsDecision
  <2>3. PICK R : R = Range(sets)
    OBVIOUS
  <2>4. sets \in Seq(R)
    BY ONLY <2>2, <2>3, Zenon DEF IsList
  <2>5. PICK D : D = DOMAIN e
    OBVIOUS
  <2> DEFINE F(i) == e[i].qualifiers
  <2>6. D = 1 .. Len(sets) /\ \A i \in 1 .. Len(sets) : F(i) = sets[i]
    BY ONLY <2>1, <2>5, Zenon
  <2> HIDE DEF F
  <2>7. sets = [i \in D |-> F(i)]
    BY ONLY <2>4, <2>6
  <2>8. QED
    BY ONLY <2>5, <2>7, Zenon DEF F
<1>13. Chosen = Best(sets, ctx)
  <2>1. Chosen = Best([i \in DOMAIN asked.explain |-> asked.explain[i].qualifiers], asked.ctx)
    BY ONLY Zenon DEF Chosen
  <2>2. Chosen = Best([i \in DOMAIN e |-> e[i].qualifiers], ctx)
    BY ONLY <1>7, <2>1, Zenon
  <2>3. QED
    BY ONLY <1>12, <2>2, Zenon
<1>14. QED
  BY ONLY <1>7, <1>11, <1>13, Zenon

\* A set of one qualifier that has no fallback score is worth what that is.
LEMMA PlainScore ==
  ASSUME NEW s, IsSet(s), NEW ctx, IsContext(ctx), Len(s) = 1, s[1].fallback_score = 0
  PROVE  Evaluate(s, ctx) = EvaluateQualifier(s[1], ctx)
<1>1. PICK n, w, one : n = Len(s) /\ w = Weights(s, ctx) /\ one = 1
  OBVIOUS
<1>2. n = one /\ s[one].fallback_score = 0 /\ \A i \in 1 .. n : i = one
  <2>1. n = 1 /\ one = 1 /\ s[1].fallback_score = 0
    BY ONLY <1>1, Len(s) = 1, s[1].fallback_score = 0, Zenon
  <2>2. s[one].fallback_score = 0
    BY ONLY <2>1, Zenon
  <2>3. QED
    BY ONLY <2>1, <2>2
<1>3. \/ /\ Evaluate(s, ctx) = NoMatch
         /\ \E i \in 1 .. n : EvaluateQualifier(s[i], ctx) = NoMatch
      \/ IsWeighed(s, ctx, n, w)
  <2>1. \/ /\ Evaluate(s, ctx) = NoMatch
           /\ \E i \in 1 .. Len(s) : EvaluateQualifier(s[i], ctx) = NoMatch
        \/ IsWeighed(s, ctx, Len(s), Weights(s, ctx))
    BY ONLY IsSet(s), IsContext(ctx), EvaluateScore
  <2>2. QED
    BY ONLY <1>1, <2>1, Zenon
<1>4. PICK E, e : E = Evaluate(s, ctx) /\ e = EvaluateQualifier(s[one], ctx)
  OBVIOUS
<1>5. CASE E = NoMatch /\ \E i \in 1 .. n : EvaluateQualifier(s[i], ctx) = NoMatch
  BY ONLY <1>1, <1>2, <1>4, <1>5, Zenon
<1>6. CASE IsWeighed(s, ctx, n, w)
  <2>0. one \in 1 .. n
    BY ONLY <1>1, <1>2
  <2>1. E = TotalOf(w) /\ w \in [1 .. n -> Nat] /\ e \in Nat /\ w[one] = e + s[one].fallback_score
    BY ONLY <1>4, <1>6, <2>0, Zenon DEF IsWeighed
  <2>2. w[one] = e
    <3>1. PICK g : g = s[one].fallback_score
      OBVIOUS
    <3>2. g = 0 /\ w[one] = e + g
      BY ONLY <1>2, <2>1, <3>1, Zenon
    <3>3. QED
      BY ONLY <2>1, <3>2
  <2>3. TotalOf(w) = w[one]
    <3>1. n = 1 /\ one = 1 /\ w \in [1 .. 1 -> Int]
      BY ONLY <1>1, <1>2, <2>1
    <3>2. Len(w) = 1
      BY ONLY <3>1
    <3>3. TotalOf(w) = Sums(w)[1]
      BY ONLY <3>2 DEF TotalOf
    <3>4. Sums(w)[0] = 0 /\ Sums(w)[1] = Sums(w)[0] + w[1] /\ w[1] \in Int
      <4>1. PICK k \in Nat : k = 1
        OBVIOUS
      <4>2. w \in [1 .. k -> Int] /\ k \in 1 .. k /\ k - 1 = 0
        BY ONLY <3>1, <4>1
      <4>3. Sums(w)[0] = 0 /\ \A i \in 1 .. k : Sums(w)[i] = Sums(w)[i - 1] + w[i]
        BY ONLY <4>1, <4>2, SumsDef
      <4>4. QED
        BY ONLY <4>1, <4>2, <4>3
    <3>5. QED
      BY ONLY <3>1, <3>3, <3>4
  <2>4. QED
    BY ONLY <1>1, <1>4, <2>1, <2>2, <2>3, Zenon
<1>7. QED
  BY ONLY <1>3, <1>4, <1>5, <1>6, Zenon

\* If that is a number of a type the context has, it is worth the distance.
LEMMA PlainNumber ==
  ASSUME NEW s, IsSet(s), NEW ctx, IsContext(ctx), Len(s) = 1, s[1].fallback_score = 0,
         NEW type, type \in Numeric, type \in DOMAIN ctx, s[1].type = type
  PROVE  /\ Evaluate(s, ctx) = MatchNumeric(ctx[type], s[1].value)
         /\ s[1].value \in Int /\ ctx[type] \in Nat
<1>1. Evaluate(s, ctx) = EvaluateQualifier(s[1], ctx)
  BY ONLY IsSet(s), IsContext(ctx), Len(s) = 1, s[1].fallback_score = 0, PlainScore
<1>2. type # "Language" /\ type # "Custom" /\ ValuesOf(type) = Int
  BY ONLY type \in Numeric, NumericTypes, Zenon
<1>3. EvaluateQualifier(s[1], ctx) = MatchNumeric(ctx[type], s[1].value)
  BY ONLY <1>2, type \in Numeric, type \in DOMAIN ctx, s[1].type = type, Zenon DEF EvaluateQualifier
<1>4. IsQualifier(s[1])
  <2>1. IsList(s) /\ \A q \in Range(s) : IsQualifier(q)
    BY ONLY IsSet(s), Zenon DEF IsSet
  <2>2. \A i \in 1 .. Len(s) : s[i] \in Range(s)
    BY ONLY <2>1, ListParts
  <2>3. 1 \in 1 .. Len(s)
    BY ONLY Len(s) = 1
  <2>4. QED
    BY ONLY <2>1, <2>2, <2>3, Zenon
<1>5. s[1].value \in Int
  <2>1. PICK q : q = s[1]
    OBVIOUS
  <2>2. IsQualifier(q)
    BY ONLY <1>4, <2>1, Zenon
  <2>3. q.value \in ValuesOf(q.type)
    BY ONLY <2>2, TestedQualifier
  <2>4. QED
    BY ONLY <1>2, <2>1, <2>3, s[1].type = type, Zenon
<1>6. ctx[type] \in Nat
  BY ONLY IsContext(ctx), type \in Numeric, type \in DOMAIN ctx, Zenon DEF IsContext
<1>7. QED
  BY ONLY <1>1, <1>3, <1>5, <1>6, Zenon

\* Numbers, their distances from a larger one, and which of two comes before the
\* other: the closer one, and of two equally far ones the first.
Under(val, i, cur)      == val[i] \in 0 .. cur
Far(val, i, cur)        == Min({cur - val[i], 1000})
NoFarther(val, i, j, cur) == \/ Far(val, i, cur) < Far(val, j, cur)
                             \/ Far(val, i, cur) = Far(val, j, cur) /\ i <= j

\* The scores of numbers and the best of them, as BestDef says.
AreScored(n, cur, val, score, best) ==
  /\ n \in Nat /\ cur \in Nat /\ val \in [1 .. n -> Int] /\ best \in 0 .. n
  /\ \A i \in 1 .. n : score[i] = MatchNumeric(cur, val[i])
  /\ best = 0 => \A i \in 1 .. n : score[i] = NoMatch
  /\ best # 0 => \A i \in 1 .. n : score[i] <= score[best]
  /\ best # 0 => \A i \in 1 .. n : score[i] = score[best] => best <= i

\* A number scores by its distance, if it is not larger.
LEMMA ScoreOfDistance ==
  ASSUME NEW cur \in Nat, NEW v \in Int, NEW m, m = MatchNumeric(cur, v),
         NEW f, f = Min({cur - v, 1000})
  PROVE  /\ v \notin 0 .. cur => m = -1
         /\ v \in 0 .. cur => f \in 0 .. 1000 /\ m = 1000 - f
<1>1. PICK d \in Int : d = cur - v
  OBVIOUS
<1>2. Min({d, 1000}) = IF d <= 1000 THEN d ELSE 1000
  BY MinOfTwo
<1>3. /\ v < 0 \/ v > cur => MatchNumeric(cur, v) = -1
      /\ v \in 0 .. cur /\ cur - v < 1000 => MatchNumeric(cur, v) = 1000 - (cur - v)
      /\ v \in 0 .. cur /\ cur - v >= 1000 => MatchNumeric(cur, v) = 0
  BY ONLY cur \in Nat, v \in Int, NumericScore
<1>4. f = IF d <= 1000 THEN d ELSE 1000
  BY ONLY <1>1, <1>2, f = Min({cur - v, 1000})
<1>5. /\ v < 0 \/ v > cur => m = -1
      /\ v \in 0 .. cur /\ cur - v < 1000 => m = 1000 - (cur - v)
      /\ v \in 0 .. cur /\ cur - v >= 1000 => m = 0
  BY ONLY <1>3, m = MatchNumeric(cur, v)
<1>6. QED
  BY ONLY <1>1, <1>4, <1>5, cur \in Nat, v \in Int

\* A best of them is not larger than the current one, if any is not, and comes
\* before all others that are not.
LEMMA Closest ==
  ASSUME NEW n, NEW cur, NEW val, NEW score, NEW best, AreScored(n, cur, val, score, best),
         NEW k, k \in 1 .. n, Under(val, k, cur)
  PROVE  best \in 1 .. n /\ Under(val, best, cur) /\ NoFarther(val, best, k, cur)
<1>1. /\ n \in Nat /\ cur \in Nat /\ val \in [1 .. n -> Int] /\ best \in 0 .. n
      /\ \A i \in 1 .. n : score[i] = MatchNumeric(cur, val[i])
      /\ best = 0 => \A i \in 1 .. n : score[i] = NoMatch
      /\ best # 0 => \A i \in 1 .. n : score[i] <= score[best]
      /\ best # 0 => \A i \in 1 .. n : score[i] = score[best] => best <= i
  BY ONLY AreScored(n, cur, val, score, best), Zenon DEF AreScored
<1>2. ASSUME NEW i \in 1 .. n
      PROVE  /\ ~Under(val, i, cur) => score[i] = -1
             /\ Under(val, i, cur) =>
                  Far(val, i, cur) \in 0 .. 1000 /\ score[i] = 1000 - Far(val, i, cur)
  <2>1. PICK v, m, f : v = val[i] /\ m = score[i] /\ f = Far(val, i, cur)
    OBVIOUS
  <2>2. v \in Int /\ cur \in Nat
    BY ONLY <1>1, <1>2, <2>1
  <2>3. m = MatchNumeric(cur, v)
    BY ONLY <1>1, <1>2, <2>1, Zenon
  <2>4. f = Min({cur - v, 1000})
    BY ONLY <2>1 DEF Far
  <2>5. /\ v \notin 0 .. cur => m = -1
        /\ v \in 0 .. cur => f \in 0 .. 1000 /\ m = 1000 - f
    BY ONLY <2>2, <2>3, <2>4, ScoreOfDistance
  <2>6. Under(val, i, cur) <=> v \in 0 .. cur
    BY ONLY <2>1, Zenon DEF Under
  <2>7. QED
    BY ONLY <2>1, <2>5, <2>6
<1>3. NoMatch = -1
  BY DEF NoMatch
<1>4. Far(val, k, cur) \in 0 .. 1000 /\ score[k] = 1000 - Far(val, k, cur)
  BY ONLY <1>2, k \in 1 .. n, Under(val, k, cur), Zenon
<1>5. best \in 1 .. n
  <2>1. score[k] # NoMatch
    BY ONLY <1>3, <1>4
  <2>2. best # 0
    BY ONLY <1>1, <2>1, k \in 1 .. n, Zenon
  <2>3. QED
    BY ONLY <1>1, <2>2
<1>6. score[k] <= score[best] /\ (score[k] = score[best] => best <= k)
  <2>1. best # 0
    BY ONLY <1>5
  <2>2. QED
    BY ONLY <1>1, <2>1, k \in 1 .. n, Zenon
<1>7. Under(val, best, cur)
  <2>1. ASSUME ~Under(val, best, cur) PROVE FALSE
    <3>1. score[best] = -1
      BY ONLY <1>2, <1>5, <2>1, Zenon
    <3>2. QED
      BY ONLY <1>4, <1>6, <3>1
  <2>2. QED
    BY ONLY <2>1, Zenon
<1>8. Far(val, best, cur) \in 0 .. 1000 /\ score[best] = 1000 - Far(val, best, cur)
  BY ONLY <1>2, <1>5, <1>7
<1>9. PICK x, y, w, z : /\ x = Far(val, best, cur) /\ y = Far(val, k, cur)
                        /\ w = score[best] /\ z = score[k]
  OBVIOUS
<1>10. /\ x \in 0 .. 1000 /\ y \in 0 .. 1000 /\ w = 1000 - x /\ z = 1000 - y
       /\ z <= w /\ (z = w => best <= k)
  BY ONLY <1>4, <1>6, <1>8, <1>9
<1>11. NoFarther(val, best, k, cur)
  <2>1. x < y \/ (x = y /\ best <= k)
    BY ONLY <1>10
  <2>2. QED
    BY ONLY <1>9, <2>1, Zenon DEF NoFarther
<1>12. QED
  BY ONLY <1>5, <1>7, <1>11, Zenon

\* What explains a set that is plain in a type, in an explanation x.
PlainIn(x, i, type) ==
  /\ Len(x[i].qualifiers) = 1 /\ x[i].qualifiers[1].type = type
  /\ x[i].qualifiers[1].fallback_score = 0

\* The best of a decision whose sets test numbers of one type.
LEMMA ClosestIsBest ==
  ASSUME NEW sets, NEW ctx, NEW x, IsExplained(sets, ctx, x),
         NEW type, type \in Numeric, type \in DOMAIN ctx,
         \A i \in DOMAIN x : PlainIn(x, i, type),
         NEW k, k \in DOMAIN x, NEW val, \A i \in DOMAIN x : val[i] = x[i].qualifiers[1].value,
         NEW cur, cur = ctx[type], Under(val, k, cur), NEW best, best = Best(sets, ctx)
  PROVE  best \in DOMAIN x /\ Under(val, best, cur) /\ NoFarther(val, best, k, cur)
<1>1. PICK n : n = Len(sets)
  OBVIOUS
<1>2. /\ IsDecision(sets) /\ IsContext(ctx) /\ DOMAIN x = 1 .. n
      /\ \A i \in 1 .. n : /\ x[i].qualifiers = sets[i] /\ x[i].score = Evaluate(sets[i], ctx)
  BY ONLY IsExplained(sets, ctx, x), <1>1, Zenon DEF IsExplained
<1>3. n \in Nat /\ \A i \in 1 .. n : IsSet(sets[i])
  <2>1. IsList(sets) /\ \A s \in Range(sets) : IsSet(s)
    BY ONLY <1>2, Zenon DEF IsDecision
  <2>2. Len(sets) \in Nat /\ \A i \in 1 .. Len(sets) : sets[i] \in Range(sets)
    BY ONLY <2>1, ListParts
  <2>3. QED
    BY ONLY <1>1, <2>1, <2>2, Zenon
<1>4. ASSUME NEW i \in 1 .. n
      PROVE  /\ Evaluate(sets[i], ctx) = MatchNumeric(cur, val[i])
             /\ val[i] \in Int /\ cur \in Nat
  <2>1. PICK s : s = sets[i]
    OBVIOUS
  <2>2. IsSet(s) /\ x[i].qualifiers = s
    BY ONLY <1>2, <1>3, <1>4, <2>1, Zenon
  <2>3. PlainIn(x, i, type) /\ val[i] = x[i].qualifiers[1].value
    BY <1>2, <1>4, Zenon
  <2>4. Len(s) = 1 /\ s[1].type = type /\ s[1].fallback_score = 0 /\ val[i] = s[1].value
    BY ONLY <2>2, <2>3, Zenon DEF PlainIn
  <2>5. IsContext(ctx)
    BY <1>2
  <2>6. /\ Evaluate(s, ctx) = MatchNumeric(ctx[type], s[1].value)
        /\ s[1].value \in Int /\ ctx[type] \in Nat
    BY ONLY <2>2, <2>4, <2>5, type \in Numeric, type \in DOMAIN ctx, PlainNumber
  <2>7. QED
    BY ONLY <2>1, <2>4, <2>6, cur = ctx[type], Zenon
<1>5. PICK v, score : /\ v = [i \in 1 .. n |-> val[i]]
                      /\ score = [i \in 1 .. n |-> Evaluate(sets[i], ctx)]
  OBVIOUS
<1>6. \A i \in 1 .. n : v[i] = val[i] /\ score[i] = Evaluate(sets[i], ctx)
  BY ONLY <1>5, Zenon
<1>7. v \in [1 .. n -> Int]
  BY ONLY <1>4, <1>5
<1>8. \A i \in 1 .. n : score[i] = MatchNumeric(cur, v[i])
  BY ONLY <1>4, <1>6, Zenon
<1>9. k \in 1 .. n
  BY <1>2, Zenon
<1>10. /\ best \in 0 .. Len(sets)
       /\ best = 0 => \A i \in 1 .. Len(sets) : Evaluate(sets[i], ctx) = NoMatch
       /\ best # 0 => /\ Evaluate(sets[best], ctx) # NoMatch
                      /\ \A i \in 1 .. Len(sets) :
                           Evaluate(sets[i], ctx) <= Evaluate(sets[best], ctx)
       /\ best # 0 => \A i \in 1 .. Len(sets) :
                        Evaluate(sets[i], ctx) = Evaluate(sets[best], ctx) => best <= i
  <2>1. IsDecision(sets)
    BY <1>2
  <2>2. IsContext(ctx)
    BY <1>2
  <2>3. QED
    BY ONLY <2>1, <2>2, best = Best(sets, ctx), BestDef
<1>11. best \in 0 .. n
  BY ONLY <1>1, <1>10, Zenon
<1>12. best = 0 => \A i \in 1 .. n : score[i] = NoMatch
  BY ONLY <1>1, <1>6, <1>10, Zenon
<1>13. best # 0 => best \in 1 .. n
  BY ONLY <1>3, <1>11
<1>14. best # 0 => \A i \in 1 .. n : score[i] <= score[best]
  BY ONLY <1>1, <1>6, <1>10, <1>13, Zenon
<1>15. best # 0 => \A i \in 1 .. n : score[i] = score[best] => best <= i
  BY ONLY <1>1, <1>6, <1>10, <1>13, Zenon
<1>16. cur \in Nat /\ n \in Nat
  BY ONLY <1>3, <1>4, <1>9, Zenon
<1>17. AreScored(n, cur, v, score, best)
  BY ONLY <1>7, <1>8, <1>11, <1>12, <1>14, <1>15, <1>16, Zenon DEF AreScored
<1>18. Under(v, k, cur)
  BY ONLY <1>6, <1>9, Under(val, k, cur), Zenon DEF Under
<1>19. best \in 1 .. n /\ Under(v, best, cur) /\ NoFarther(v, best, k, cur)
  BY ONLY <1>9, <1>17, <1>18, Closest
<1>20. v[best] = val[best] /\ v[k] = val[k]
  BY ONLY <1>6, <1>9, <1>19, Zenon
<1>21. Under(val, best, cur)
  BY ONLY <1>19, <1>20, Zenon DEF Under
<1>22. NoFarther(val, best, k, cur)
  <2>1. Far(v, best, cur) = Far(val, best, cur) /\ Far(v, k, cur) = Far(val, k, cur)
    BY ONLY <1>20 DEF Far
  <2>2. QED
    BY ONLY <1>19, <2>1, Zenon DEF NoFarther
<1>23. best \in DOMAIN x
  BY ONLY <1>2, <1>19, Zenon
<1>24. QED
  BY ONLY <1>21, <1>22, <1>23, Zenon

\* The chosen of numbers is the closest that does not exceed the current one.
LEMMA ClosestIsChosen == IInv => ClosestWins
<1> SUFFICES ASSUME IInv, Asked PROVE ClosestWins
  BY Zenon DEF ClosestWins
<1>1. PICK sets : IsExplained(sets, asked.ctx, asked.explain) /\ Chosen = Best(sets, asked.ctx)
  BY ONLY IInv, Asked, Explained, Zenon
<1>2. ASSUME NEW type \in Numeric \cap DOMAIN asked.ctx, OnlyNumbers(type)
      PROVE  /\ Chosen \in NotAbove(type)
             /\ \A i \in NotAbove(type) :
                  \/ Distance(Chosen, type) < Distance(i, type)
                  \/ Distance(Chosen, type) = Distance(i, type) /\ Chosen <= i
  <2>1. PICK x, ctx, cur, val, best :
          /\ x = asked.explain /\ ctx = asked.ctx /\ cur = asked.ctx[type]
          /\ val = [i \in DOMAIN x |-> x[i].qualifiers[1].value] /\ best = Chosen
    OBVIOUS
  <2>2. \A i \in DOMAIN x : val[i] = x[i].qualifiers[1].value
    BY ONLY <2>1, Zenon
  <2>3. \A i \in DOMAIN x : PlainIn(x, i, type)
    BY ONLY <1>2, <2>1, Zenon DEF OnlyNumbers, IsNumber, PlainIn
  <2>4. \A i : i \in NotAbove(type) <=> i \in DOMAIN x /\ Under(val, i, cur)
    <3>1. ASSUME NEW i \in DOMAIN x
          PROVE  IsNumber(i, type) /\ (NumberOf(i) \in 0 .. asked.ctx[type] <=> Under(val, i, cur))
      <4>1. IsNumber(i, type)
        BY ONLY <1>2, <2>1, <3>1, Zenon DEF OnlyNumbers
      <4>2. NumberOf(i) = val[i]
        BY ONLY <2>1, <2>2, <3>1, Zenon DEF NumberOf
      <4>3. QED
        BY ONLY <2>1, <4>1, <4>2, Zenon DEF Under
    <3>2. \A i : i \in NotAbove(type) <=> /\ i \in DOMAIN x /\ IsNumber(i, type)
                                         /\ NumberOf(i) \in 0 .. asked.ctx[type]
      BY ONLY <2>1, Zenon DEF NotAbove
    <3>3. QED
      BY ONLY <3>1, <3>2, Zenon
  <2>5. \A i \in DOMAIN x : Distance(i, type) = Far(val, i, cur)
    <3>1. ASSUME NEW i \in DOMAIN x PROVE Distance(i, type) = Far(val, i, cur)
      <4>1. NumberOf(i) = val[i]
        BY ONLY <2>1, <2>2, <3>1, Zenon DEF NumberOf
      <4>2. QED
        BY ONLY <2>1, <4>1 DEF Distance, Far
    <3>2. QED
      BY ONLY <3>1
  <2>6. IsExplained(sets, ctx, x) /\ best = Best(sets, ctx)
    BY ONLY <1>1, <2>1, Zenon
  <2>7. type \in Numeric /\ type \in DOMAIN ctx /\ cur = ctx[type]
    BY ONLY <1>2, <2>1
  <2>8. ASSUME NEW i \in NotAbove(type)
        PROVE  best \in DOMAIN x /\ Under(val, best, cur) /\ NoFarther(val, best, i, cur)
    <3>1. i \in DOMAIN x /\ Under(val, i, cur)
      BY ONLY <2>4, <2>8, Zenon
    <3>2. QED
      BY ONLY <2>2, <2>3, <2>6, <2>7, <3>1, ClosestIsBest
  <2>9. PICK j : j \in NotAbove(type)
    BY ONLY <1>2, Zenon DEF OnlyNumbers
  <2>10. best \in DOMAIN x /\ Under(val, best, cur)
    BY ONLY <2>8, <2>9, Zenon
  <2>11. Chosen \in NotAbove(type)
    BY ONLY <2>1, <2>4, <2>10, Zenon
  <2>12. ASSUME NEW i \in NotAbove(type)
         PROVE  \/ Distance(best, type) < Distance(i, type)
                \/ Distance(best, type) = Distance(i, type) /\ best <= i
    <3>1. NoFarther(val, best, i, cur) /\ i \in DOMAIN x
      BY ONLY <2>4, <2>8, <2>12, Zenon
    <3>2. Distance(best, type) = Far(val, best, cur) /\ Distance(i, type) = Far(val, i, cur)
      BY ONLY <2>5, <2>10, <3>1, Zenon
    <3>3. QED
      BY ONLY <3>1, <3>2, Zenon DEF NoFarther
  <2>13. QED
    BY ONLY <2>1, <2>11, <2>12, Zenon
<1>3. QED
  BY ONLY <1>2, Zenon DEF ClosestWins

\* Among variants that differ in a number only, the closest one that does not
\* exceed the current value is chosen, the first of those that the score tells
\* no difference between: equally far ones, and all that are a thousand or more
\* below.
THEOREM ClosestIsPreferred == Spec => []ClosestWins
<1>1. QED
  BY ClosestIsChosen, Invariant, PTL

\* A qualifier that is no worse than one of the same condition, and one that
\* weighs when it is satisfied.
NoWorse(r, q) == Condition(r) = Condition(q) /\ r.fallback_score >= q.fallback_score
Weighs(q, ctx) == q.type # "Custom" /\ (q.type \in Numeric => ctx[q.type] - q.value < 1000)

\* A set r refines a set s that tests nothing twice.
Exceeds(r, s, ctx) ==
  /\ \A k, l \in 1 .. Len(s) : Condition(s[k]) = Condition(s[l]) => k = l
  /\ \A k \in 1 .. Len(s) : \E j \in 1 .. Len(r) : NoWorse(r[j], s[k])
  /\ \E p \in 1 .. Len(r) : /\ Weighs(r[p], ctx)
                            /\ \A k \in 1 .. Len(s) : Condition(r[p]) # Condition(s[k])

\* Of two satisfied sets the one that refines the other is worth more.
LEMMA Heavier ==
  ASSUME NEW ctx, IsContext(ctx), NEW s, NEW r, IsSet(s), IsSet(r), Exceeds(r, s, ctx),
         Evaluate(s, ctx) # NoMatch, Evaluate(r, ctx) # NoMatch
  PROVE  /\ Evaluate(s, ctx) \in Nat /\ Evaluate(r, ctx) \in Nat
         /\ Evaluate(s, ctx) < Evaluate(r, ctx)
<1>1. PICK n, m, f, g : /\ n = Len(s) /\ m = Len(r)
                        /\ f = Weights(s, ctx) /\ g = Weights(r, ctx)
  OBVIOUS
<1>2. IsWeighed(s, ctx, n, f)
  <2>1. \/ /\ Evaluate(s, ctx) = NoMatch
           /\ \E i \in 1 .. Len(s) : EvaluateQualifier(s[i], ctx) = NoMatch
        \/ IsWeighed(s, ctx, Len(s), Weights(s, ctx))
    BY ONLY IsSet(s), IsContext(ctx), EvaluateScore
  <2>2. QED
    BY ONLY <1>1, <2>1, Evaluate(s, ctx) # NoMatch, Zenon
<1>3. IsWeighed(r, ctx, m, g)
  <2>1. \/ /\ Evaluate(r, ctx) = NoMatch
           /\ \E i \in 1 .. Len(r) : EvaluateQualifier(r[i], ctx) = NoMatch
        \/ IsWeighed(r, ctx, Len(r), Weights(r, ctx))
    BY ONLY IsSet(r), IsContext(ctx), EvaluateScore
  <2>2. QED
    BY ONLY <1>1, <2>1, Evaluate(r, ctx) # NoMatch, Zenon
<1>4. /\ Evaluate(s, ctx) \in Nat /\ Evaluate(s, ctx) = TotalOf(f) /\ f \in [1 .. n -> Nat]
      /\ \A i \in 1 .. n :
           /\ EvaluateQualifier(s[i], ctx) \in Nat /\ s[i].fallback_score \in Nat
           /\ f[i] = EvaluateQualifier(s[i], ctx) + s[i].fallback_score
  BY ONLY <1>2, Zenon DEF IsWeighed
<1>5. /\ Evaluate(r, ctx) \in Nat /\ Evaluate(r, ctx) = TotalOf(g) /\ g \in [1 .. m -> Nat]
      /\ \A i \in 1 .. m :
           /\ EvaluateQualifier(r[i], ctx) # NoMatch
           /\ EvaluateQualifier(r[i], ctx) \in Nat /\ r[i].fallback_score \in Nat
           /\ g[i] = EvaluateQualifier(r[i], ctx) + r[i].fallback_score
  BY ONLY <1>3, Zenon DEF IsWeighed
<1>6. n \in Nat
  <2>1. Len(s) \in Nat
    BY ONLY IsSet(s), ListParts DEF IsSet
  <2>2. QED
    BY ONLY <1>1, <2>1, Zenon
<1>7. m \in Nat /\ \A i \in 1 .. m : IsQualifier(r[i])
  <2>1. IsList(r) /\ \A q \in Range(r) : IsQualifier(q)
    BY ONLY IsSet(r), Zenon DEF IsSet
  <2>2. Len(r) \in Nat /\ \A i \in 1 .. Len(r) : r[i] \in Range(r)
    BY ONLY <2>1, ListParts
  <2>3. QED
    BY ONLY <1>1, <2>1, <2>2, Zenon
<1>8. /\ \A k, l \in 1 .. n : Condition(s[k]) = Condition(s[l]) => k = l
      /\ \A k \in 1 .. n : \E j \in 1 .. m : NoWorse(r[j], s[k])
      /\ \E p \in 1 .. m : /\ Weighs(r[p], ctx)
                           /\ \A k \in 1 .. n : Condition(r[p]) # Condition(s[k])
  BY ONLY <1>1, Exceeds(r, s, ctx), Zenon DEF Exceeds
<1>9. PICK e : e = [k \in 1 .. n |-> CHOOSE j \in 1 .. m : NoWorse(r[j], s[k])]
  OBVIOUS
<1>10. \A k \in 1 .. n : e[k] \in 1 .. m /\ NoWorse(r[e[k]], s[k])
  BY ONLY <1>8, <1>9, Zenon
<1>11. e \in [1 .. n -> 1 .. m]
  BY ONLY <1>9, <1>10
<1>12. \A k \in 1 .. n : Condition(r[e[k]]) = Condition(s[k])
  BY ONLY <1>10, Zenon DEF NoWorse
<1>13. \A k, l \in 1 .. n : e[k] = e[l] => k = l
  BY ONLY <1>8, <1>12, Zenon
<1>14. ASSUME NEW k \in 1 .. n PROVE f[k] <= g[e[k]]
  <2>1. PICK q, t : q = s[k] /\ t = r[e[k]]
    OBVIOUS
  <2>2. Condition(t) = Condition(q)
    BY ONLY <1>12, <1>14, <2>1, Zenon
  <2>3. t.fallback_score >= q.fallback_score
    BY ONLY <1>10, <1>14, <2>1, Zenon DEF NoWorse
  <2>4. EvaluateQualifier(t, ctx) = EvaluateQualifier(q, ctx)
    BY ONLY <2>2, SameTest
  <2>5. PICK a, b, x, y : /\ a = EvaluateQualifier(q, ctx) /\ b = q.fallback_score
                          /\ x = EvaluateQualifier(t, ctx) /\ y = t.fallback_score
    OBVIOUS
  <2>6. a \in Nat /\ b \in Nat /\ f[k] = a + b
    BY ONLY <1>4, <1>14, <2>1, <2>5, Zenon
  <2>7. x \in Nat /\ y \in Nat /\ g[e[k]] = x + y
    BY ONLY <1>5, <1>10, <1>14, <2>1, <2>5, Zenon
  <2>8. x = a /\ y >= b
    BY ONLY <2>3, <2>4, <2>5, Zenon
  <2>9. QED
    BY ONLY <2>6, <2>7, <2>8
<1>15. PICK p \in 1 .. m : Weighs(r[p], ctx) /\ \A k \in 1 .. n : Condition(r[p]) # Condition(s[k])
  BY ONLY <1>8, Zenon
<1>16. \A k \in 1 .. n : e[k] # p
  BY ONLY <1>12, <1>15, Zenon
<1>17. g[p] > 0
  <2>1. PICK q, a, b : q = r[p] /\ a = EvaluateQualifier(q, ctx) /\ b = q.fallback_score
    OBVIOUS
  <2>2. a # NoMatch /\ a \in Nat /\ b \in Nat /\ g[p] = a + b
    BY ONLY <1>5, <1>15, <2>1, Zenon
  <2>3. IsQualifier(q)
    BY ONLY <1>7, <1>15, <2>1, Zenon
  <2>4. a = EvaluateQualifier(q, ctx)
    BY <2>1
  <2>5. /\ a = NoMatch \/ a \in Nat
        /\ a # NoMatch /\ q.type # "Custom" /\ (q.type \in Numeric => ctx[q.type] - q.value < 1000)
             => a > 0
    BY ONLY <2>3, <2>4, IsContext(ctx), QualifierScore
  <2>6. q.type # "Custom" /\ (q.type \in Numeric => ctx[q.type] - q.value < 1000)
    BY ONLY <1>15, <2>1, Zenon DEF Weighs
  <2>7. a > 0
    BY ONLY <2>2, <2>5, <2>6, Zenon
  <2>8. QED
    BY ONLY <2>2, <2>7
<1>18. Injects(n, f, m, g, e)
  <2>1. Naturals0(n, f) /\ Naturals0(m, g)
    BY ONLY <1>4, <1>5, <1>6, <1>7, Zenon DEF Naturals0
  <2>2. \A k \in 1 .. n : f[k] <= g[e[k]]
    BY ONLY <1>14
  <2>3. QED
    BY ONLY <1>11, <1>13, <2>1, <2>2, Zenon DEF Injects
<1>19. TotalOf(f) < TotalOf(g)
  <2>1. p \in 1 .. m
    OBVIOUS
  <2>2. QED
    BY ONLY <1>16, <1>17, <1>18, <2>1, TotalIsMore
<1>20. QED
  BY ONLY <1>4, <1>5, <1>19, Zenon

\* The best set of a decision is not exceeded by any that is satisfied.
LEMMA BestIsNotExceeded ==
  ASSUME NEW sets, IsDecision(sets), NEW ctx, IsContext(ctx), NEW best, best = Best(sets, ctx),
         best # 0, NEW i, i \in 1 .. Len(sets), Evaluate(sets[i], ctx) # NoMatch
  PROVE  best \in 1 .. Len(sets) /\ ~Exceeds(sets[i], sets[best], ctx)
<1>1. /\ best \in 0 .. Len(sets)
      /\ best = 0 => \A j \in 1 .. Len(sets) : Evaluate(sets[j], ctx) = NoMatch
      /\ best # 0 => /\ Evaluate(sets[best], ctx) # NoMatch
                     /\ \A j \in 1 .. Len(sets) :
                          Evaluate(sets[j], ctx) <= Evaluate(sets[best], ctx)
  BY ONLY IsDecision(sets), IsContext(ctx), best = Best(sets, ctx), BestDef
<1>2. PICK n : n = Len(sets)
  OBVIOUS
<1>3. n \in Nat /\ \A j \in 1 .. n : IsSet(sets[j])
  <2>1. IsList(sets) /\ \A s \in Range(sets) : IsSet(s)
    BY ONLY IsDecision(sets), Zenon DEF IsDecision
  <2>2. Len(sets) \in Nat /\ \A j \in 1 .. Len(sets) : sets[j] \in Range(sets)
    BY ONLY <2>1, ListParts
  <2>3. QED
    BY ONLY <1>2, <2>1, <2>2, Zenon
<1>4. best \in 1 .. n
  <2>1. best \in 0 .. n
    BY ONLY <1>1, <1>2, Zenon
  <2>2. QED
    BY ONLY <1>3, <2>1, best # 0
<1>5. ASSUME Exceeds(sets[i], sets[best], ctx) PROVE FALSE
  <2>1. PICK r, s : r = sets[i] /\ s = sets[best]
    OBVIOUS
  <2>2. IsSet(r)
    BY ONLY <1>2, <1>3, <2>1, i \in 1 .. Len(sets), Zenon
  <2>3. IsSet(s)
    BY ONLY <1>3, <1>4, <2>1, Zenon
  <2>4. Evaluate(r, ctx) # NoMatch
    BY ONLY <2>1, Evaluate(sets[i], ctx) # NoMatch, Zenon
  <2>5. Evaluate(s, ctx) # NoMatch /\ Evaluate(r, ctx) <= Evaluate(s, ctx)
    BY ONLY <1>1, <2>1, best # 0, i \in 1 .. Len(sets), Zenon
  <2>6. Exceeds(r, s, ctx)
    BY ONLY <1>5, <2>1, Zenon
  <2>7. Evaluate(s, ctx) # NoMatch
    BY ONLY <2>5
  <2>8. /\ Evaluate(s, ctx) \in Nat /\ Evaluate(r, ctx) \in Nat
        /\ Evaluate(s, ctx) < Evaluate(r, ctx)
    BY ONLY <2>2, <2>3, <2>4, <2>6, <2>7, IsContext(ctx), Heavier
  <2>9. QED
    BY ONLY <2>5, <2>8
<1>6. QED
  BY ONLY <1>2, <1>4, <1>5, Zenon

\* The places of what a set holds.
LEMMA PlaceOfMember ==
  ASSUME NEW s, IsList(s), NEW q, q \in Range(s)
  PROVE  \E j \in 1 .. Len(s) : s[j] = q
<1>1. DOMAIN s = 1 .. Len(s)
  BY ONLY IsList(s), ListParts
<1>2. QED
  BY ONLY <1>1, q \in Range(s), Zenon DEF Range

\* The chosen set is not one that a satisfied set refines.
LEMMA SpecificIsChosen == IInv => MoreSpecificWins
<1> SUFFICES ASSUME IInv, Asked, Chosen # 0 PROVE MoreSpecificWins
  BY Zenon DEF MoreSpecificWins
<1>1. PICK sets : IsExplained(sets, asked.ctx, asked.explain) /\ Chosen = Best(sets, asked.ctx)
  BY ONLY IInv, Asked, Explained, Zenon
<1>2. PICK x, ctx, c, n : x = asked.explain /\ ctx = asked.ctx /\ c = Chosen /\ n = Len(sets)
  OBVIOUS
<1>3. /\ IsDecision(sets) /\ IsContext(ctx) /\ DOMAIN x = 1 .. n
      /\ \A i \in 1 .. n : /\ x[i].qualifiers = sets[i] /\ x[i].score = Evaluate(sets[i], ctx)
  BY ONLY <1>1, <1>2, Zenon DEF IsExplained
<1>4. n \in Nat /\ \A i \in 1 .. n : IsSet(sets[i])
  <2>1. IsList(sets) /\ \A s \in Range(sets) : IsSet(s)
    BY ONLY <1>3, Zenon DEF IsDecision
  <2>2. Len(sets) \in Nat /\ \A i \in 1 .. Len(sets) : sets[i] \in Range(sets)
    BY ONLY <2>1, ListParts
  <2>3. QED
    BY ONLY <1>2, <2>1, <2>2, Zenon
<1>5. c = Best(sets, ctx) /\ c # 0
  BY ONLY <1>1, <1>2, Chosen # 0, Zenon
<1>6. ASSUME \A k, l \in DOMAIN x[c].qualifiers :
               Condition(x[c].qualifiers[k]) = Condition(x[c].qualifiers[l]) => k = l,
             NEW i \in Satisfied, Refines(i, c)
      PROVE  FALSE
  <2>1. i \in 1 .. n /\ x[i].score # NoMatch
    BY ONLY <1>2, <1>3, <1>6, Zenon DEF Satisfied
  <2>2. Evaluate(sets[i], ctx) # NoMatch
    BY ONLY <1>3, <2>1, Zenon
  <2>3. c \in 1 .. Len(sets) /\ ~Exceeds(sets[i], sets[c], ctx)
    <3>1. IsDecision(sets)
      BY <1>3
    <3>2. IsContext(ctx)
      BY <1>3
    <3>3. c = Best(sets, ctx)
      BY <1>5
    <3>4. c # 0
      BY <1>5
    <3>5. i \in 1 .. Len(sets)
      BY ONLY <1>2, <2>1, Zenon
    <3>6. QED
      BY ONLY <2>2, <3>1, <3>2, <3>3, <3>4, <3>5, BestIsNotExceeded
  <2>4. PICK r, s : r = sets[i] /\ s = sets[c]
    OBVIOUS
  <2>5. /\ IsSet(r) /\ IsSet(s) /\ x[i].qualifiers = r /\ x[c].qualifiers = s
    BY ONLY <1>2, <1>3, <1>4, <2>1, <2>3, <2>4, Zenon
  <2>6. IsList(r) /\ IsList(s)
    BY ONLY <2>5, Zenon DEF IsSet
  <2>7. /\ DOMAIN r = 1 .. Len(r) /\ \A k \in 1 .. Len(r) : r[k] \in Range(r)
    BY ONLY <2>6, ListParts
  <2>8. /\ DOMAIN s = 1 .. Len(s) /\ \A k \in 1 .. Len(s) : s[k] \in Range(s)
    BY ONLY <2>6, ListParts
  <2>9. QualifiersOf(i) = Range(r) /\ QualifiersOf(c) = Range(s)
    BY ONLY <1>2, <2>5, Zenon DEF QualifiersOf
  <2>10. /\ \A q \in Range(s) : \E t \in Range(r) :
              Condition(t) = Condition(q) /\ t.fallback_score >= q.fallback_score
         /\ \E t \in TestsOf(i) \ TestsOf(c) :
              /\ t[1] # "Custom"
              /\ t[1] \in Numeric => ctx[t[1]] - t[2] < 1000
    BY ONLY <1>2, <1>6, <2>9, Zenon DEF Refines
  <2>11. \A k, l \in 1 .. Len(s) : Condition(s[k]) = Condition(s[l]) => k = l
    BY ONLY <1>6, <2>5, <2>8, Zenon
  <2>12. ASSUME NEW k \in 1 .. Len(s) PROVE \E j \in 1 .. Len(r) : NoWorse(r[j], s[k])
    <3>1. PICK t \in Range(r) :
            Condition(t) = Condition(s[k]) /\ t.fallback_score >= s[k].fallback_score
      BY ONLY <2>8, <2>10, <2>12, Zenon
    <3>2. IsList(r)
      BY <2>6
    <3>3. t \in Range(r)
      OBVIOUS
    <3>4. PICK j \in 1 .. Len(r) : r[j] = t
      BY ONLY <3>2, <3>3, PlaceOfMember
    <3>5. QED
      BY ONLY <3>1, <3>4, Zenon DEF NoWorse
  <2>13. \E p \in 1 .. Len(r) : /\ Weighs(r[p], ctx)
                                /\ \A k \in 1 .. Len(s) : Condition(r[p]) # Condition(s[k])
    <3>1. PICK t \in TestsOf(i) \ TestsOf(c) :
              /\ t[1] # "Custom"
              /\ t[1] \in Numeric => ctx[t[1]] - t[2] < 1000
      BY ONLY <2>10
    <3>2. PICK q \in Range(r) : t = Condition(q)
      BY ONLY <2>9, <3>1, Zenon DEF TestsOf
    <3>3. \A u \in Range(s) : t # Condition(u)
      BY ONLY <2>9, <3>1, Zenon DEF TestsOf
    <3>4. IsList(r)
      BY <2>6
    <3>5. q \in Range(r)
      OBVIOUS
    <3>6. PICK p \in 1 .. Len(r) : r[p] = q
      BY ONLY <3>4, <3>5, PlaceOfMember
    <3>7. t[1] = q.type /\ t[2] = q.value
      <4>1. PICK a, b : a = q.type /\ b = q.value
        OBVIOUS
      <4>2. t = <<a, b>>
        BY ONLY <3>2, <4>1, Zenon DEF Condition
      <4>3. t[1] = a /\ t[2] = b
        BY ONLY <4>2
      <4>4. QED
        BY ONLY <4>1, <4>3, Zenon
    <3>8. Weighs(q, ctx)
      BY ONLY <3>1, <3>7, Zenon DEF Weighs
    <3>9. \A k \in 1 .. Len(s) : Condition(q) # Condition(s[k])
      BY ONLY <2>8, <3>2, <3>3, Zenon
    <3>10. QED
      BY ONLY <3>6, <3>8, <3>9, Zenon
  <2>14. Exceeds(r, s, ctx)
    BY ONLY <2>11, <2>12, <2>13, Zenon DEF Exceeds
  <2>15. QED
    BY ONLY <2>3, <2>4, <2>14, Zenon
<1>7. QED
  BY ONLY <1>2, <1>6, Zenon DEF MoreSpecificWins

\* However the file lists the sets, a variant gives way to one that asks for
\* all it does and for more.
THEOREM SpecificIsPreferred == Spec => []MoreSpecificWins
<1>1. QED
  BY SpecificIsChosen, Invariant, PTL
=============================================================================
