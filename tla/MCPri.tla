------------------------------- MODULE MCPri --------------------------------
(***************************************************************************)
(* Small indexes that between them use every form a table has: names in    *)
(* and outside scopes, with and without a length, in both blocks; items    *)
(* packed in groups, singly and by the extension; values embedded, in data *)
(* items, in another file and in a form that is not known.  The scales are *)
(* asked for at a value below all of them, among them, a thousand above    *)
(* one of them and more than a thousand above all.                         *)
(***************************************************************************)
EXTENDS PriFile

Qualifier(t, v) == [type |-> t, value |-> v, priority |-> 1, fallback_score |-> 0]
Lang(tag)       == Qualifier("Language", tag)
Scale(n)        == Qualifier("Scale", n)
Theme(name)     == Qualifier("Theme", name)
Fallback(q)     == [q EXCEPT !.fallback_score = 1000]
Custom          == Qualifier("Custom", "any")

pl == <<"pl">>
plPL == <<"pl", "PL">>
deDE == <<"de", "DE">>
en == <<"en">>

Name(path, prop, ascii, z) ==
  [path |-> path, prop |-> prop, scope |-> FALSE, ascii |-> ascii, z |-> z]
Scope(path, prop) == [Name(path, prop, FALSE, FALSE) EXCEPT !.scope = TRUE]
Variant(store, type, text) == [store |-> store, type |-> type, data |-> text]
Item(prop, decision, variants) == [prop |-> prop, decision |-> decision, variants |-> variants]

Languages == << <<>>, <<Lang(plPL)>>, <<Lang(plPL), Theme("dark")>>, <<Fallback(Lang(en))>> >>
Scales    == << <<Scale(100)>>, <<Scale(-1)>>, <<Scale(400)>>, <<Scale(200)>> >>

Strings == <<Variant("Embedded", "String", "none"), Variant("DataString", "String", "p"),
             Variant("DataBlob", "EmbeddedData", "pd"), Variant("DataString", "AsciiString", "en")>>
Images  == <<Variant("Embedded", "Path", "100"), Variant("Embedded", "Path", "none"),
             Variant("DataBlob", "Path", "400"), Variant("External", "Path", 7)>>

Grouped == [names |-> <<Scope(<<"dir">>, 5), Name(<<"dir", "text">>, 5, FALSE, FALSE),
                        Name(<<"icon">>, 6, FALSE, TRUE), Name(<<"dir", "odd">>, 7, FALSE, TRUE)>>,
            decisions |-> <<Languages, Scales, << <<Custom>>, <<Custom, Lang(pl)>> >> >>,
            items |-> <<Item(5, 1, Strings), Item(6, 2, Images),
                        Item(7, 3, <<Variant("Odd", "String", "odd"),
                                     Variant("Embedded", "String", "pl")>>)>>,
            packing |-> "groups", extended |-> FALSE, primary |-> TRUE, magic |-> "mrm_pri2"]

Single == [Grouped EXCEPT !.packing = "single", !.extended = TRUE, !.magic = "mrm_prif",
             !.names = <<Name(<<"text">>, 9, TRUE, FALSE), Scope(<<"dir">>, 3),
                         Scope(<<"dir", "deep">>, 4), Name(<<"dir", "deep", "icon">>, 3, TRUE, TRUE)>>,
             !.items = <<Item(9, 2, Images), Item(3, 1, Strings)>>]

Extended == [Grouped EXCEPT !.packing = "extension", !.items[3].prop = 40, !.names[4].prop = 40]

ExtendedGroups == [Grouped EXCEPT !.packing = "extension_groups", !.extended = TRUE]

NoPrimary == [Single EXCEPT !.primary = FALSE]
OtherMagic == [Single EXCEPT !.magic = "mrm_pri9"]

const_Contents == <<Grouped, Single, Extended, ExtendedGroups, NoPrimary, OtherMagic>>

const_Contexts ==
  {[Language |-> <<plPL, deDE>>, Scale |-> 250], [Language |-> <<plPL>>, Theme |-> "dark"],
   [Language |-> <<en, pl>>, Theme |-> "dark", Scale |-> 100],
   [Language |-> <<pl, en>>, Theme |-> "dark"], [Language |-> <<deDE>>, Scale |-> 90],
   [Language |-> <<>>, Theme |-> "lite", Scale |-> 400],
   [Language |-> <<en>>, Scale |-> 1200], [Language |-> <<>>, Scale |-> 5000]}
=============================================================================
