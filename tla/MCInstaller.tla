---------------------------- MODULE MCInstaller ----------------------------
(***************************************************************************)
(* The installer on three versions of a package of four files: one changes *)
(* and changes back, one is added, one is dropped, one has no hashes.  Two *)
(* downloads at a time, two runs cut short.                                *)
(***************************************************************************)
EXTENDS Installer

CONSTANTS f1, f2, f3, f4, v1, v2, v3, a, b

MCFiles    == {f1, f2, f3, f4}
MCVersions == {v1, v2, v3}
MCContents == {a, b}
MCUnhashed == {f4}
MCContent  ==
  [v \in MCVersions |->
     [f \in MCFiles |->
        CASE f = f1 -> IF v = v2 THEN b ELSE a
          [] f = f2 -> IF v = v1 THEN Missing ELSE a
          [] f = f3 -> IF v = v3 THEN Missing ELSE a
          [] f = f4 -> a]]
=============================================================================
