----------------------------- MODULE MCDumpRead -----------------------------
(* Two files that are written, removed and replaced during a scan.         *)
EXTENDS DumpRead
TwoPaths == {1, 2}
=============================================================================
