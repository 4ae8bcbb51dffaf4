--------------------------- MODULE MCConfigExport ---------------------------
(***************************************************************************)
(* An instance of ConfigExport for TLC: one export, and three edits, which *)
(* can change every column of the configuration between what it checks and *)
(* what it archives.  Two exports that race are in MCGenerated.            *)
(***************************************************************************)
EXTENDS ConfigExport

CONSTANTS e1, e2
=============================================================================
