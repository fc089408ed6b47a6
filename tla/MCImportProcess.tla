--------------------------- MODULE MCImportProcess ---------------------------
(* The import process on small instances.                                  *)
EXTENDS ImportProcess
=============================================================================
