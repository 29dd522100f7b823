--------------------------- MODULE MCFileConflicts ---------------------------
(* FileConflicts for TLC; the configurations give its constants their values.  *)
EXTENDS FileConflicts
===============================================================================
