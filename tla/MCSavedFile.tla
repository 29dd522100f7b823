----------------------------- MODULE MCSavedFile -----------------------------
(***************************************************************************)
(* SavedFile for TLC: what an older version may have left, and symmetry.    *)
(***************************************************************************)
EXTENDS SavedFile, TLC

CONSTANTS i1, i2

\* The siblings, where they parse, differ from the file and from each other.
Leftovers == [main : {Missing, Corrupt, {i1}}, tmp : {Missing, Corrupt, {}},
              bak : {Missing, Corrupt, {i1, i2}}]

InterchangeableCallers == Permutations(Caller)
=============================================================================
