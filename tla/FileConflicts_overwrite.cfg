\* Overwriting with a file of another host.
CONSTANTS
  t1 = t1
  Transfer = {t1}
  MaxQueued = 2
SPECIFICATION ConflictSpec
INVARIANT OverwritesAreSafe
CHECK_DEADLOCK FALSE
