\* One transfer, of any kind, by itself or as an overwrite's; a second shares only the panel.
CONSTANTS
  t1 = t1
  Transfer = {t1}
  MaxQueued = 2
SPECIFICATION ConflictSpec
INVARIANTS OutcomesAreShown OverwritesHereAreSafe
PROPERTIES OnlyCrossedRowsRevive TransfersEnd
CHECK_DEADLOCK FALSE
