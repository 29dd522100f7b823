\* Two runs of a scope, one command that needs an approval.
CONSTANTS
  r1 = r1
  r2 = r2
  c1 = c1
  None = None
  Run = {r1, r2}
  Command = {c1}
  Gated = {c1}
  MaxRounds <- OneRound
  MaxCalls <- OneWorks
SPECIFICATION Spec
INVARIANTS StopLeavesAtMostOneTool EndsAreShown
PROPERTIES GatedCommandsAreApproved StoppedRunsEnd
CHECK_DEADLOCK FALSE
