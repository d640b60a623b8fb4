SPECIFICATION Spec
CONSTANTS
  Name = {n1, n2}
  Cron = {"each", "once"}
  Due <- MCDue
  Hour = 3
  MaxTime = 6
  MaxChanges = 1
  MaxFaults = 1
INVARIANT DueTriggeredOnce
PROPERTY ChangeIsLoaded
CHECK_DEADLOCK FALSE
