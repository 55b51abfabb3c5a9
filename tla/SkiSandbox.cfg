CONSTANTS
  UserNames <- MCUserNames
  HandlerStatuses = {200}
  RespondOutcomes = {"ok", "reject"}
  MaxRequests = 2
  MaxUserOps = 2
  Absent = Absent
SPECIFICATION Spec
INVARIANT EntryPointIntact
