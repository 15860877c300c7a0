SPECIFICATION MCSpec
CONSTANTS
  a = a
  b = b
  c = c
  NoKey = NoKey
  Raises <- NoKeys
  NoCap = NoCap
  Key <- MCKey
  Reply <- MCReply
  MaxTerms = 1
  MaxVoid = 1
  MaxQueries = 3
  Audit = FALSE
  AuditMaxTerms = 3
  Prefetch = FALSE
  MaxRecords = 4
  MaxSent = 4
INVARIANTS
  BudgetRespected
  VoidCountExact
  AskedOnce
  PaidFor
  FlagsTellBreach
  StopsAtBreach
PROPERTIES
  NoPacketWithoutUse
CHECK_DEADLOCK FALSE
