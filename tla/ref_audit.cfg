SPECIFICATION InTimeSpec
CONSTANTS
  R = R
  I = I
  H = H
  V = V
  mixed = mixed
  walks = walks
  loops = loops
  garbage = garbage
  leaf = leaf
  back = back
  soft = soft
  other = other
  plain = plain
  pmacro = pmacro
  NoKey = NoKey
  Raises <- NoKeys
  NoCap = NoCap
  Malformed = Malformed
  NotSpf = NotSpf
  BadSyntax = BadSyntax
  BadIp = BadIp
  NoText = NoText
  Name <- MCName
  Key <- MCKey
  Text <- GenText
  Below <- Below2
  PolicyOf <- GenPolicyOf
  ExpOf <- GenExpOf
  Rev = V
  AddrType = "A"
  MaxMx = 2
  MaxPtr = 2
  MaxVoid = 0
  AuditMaxTerms = 6
  Prefetch = FALSE
  Reply <- GenReply
  Start <- OneStart
  Override <- GenOverride
  MaxTerms = 2
  MaxQueries = NoCap
  Audit = TRUE
  Hosts <- Failing
INVARIANTS
  VerdictIsReference
  BreachIsPermerror
  StopsAtBreach
CHECK_DEADLOCK FALSE
