SPECIFICATION Spec
CONSTANTS
  R = R
  I = I
  H = H
  V = V
  mixed = mixed
  walks = walks
  loops = loops
  garbage = garbage
  leaf = leaf
  back = back
  soft = soft
  other = other
  plain = plain
  pmacro = pmacro
  NoKey = NoKey
  Raises <- MCKey
  NoCap = NoCap
  Malformed = Malformed
  NotSpf = NotSpf
  BadSyntax = BadSyntax
  BadIp = BadIp
  NoText = NoText
  Name <- MCName
  Key <- MCKey
  Text <- MCText
  Below <- Below2
  PolicyOf <- MCPolicyOf
  ExpOf <- MCExpOf
  Rev = V
  AddrType = "A"
  MaxMx = 2
  MaxPtr = 2
  MaxVoid = 0
  AuditMaxTerms = 4
  Prefetch = FALSE
  Reply <- MCReply
  Start <- AnyStart
  Override = mixed
  MaxTerms = 1
  MaxQueries = NoCap
  Audit = TRUE
INVARIANT ExplanationOnFailOnly
CHECK_DEADLOCK FALSE
