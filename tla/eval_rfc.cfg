SPECIFICATION FairSpec
CONSTANTS
  R = R
  I = I
  H = H
  V = V
  mixed = mixed
  walks = walks
  loops = loops
  garbage = garbage
  leaf = leaf
  back = back
  soft = soft
  other = other
  plain = plain
  pmacro = pmacro
  NoKey = NoKey
  Raises <- MCKey
  NoCap = NoCap
  Malformed = Malformed
  NotSpf = NotSpf
  BadSyntax = BadSyntax
  BadIp = BadIp
  NoText = NoText
  Name <- MCName
  Key <- MCKey
  Text <- MCText
  Below <- Below2
  PolicyOf <- MCPolicyOf
  ExpOf <- MCExpOf
  Rev = V
  AddrType = "A"
  MaxMx = 2
  MaxPtr = 2
  MaxVoid = 2
  AuditMaxTerms = 3
  Prefetch = FALSE
  Reply <- MCReply
  Start <- AnyStart
  Override = NoText
  MaxTerms = 4
  MaxQueries = 7
  Audit = FALSE
INVARIANTS
  EvalTypeOK
  NestingCostsTerms
  DepthIsNesting
  RaisedIsVerdict
  ExplanationOnFailOnly
PROPERTIES
  SessionSpec
  ExpIsHarmless
  Terminates
CHECK_DEADLOCK FALSE
