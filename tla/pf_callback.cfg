SPECIFICATION PfSpec
CONSTANTS
  R = R
  I = I
  H = H
  V = V
  wide = wide
  tree = tree
  fails = fails
  twice = twice
  leaf = leaf
  loop = loop
  bad = bad
  plain = plain
  NoKey = NoKey
  NoCap = NoCap
  Malformed = Malformed
  NotSpf = NotSpf
  BadSyntax = BadSyntax
  BadIp = BadIp
  NoText = NoText
  Name <- MCName
  Key <- MCKey
  Text <- MCText
  Below <- Below2
  PolicyOf <- MCPolicyOf
  ExpOf <- MCExpOf
  Rev = V
  AddrType = "A"
  MaxMx = 2
  MaxPtr = 2
  MaxTerms = 3
  MaxVoid = 2
  AuditMaxTerms = 3
  Prefetch = TRUE
  Audit = FALSE
  Reply <- FailsZone
  Concurrency = 2
  MaxQueries = 6
  Inline = TRUE
  Macros <- NoNames
  Defects <- NoKeys
  Raises <- NoKeys
  Override = NoText
  Start <- OneStart
PROPERTIES
  ChildrenFirst
CHECK_DEADLOCK FALSE
