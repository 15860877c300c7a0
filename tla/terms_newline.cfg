SPECIFICATION TextSpec
CONSTANTS
  SpecTexts <- AllSpecs
  ExpTexts <- AllExps
  MaxSpec = 9
  MaxLabel = 4
  MaxPieces = 0
  MaxLong = 0
  Policies <- AllPolicies
  NoTerm = NoTerm
  MaxTail = 4
  MaxTerms = 4
  Expansions <- AllNames
  NameLimit = 9
  LabelLimit = 3
  MaxLabels = 5
INVARIANT MalformedIsVerdict
CHECK_DEADLOCK FALSE
