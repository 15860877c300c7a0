SPECIFICATION TextSpec
CONSTANTS
  SpecTexts <- AllSpecs
  ExpTexts <- AllExps
  MaxSpec = 9
  MaxLabel = 4
  MaxPieces = 4
  MaxLong = 6
  Policies <- AllPolicies
  NoTerm = NoTerm
  MaxTail = 4
  MaxTerms = 4
  Expansions <- AllNames
  NameLimit = 9
  LabelLimit = 3
  MaxLabels = 5
INVARIANTS
  SpecIsGrammar
  ValidatedExpands
  GivenIsLegal
  TermsAreGrammar
  ModifiersAreTerms
  LegalIsLookedUp
  LongestPart
CHECK_DEADLOCK FALSE
