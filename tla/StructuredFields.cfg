SPECIFICATION Spec
CONSTANTS
  FieldLimits <- MCLimits
  Keys <- MCKeys
  DecimalWidth = 1
  Lexemes <- MCLexemes
  Rare <- MCRare
  MaxWire = 10
INVARIANTS CanonicalForm RawBounded LastValueWins DecimalsRound
CHECK_DEADLOCK FALSE
