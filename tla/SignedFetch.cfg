SPECIFICATION Spec
CONSTANTS
  FieldLimits <- MCLimits
  Keys <- MCKeys
  DecimalWidth = 1
  Targets <- MCTargets
  DerivedNames <- MCDerived
  FieldNames <- MCFields
  CoreLimits <- MCCoreLimits
  Origins <- MCOrigins
  Thumbprints = {"k1", "k2", "test"}
  TestKeys = {"test"}
  BadNonces = {""}
  MaxAge = 30
  MaxLifetime = 60
  Skew = 3
  MaxSafeInteger = 9999
  Calls <- MCCalls
  Verifiers <- MCVerifiers
  ForeignSets <- MCForeignSets
  BadPatches <- MCBadPatches
  ClockSet = {50999}
  NonceSet = {"n"}
  TimeSet = {50, 84}
  Methods = {"GET", "POST"}
  OtherValues <- MCOtherValues
  OtherHeaders <- MCOtherHeaders
  MaxAlterations = 2
INVARIANTS VerifiedMeansUnaltered UnalteredVerifies
PROPERTIES SendsOnce
CHECK_DEADLOCK FALSE
