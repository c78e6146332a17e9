SPECIFICATION EvidenceSpec
CONSTANTS
  OctetBits = 1
  GroupCount = 4
  Excluded <- MCExcluded
  Envelope <- MCEnvelope
  MappedPrefix = 1
  Exceptions <- MCExceptions
  Inputs <- MCInputs
  Origin = "agent"
  Answers <- MCAnswers
  Peers <- MCPeers
  MaxAddresses = 3
  MaxBody = 1
  MaxTotal = 4
  MaxPort = 2
  DnsLimit = 2
  ConnectLimit = 2
  HeaderLimit = 2
  IdleLimit = 1
  Never = Never
  None = None
  MaxTime = 5
  Responses <- MCResponses
  Ages = {0, 1}
  Skews <- MCSkews
  ExpiresAfter = 3
  Fallback = 1
  MaximumLifetime = 2
  LongestLifetime = 3
  PerSecond = 2
  MaxHeaderFields = 3
  Unparsed = Unparsed
  Absent = Absent
  Bad = Bad
  MaxKeys = 2
  MaxJwksBytes = 2
  KnownTestKeys <- MCKnownTestKeys
INVARIANTS DialsOnlyAdmitted NothingLeaks EvidenceNeverOverstays SelectedKeysSound
PROPERTIES ResponseInTime FetchEnds
CHECK_DEADLOCK FALSE
