\* Two faults: a reconnect that meets another one, or overtakes a READY thread.
SPECIFICATION FairSpec
CONSTANTS
  RetryAmount = 2
  CloseCodes <- MCCloseCodes
  MaxSeq = 2
  MaxFaults = 2
INVARIANTS
  TypeOK
  ExactlyOnce
  ResumeMatchesSequence
  ReadyMeansAccepted
  ResumeNamesSession
PROPERTIES
  Settles
  StopEndsListen
\* The shard ends: its thread returns and the gateway has nothing to send.
CHECK_DEADLOCK FALSE
