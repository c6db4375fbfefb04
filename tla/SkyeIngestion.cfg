SPECIFICATION FairSpec
CONSTANT Settings <- SafeSettings
INVARIANTS
  CommittedIsHandled
  TriggeredAfterDataInSequence
PROPERTIES
  AllConsumed
