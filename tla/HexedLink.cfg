SPECIFICATION FairLinkSpec
CONSTANTS
  Nibble <- MCNibble
  Script <- MCScript
  None = None
  PcPrompt = TRUE
  MdPrompt = TRUE
  DelayOk = TRUE
INVARIANTS NoContention SamplesDriven
PROPERTIES Delivery Completes
