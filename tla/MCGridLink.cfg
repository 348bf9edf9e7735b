SPECIFICATION LinkSpec
CONSTANTS
  Sendable <- FromProgram
  Showable <- FromBus
  MaxSent = 3
INVARIANTS LinkTypeOK TextsBecomeTheirFrames ShownAsProtocol
\* Programs owe no text.
CHECK_DEADLOCK FALSE
