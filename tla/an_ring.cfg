\* A mailbox of three packets under every order of packets and presses.
SPECIFICATION FairSpec
CONSTANTS
  MboxSize = 3
INVARIANT TypeOK
PROPERTIES
  EachOnSounds
  IdAttempted
