\* AUTH and DEAU after the first ON.
SPECIFICATION FairSpec
CONSTANTS
  MboxSize = 3
PROPERTY FlagFollowsGateway
