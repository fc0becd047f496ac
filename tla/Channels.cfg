SPECIFICATION ChannelsSpec
CONSTANTS
  Chat = {alice, bob, stranger}
  alice = alice
  bob = bob
  stranger = stranger
  Listed = {alice, bob}
  NoChat = NoChat
  Supply <- MCSupply
  MaxMessages = 3
  MaxFaults = 1
  MaxCrashes = 1
INVARIANTS
  ConfirmFollowsAsk
  HandledOnce
PROPERTY
  MessagesHandled
CHECK_DEADLOCK FALSE
