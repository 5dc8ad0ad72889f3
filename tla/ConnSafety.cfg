SPECIFICATION Spec
CONSTANTS
  Ids <- MCIds
  Data <- MCData
  Outgoing <- Programs
  Greetings <- MCGreetings
  Bounced = {"ServerPing"}
  FirstId = "ServerAccept"
  Nonces <- MCNonces
  Zero = 0
  Clock = {1}
  Scramble <- MCScramble
  MaxSends <- Sends21
INVARIANTS TypeOK NothingBeforeValidation OneMessageAtATime WritesGoOn AlwaysListening InSync
PROPERTY ChannelSpec
CHECK_DEADLOCK FALSE
