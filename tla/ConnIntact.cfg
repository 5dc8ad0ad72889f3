SPECIFICATION Spec
CONSTANTS
  Ids <- MCIds
  Data <- MCData
  Outgoing <- Few
  Greetings <- NoGreeting
  Bounced = {}
  FirstId = "ServerAccept"
  Nonces <- MCNonces
  Zero = 0
  Clock = {1}
  Scramble <- MCScramble
  MaxSends <- Sends20
INVARIANT DeliveredIntact
CHECK_DEADLOCK FALSE
