SPECIFICATION FairSpec
CONSTANTS
  Ids <- MCIds
  Data <- MCData
  Outgoing <- Few
  Greetings <- OneGreeting
  Bounced = {}
  FirstId = "ServerAccept"
  Nonces <- MCNonces
  Zero = 0
  Clock = {1}
  Scramble <- MCScramble
  MaxSends <- Sends11
PROPERTIES Delivery CloseSpreads
CHECK_DEADLOCK FALSE
