SPECIFICATION Spec
CONSTANTS
  Ids <- MCIds
  Data <- MCData
  Outgoing <- Few
  Greetings <- MCGreetings
  Bounced = {}
  FirstId = "ServerAccept"
  Nonces <- MCNonces
  Zero = 0
  Clock = {1}
  Scramble <- MCScramble
  MaxSends <- Sends11
INVARIANT AnswerComesFirst
CHECK_DEADLOCK FALSE
