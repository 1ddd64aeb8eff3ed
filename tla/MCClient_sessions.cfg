SPECIFICATION MCFairSpec
CONSTANTS
  h1 = h1  h2 = h2
  HelloThread = {h1, h2}
  MaxAnswers = 5
  NotSent = {}
  Attempts = {3}
  Mac = {server}
  NoMac = nomac
  RandomNum = {zeros, r1}
  Zeros = zeros
  Port = {p1}
  SrvUDP = main
INVARIANTS TypeOK HelloBearsOffer GivesUpLast UnhauntedSession
PROPERTIES FollowsProtocol SubscriptionEnds SubscriptionNears QuitEnds Resubscribes
