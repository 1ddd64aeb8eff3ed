SPECIFICATION MCFairSpec
CONSTANTS
  c1 = c1  t1 = t1  t2 = t2  h1 = h1  h2 = h2
  p1 = p1  p2 = p2  r1 = r1  r2 = r2  s1 = s1  s2 = s2
  zeros = zeros  stranger = stranger  mainport = mainport  server = server  nomac = nomac
  Controller = {c1}
  Thread = {t1, t2}
  NumFds = 2
  Port = {p1, p2}
  RandomNum = {zeros, r1, r2}
  Seed = {s1, s2}
  Zeros = zeros
  Stranger = stranger
  PortOf <- MCPortOf
  RandomOf <- MCRandomOf
  Me = c1
  SrvMac = server
  NoMac = nomac
  SrvUDP = mainport
  HelloThread = {h1, h2}
  Attempts = {3}
  Backlog = 2
  MaxOffers = 2
  MaxFaults = 1
INVARIANTS SystemTypeOK SameSession GreetedFirst ConfirmedFirst EchoedFirst GreetsConfirmed
PROPERTIES GetsThrough EndInStep
