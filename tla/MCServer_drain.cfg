SPECIFICATION MCFairSpec
CONSTANTS
  c1 = c1  c2 = c2  t1 = t1  t2 = t2  t3 = t3
  p1 = p1  p2 = p2  r1 = r1  r2 = r1  s1 = s1  s2 = s2
  zeros = zeros  stranger = stranger
  Controller = {c1, c2}
  Thread = {t1, t2}
  NumFds = 2
  MaxArrivals = 4
  Port = {p1, p2}
  RandomNum = {zeros, r1}
  Seed = {s1, s2}
  Zeros = zeros
  Stranger = stranger
  PortOf <- MCPortOf
  RandomOf <- MCRandomOf
PROPERTIES HandlersDrain HandlersNear
