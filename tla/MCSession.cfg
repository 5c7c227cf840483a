SPECIFICATION MCSpec
CONSTANTS
  u1 = u1
  u2 = u2
  c1 = c1
  s1 = s1
  s2 = s2
  r1 = r1
  Users <- MCUsers
  Conns <- MCConns
  Requested <- MCRequested
  Services <- MCServices
  AnswerSizes <- MCSizes
  NoUser = NoUser
  NoService = NoService
  MaxSessions = 3
  MaxLoads = 2
  MaxLogins = 2
  MaxRequests = 2
  MaxCrashes = 1
INVARIANTS
  TypeOK
  TokensAgree
  WindowOfNewest
  SocketStanding
PROPERTIES
  Answered
