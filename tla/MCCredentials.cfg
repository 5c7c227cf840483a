SPECIFICATION Spec
CONSTANTS
  p1 = p1
  p2 = p2
  u1 = u1
  u2 = u2
  d1 = d1
  d2 = d2
  r1 = r1
  Procs <- MCProcs
  Users <- MCUsers
  Devices <- MCDevices
  Requested <- MCRequested
  NoUser = NoUser
  NoDevice = NoDevice
SYMMETRY Symmetry
INVARIANTS
  TypeOK
  EnsuredIsFound
  LogoutRemovesAll
  StoreAgrees
PROPERTIES
  OneAfterAnother
