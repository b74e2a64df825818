CONSTANTS
  Conns = {c1, c2, c3}
  Usernames = {alice, bob}
  MAX_CLIENTS = 3
  Nobody = Nobody
SPECIFICATION Spec
SYMMETRY Symmetry
INVARIANTS
  TypeOK
  PrivateStaysPrivate
PROPERTY BroadcastReachesOthers
