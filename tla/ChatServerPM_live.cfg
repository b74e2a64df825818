CONSTANTS
  Conns = {c1, c2, c3}
  Usernames = {alice}
  MAX_CLIENTS = 2
  Nobody = Nobody
SPECIFICATION FairSpec
INVARIANT Registry
PROPERTY EndsCleanly
