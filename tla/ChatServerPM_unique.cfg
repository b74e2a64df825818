CONSTANTS
  Conns = {c1, c2}
  Usernames = {alice, bob}
  MAX_CLIENTS = 2
  Nobody = Nobody
SPECIFICATION Spec
INVARIANT UniqueUsernames
