\* Claims that can wait on each other, or one device and all the rest still to come.
SPECIFICATION RegisteredFairSpec
CONSTANTS
  Users = {u1, u2}
  Hardware = {h1}
  Registrars = {u1, u2}
  Sessions = {s1, s2}
  Requests = {r1, r2}
  MaxSecret = 4
  MaxTokens = 1
  Nil = Nil
PROPERTIES RequestsEnd ClaimsLeaveALiveDevice
