\* Two overlapping requests of two owners of one hardware, three claim sessions.
SPECIFICATION OverlapSpec
CONSTANTS
  Users = {u1, u2}
  Hardware = {h1}
  Registrars = {u1, u2}
  Sessions = {s1, s2, s3}
  Requests = {r1, r2}
  MaxSecret = 2
  MaxTokens = 1
  Nil = Nil
SYMMETRY Symmetry
INVARIANTS TypeOK TokenBoundToSecret UsedSessionOwnsDevice OneLiveDevice OneOpenSession SecretShownOnce
PROPERTIES NoTokenRevival OnlyRotationParts CredentialsKept UsedIsFinal
