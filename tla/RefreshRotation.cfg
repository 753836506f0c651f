\* A login and a refresh, one after the other.
SPECIFICATION Spec
CONSTANTS
  Requests = {r1}
  MaxTokens = 2
PROPERTY OldRefreshTokensEnd
