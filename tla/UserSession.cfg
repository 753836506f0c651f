\* Three requests of the tabs of one browser overlap.
SPECIFICATION Spec
CONSTANTS
  Requests = {r1, r2, r3}
  MaxTokens = 5
SYMMETRY Symmetry
INVARIANT TypeOK
PROPERTY LogoutIsFinal
