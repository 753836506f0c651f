\* A fetch overlaps a preview, a check-in or an edit; then quiet.
SPECIFICATION MCFairSpec
CONSTANTS
  Slots = {s1}
  Confs = {c1, c2}
  Zones = {z1}
  Palettes = {p1}
  Values = {v1, v2}
  Formats = {"raw", "png"}
  Requests = {r1, r2}
  MaxUpsets = 2
  Nil = Nil
INVARIANTS TypeOK DataFitsConf
PROPERTIES ServedAsConfigured EventuallyCurrent
