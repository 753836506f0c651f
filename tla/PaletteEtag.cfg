\* The palette is edited after the image has been served.
SPECIFICATION Spec
CONSTANTS
  Slots = {s1}
  Confs = {c1}
  Zones = {z1}
  Palettes = {p1, p2}
  Values = {v1}
  Formats = {"raw"}
  Requests = {r1}
  MaxUpsets = 2
  Nil = Nil
SYMMETRY Symmetry
PROPERTY NotModifiedMeansSame
