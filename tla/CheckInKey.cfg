\* A screen with a slot, served and checked in again.
SPECIFICATION Spec
CONSTANTS
  Slots = {s1}
  Confs = {c1}
  Zones = {z1}
  Palettes = {p1}
  Values = {v1}
  Formats = {"raw"}
  Requests = {r1}
  MaxUpsets = 2
  Nil = Nil
SYMMETRY Symmetry
INVARIANT CheckInSettles
