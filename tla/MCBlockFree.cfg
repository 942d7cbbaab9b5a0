CONSTANTS
  Kind = "block"
  NBits = 5
  Held = {1, 2}
  Reserved = {5}
  SuperWidth = 16
  GroupWidth = 12
  MaxKills = 0
SPECIFICATION Spec
INVARIANT MapExact
