SPECIFICATION Spec
CONSTANTS
  Commands = {c1, c2}
  Bodies <- AllBodies
  Targets = {"clone", "cached-sandbox", "sandbox"}
  MaxTries = 2
  NoRp = NoRp
  NoBody = NoBody
  Rp = Rp
INVARIANTS TypeOK WroteIsListed ConfirmedOnly RegisteredAsAsked
SYMMETRY Symmetry
