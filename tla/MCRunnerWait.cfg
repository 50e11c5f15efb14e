CONSTANTS
  Runners = {r1, r2}
  Clients = {c1}
  Inodes = {1, 2, 3, 4}
  MaxTries = 2
  Mortal = {}
  None = None
SPECIFICATION Spec
SYMMETRY Symmetry
VIEW View
INVARIANT WaitsBriefly
