CONSTANTS
  Runners = {r1, r2}
  Clients = {c1, c2}
  Inodes = {1, 2, 3, 4, 5}
  MaxTries = 2
  Mortal = {r1, r2, c1, c2}
  None = None
SPECIFICATION Spec
SYMMETRY Symmetry
VIEW View
INVARIANT Exclusive
INVARIANT FilesKept
INVARIANT AnswerRight
CONSTRAINT OneRetries
