--------------------------- MODULE MCProcessTask ----------------------------
EXTENDS ProcessTask, TLC

CONSTANT prog

OneTask == (1 :> prog) @@ (2 :> prog)
OneAndForeign == (1 :> prog) @@ (2 :> prog) @@ (3 :> None)
Symmetry == Permutations(Pids)
=============================================================================
