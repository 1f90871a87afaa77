SPECIFICATION ReplSpec
CONSTANTS
    Nodes = {n1, n2, n3}
    ReplKeys = {k1, k2}
    MaxReplPuts = 2
SYMMETRY Symmetry
INVARIANT ServedSurvives
