---- MODULE MCHost ----
\* Model values for the checks of Host.
EXTENDS Host, TLC
CONSTANTS n1, n2, o1, o2

\* Only invariants and properties of single steps are checked: names are alike.
Symmetry == Permutations(Names)
====
