--------------------------- MODULE MCEtwAttribution ---------------------------
(* Two handles, and the two ends of a connection a process has to itself.  *)
EXTENDS EtwAttribution, TLC

CONSTANTS p, k1, k2, h1, h2

BothEnds == [k \in {k1, k2} |-> IF k = k1 THEN k2 ELSE k1]
OneProcess == [k \in {k1, k2} |-> p]
Alike == Permutations({h1, h2}) \union Permutations({k1, k2})
=============================================================================
