----------------------- MODULE MCElasticsearchIndexing -----------------------
(* ElasticsearchIndexing for TLC: a variant of every product, or none.       *)
EXTENDS ElasticsearchIndexing, TLC

CONSTANTS v1, v2

OneVariant == {v1}
TwoVariants == {v1, v2}
ProductOfOne == v1 :> 1
ProductOfTwo == (v1 :> 1) @@ (v2 :> 2)

\* Workers are interchangeable, and no property here is a temporal one.
Symmetry == Permutations(Workers)
=============================================================================
