------------------------- MODULE MCMemoryPromotion -------------------------
(* Instances of MemoryPromotion for TLC.                                   *)
EXTENDS MemoryPromotion, TLC

CONSTANTS case1, ref1

\* A lesson with no key, one with a broad source_ref, and one for a review
\* case under the same source_ref.
SharedRefKeys == {<<NoCase, NoRef>>, <<NoCase, ref1>>, <<case1, ref1>>}

\* Two lessons that share a source_ref.
SharedPair == {<<NoCase, ref1>>, <<case1, ref1>>}

Sym == Permutations(Requests)
=============================================================================
