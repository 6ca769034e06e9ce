-------------------------------- MODULE Lists --------------------------------
(***************************************************************************)
(* What the code does to a Vec, where the community modules have no        *)
(* operator that can be reasoned about: sum it, keep part of it            *)
(* (Iterator::filter), sort it stably (sort_by_key).                       *)
(***************************************************************************)
EXTENDS Integers, Sequences, FiniteSets, SequencesExt

(* The sum of a sequence of numbers, and of f over any sequence.           *)
Total(g) ==
    LET s[k \in DOMAIN g] == g[k] + (IF k = 1 THEN 0 ELSE s[k - 1])
    IN  IF g = <<>> THEN 0 ELSE s[Len(g)]
SumOf(S, f(_)) == Total([k \in DOMAIN S |-> f(S[k])])

(* The elements of s at the positions in K, in order.                      *)
Selected(s, K) ==
    FlattenSeq([k \in DOMAIN s |-> IF k \in K THEN <<s[k]>> ELSE <<>>])

(* s in the order of key[k], the key of s[k]; equals stay as they were.    *)
SortedBy(s, key) ==
    LET before(k) == {j \in DOMAIN s : \/ key[j] < key[k]
                                       \/ key[j] = key[k] /\ j < k}
    IN  [n \in DOMAIN s |->
            s[CHOOSE k \in DOMAIN s : Cardinality(before(k)) = n - 1]]
=============================================================================
