---------------------------- MODULE MCCompaction ----------------------------
(***************************************************************************)
(* Module Compaction on small instances: two keys, ordered, and ttls that  *)
(* put records of one segment in different cohorts.                        *)
(***************************************************************************)
EXTENDS Compaction

\* Retain is SelectSeq by positions.
ASSUME RetainIsSelectSeq ==
    \A n \in 0..4 : \A s \in [1..n -> 1..3] : \A D \in SUBSET (1..3) :
        Retain(s, {i \in DOMAIN s : s[i] \in D}) = SelectSeq(s, LAMBDA x : x \in D)
=============================================================================
