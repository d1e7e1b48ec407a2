------------------------------- MODULE Lists -------------------------------
(***************************************************************************)
(* The std::list operations of these modules.  They stand in for Remove    *)
(* and SelectSeq of the libraries, which are defined by recursion.         *)
(***************************************************************************)
EXTENDS Naturals, Sequences, FiniteSets, SequencesExt

\* The elements of s that are in T, in the order they have in s.
Filter(s, T) ==
  LET kept    == {k \in DOMAIN s : s[k] \in T}
      rank(k) == Cardinality({j \in kept : j <= k})
  IN  [i \in 1..Cardinality(kept) |-> s[CHOOSE k \in kept : rank(k) = i]]

\* s after e has been erased.
Erase(s, e) == Filter(s, ToSet(s) \ {e})

=============================================================================
