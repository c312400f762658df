---------------------------- MODULE Subsequences ----------------------------
(***************************************************************************)
(* The entries of a sequence at some of its positions, in order: what a    *)
(* loop that appends the entries it keeps to a new slice computes.  It is  *)
(* SelectSeq without the recursion, which is out of the provers' reach; a  *)
(* position is found by its rank among the positions kept.                 *)
(***************************************************************************)
EXTENDS Naturals, FiniteSets

(* How many positions of I are at most i.                                  *)
Rank(I, i) == Cardinality({j \in I : j <= i})

(* The k-th position of I.                                                 *)
Position(I, k) == CHOOSE i \in I : Rank(I, i) = k

Selected(s, I) == [k \in 1..Cardinality(I) |-> s[Position(I, k)]]
=============================================================================
