--------------------------- MODULE MCDnsExchange ---------------------------
(* Small instance of DnsExchange. *)
EXTENDS DnsExchange

CONSTANTS c1, c2, n1, n2, d1

\* Selected is SelectSeq, on the sequences of up to five entries.
ASSUME SelectedIsSelectSeq ==
  \A s \in UNION {[1..n -> 0..2] : n \in 0..5} :
    Selected(s, {i \in DOMAIN s : s[i] > 0}) = SelectSeq(s, LAMBDA x : x > 0)

=============================================================================
