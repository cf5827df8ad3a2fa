---------------------------- MODULE MCDelegation ----------------------------
EXTENDS Delegation, TLC

\* Two providers, and a third whose fingerprint is the first one's.
CONSTANTS p, q, twin

\* Two runs, of one conversation or of two.
CONSTANTS r1, r2, t1, t2

OneOrTwo == {(r1 :> t1) @@ (r2 :> t1), (r1 :> t1) @@ (r2 :> t2)}

Prints == (p :> "fp") @@ (q :> "fq") @@ (twin :> "fp")

\* A provider named by its fingerprint or not at all, and an explicit url.
Written ==
  {[url |-> FALSE, said |-> Unsaid], [url |-> FALSE, said |-> "fp"], [url |-> TRUE, said |-> p]}

=============================================================================
