--------------------------- MODULE MCMarketplace ---------------------------
(* Marketplace on small sets, for TLC. *)
EXTENDS Marketplace, TLC

\* Requests are interchangeable (safety only).
ReqSymmetry == Permutations(Reqs)

=============================================================================
