--------------------------- MODULE MCRealtimeCall ---------------------------
(* Instances of RealtimeCall for TLC. *)
EXTENDS RealtimeCall

\* Every call is the offer of the same user.
MCOwner == [c \in Calls |-> CHOOSE u \in Users : TRUE]

=============================================================================
