--------------------------- MODULE MCVoiceSessions ---------------------------
(* Two users with one agent in common and different grants. *)
EXTENDS VoiceSessions, TLC

CONSTANTS s1, s2, a1, a2, a3

MCInstalled == (s1 :> {a1, a2}) @@ (s2 :> {a2, a3})
MCGranted == (s1 :> (a1 :> {"profile", "vision"} @@ a2 :> {"history"} @@ a3 :> {}))
          @@ (s2 :> (a1 :> {} @@ a2 :> {"vision"} @@ a3 :> {"location"}))
MCUserData == (s1 :> {"profile", "location"}) @@ (s2 :> {"location"})

=============================================================================
