---------------------------- MODULE MCRouteSlots ----------------------------
(* An instance of RouteSlots for TLC. *)
EXTENDS RouteSlots, TLC

CONSTANTS c1, c2, c3, u1, u2, u3

\* Masters that change, share a URL, repeat one, and list more than fits.
SomePlaylists ==
    (c1 :> {<<u1>>, <<u1, u2, u1>>}) @@ (c2 :> {<<u3, u2>>}) @@ (c3 :> {<<u3, u1, u2>>, <<>>})

============================================================================
