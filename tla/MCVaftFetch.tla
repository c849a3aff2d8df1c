---------------------------- MODULE MCVaftFetch ----------------------------
(* Instances of VaftFetch for TLC. *)
EXTENDS VaftFetch, TLC

CONSTANTS c1, c2, c3, u1, u2, u3, low, high

\* Two channels that share no URL, and masters that change between refreshes.
TwoListings == (c1 :> {{u1}, {u1, u2}}) @@ (c2 :> {{u3}})
TwoRenditions == (u1 :> high) @@ (u2 :> low) @@ (u3 :> high)

\* Three channels of one URL each, and one that lists another's URL.
ThreeListings == (c1 :> {{u1}}) @@ (c2 :> {{u2}, {u1, u2}}) @@ (c3 :> {{u3}})
OneRendition == [u \in Urls |-> high]

\* Two channels that take turns in one slot.
SwitchListings == (c1 :> {{u1}}) @@ (c2 :> {{u2}})

\* Workers are interchangeable.
WorkerSymmetry == Permutations(Workers)

============================================================================
