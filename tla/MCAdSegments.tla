---------------------------- MODULE MCAdSegments ----------------------------
(* An instance of AdSegments for TLC. *)
EXTENDS AdSegments, TLC

CONSTANTS a1, a2, v1, t1, t2, q1

\* Two refreshes of one playlist, and one of another stream.
MCPlaylists == {<<a1, v1>>, <<v1, a1>>, <<a2, a1>>}

\* Threads are interchangeable.
ThreadSymmetry == Permutations(Strippers)

============================================================================
