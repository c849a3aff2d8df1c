---------------------------- MODULE MCEmoteRooms ----------------------------
(* Instances of EmoteRooms for TLC. *)
EXTENDS EmoteRooms, TLC

CONSTANTS r1, r2, r3

\* Rooms are interchangeable.
RoomSymmetry == Permutations(RoomIds)

============================================================================
