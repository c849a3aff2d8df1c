---------------------------- MODULE MCEmoteImages ----------------------------
(* An instance of EmoteImages for TLC. *)
EXTENDS EmoteImages, TLC

CONSTANTS r1, r2, u7, uF

MCProviderOf == [u \in Urls |-> IF u = u7 THEN 0 ELSE 2]

\* The hash takes the second name for the first if the scope is Global.
MCIdentity ==
    [k \in Scopes \X Names \X Urls |->
       LET first == IF k[1] = Global THEN 1 ELSE k[2]
       IN IF k[3] = u7 THEN first ELSE 2 + first]

\* Rooms are interchangeable: the hash does not tell them apart.
RoomSymmetry == Permutations(RoomIds)

============================================================================
