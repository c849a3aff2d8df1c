------------------------------ MODULE EmoteSet ------------------------------
(***************************************************************************)
(* The items of a Room of TASEmotes.c, a sorted array there, as a set in   *)
(* which no name is twice.  Names are numbered in the order of strcmp, and *)
(* a provider is its rank, the lower the better: 0 is 7TV, 1 BTTV, 2 FFZ.  *)
(*                                                                         *)
(* A definition introduced as a fault is a plausible mistake in the one    *)
(* after it; no specification uses it.                                     *)
(***************************************************************************)
EXTENDS Integers, FiniteSets

\* find_word: the items with a name, at most one.
FindWord(items, name) == {x \in items : x.name = name}

\* Fault: the item of the best of the lower ranks gives way.
BestVictims(items, provider) ==
    {x \in items :
       /\ x.provider > provider
       /\ \A y \in items : y.provider > provider =>
            \/ x.provider < y.provider
            \/ x.provider = y.provider /\ x.name <= y.name}

\* Who gives way to a new name in a full set: of those ranked lower than the
\* new one, the lowest, and of them the first.
Victims(items, provider) ==
    {x \in items :
       /\ x.provider > provider
       /\ \A y \in items :
            \/ x.provider > y.provider
            \/ x.provider = y.provider /\ x.name <= y.name}

\* Fault: a name stays with whoever offered it first.
FirstComeStays(items, max, e) ==
    IF FindWord(items, e.name) = {} /\ Cardinality(items) >= max
    THEN Victims(items, e.provider) ELSE {}

\* The item that e replaces or drives out, if any.
GiveWay(items, max, e) ==
    IF FindWord(items, e.name) # {}
    THEN {x \in FindWord(items, e.name) : e.provider < x.provider}
    ELSE IF Cardinality(items) >= max THEN Victims(items, e.provider) ELSE {}

\* add_emote_locked, for an emote whose identity is available.
Added(items, max, e) ==
    IF \/ GiveWay(items, max, e) # {}
       \/ FindWord(items, e.name) = {} /\ Cardinality(items) < max
    THEN (items \ GiveWay(items, max, e)) \cup {e}
    ELSE items

============================================================================
