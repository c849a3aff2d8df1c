----------------------------- MODULE EmoteNames -----------------------------
(***************************************************************************)
(* Who gets a name, and who a place, when the providers of a room answer   *)
(* in any order.  parse_list_locked offers the entries of a list one by    *)
(* one under one lock, so a list is added in one step.                     *)
(***************************************************************************)
EXTENDS EmoteSet, SequencesExt

CONSTANTS
    Names,      \* numbers, in the order of strcmp
    Providers,  \* ranks
    MaxItems,   \* MAX_ROOM, or MAX_GLOBAL
    MaxEntries  \* bound on the entries of a list

ASSUME NamesAssumption == Names \subseteq Nat /\ Providers \subseteq Nat
ASSUME BoundsAssumption == MaxItems \in Nat \ {0} /\ MaxEntries \in Nat

VARIABLES
    lists,      \* the names each provider has for the room
    arrived,    \* providers whose answer was parsed
    items       \* the room's

namesVars == <<lists, arrived, items>>

\* The lists may repeat a name, as sharedEmotes may one of channelEmotes.
NamesInit ==
    /\ lists \in [Providers -> BoundedSeq(Names, MaxEntries)]
    /\ arrived = {}
    /\ items = {}

\* parse_list_locked
Parse(p) ==
    /\ p \notin arrived
    /\ arrived' = arrived \cup {p}
    /\ items' = FoldLeft(LAMBDA set, n : Added(set, MaxItems, [name |-> n, provider |-> p]),
                         items, lists[p])
    /\ UNCHANGED lists

NamesNext == \E p \in Providers : Parse(p)

NamesSpec == NamesInit /\ [][NamesNext]_namesVars

----------------------------------------------------------------------------
(* Properties                                                              *)

Offers(p) == IF p \in arrived THEN ToSet(lists[p]) ELSE {}
OfferedBy(p) == UNION {Offers(q) : q \in {q \in Providers : q <= p}}

\* TASEmotes.c:274: the fixed provider rank makes name collisions
\* deterministic.  A name that is in the set is that of the best provider that
\* has offered it, whatever was driven out and in whatever order they came.
NameToBest ==
    \A x \in items : \A p \in Providers : x.name \in Offers(p) => x.provider <= p

\* The places of a full set go by rank too: as many names of the best
\* providers are kept as there are or as the set holds, in any order of
\* arrival; which names of the last rank kept are in is left open.
PlacesToBest ==
    \A p \in Providers :
      LET kept == Cardinality({x \in items : x.provider <= p})
          offered == Cardinality(OfferedBy(p))
      IN kept = IF offered < MaxItems THEN offered ELSE MaxItems

\* Rank decides everything, and a name is in the set once.
RankDecides ==
    /\ \A x, y \in items : x.name = y.name => x = y
    /\ NameToBest
    /\ PlacesToBest

============================================================================
