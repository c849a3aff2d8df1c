--------------------------- MODULE PrivacyLabels ---------------------------
\* The labels that stand for channels and playlists in the diagnostic log
\* (TASPrivacy.c): a bounded table of keys, each with a random identifier.  A
\* full table gives up its entries in turn.
\*
\* label works under g_label_lock from the search to the answer, so it is one
\* action.  The two tables of the code differ in nothing; this is one of them.
\*
\* A definition introduced as a fault is a plausible mistake in the one after
\* it; no specification uses it.
EXTENDS Integers, FiniteSets

CONSTANTS
    Keys,           \* channel names, or URLs
    Identifiers,    \* what random_identifier draws from
    LabelSlots,     \* TAS_LABEL_SLOTS
    CounterWrap     \* a size_t counts modulo this

ASSUME LabelsAssumption ==
    /\ LabelSlots \in Nat \ {0} /\ CounterWrap \in Nat \ {0}
    /\ CounterWrap % LabelSlots = 0
    /\ IsFiniteSet(Identifiers) /\ Cardinality(Identifiers) > LabelSlots

VARIABLES
    labels,     \* the table: a slot holds nothing, or a key and its identifier
    turn,       \* g_next_channel, or g_next_resource
    given       \* ghost: the label each key was given last, and how many keys
                \* have found none since

labelVars == <<labels, turn, given>>

LabelTable == 0..LabelSlots - 1
Unused == [held |-> {}, id |-> {}]

NoneGiven == [k \in {} |-> 0]

LabelsInit ==
    /\ labels = [s \in LabelTable |-> Unused]
    /\ turn = 0
    /\ given = NoneGiven

Holding(k) == {s \in LabelTable : k \in labels[s].held}
FreeSlots == {s \in LabelTable : labels[s].held = {}}

\* Fault: the turn is not passed on.
SameSlotAgain ==
    IF FreeSlots # {}
    THEN [slot |-> CHOOSE s \in FreeSlots : \A f \in FreeSlots : s <= f, turn |-> turn]
    ELSE [slot |-> turn % LabelSlots, turn |-> turn]

\* The slot of a key that has none: the first free one, or the next in turn.
SlotToFill ==
    IF FreeSlots # {}
    THEN [slot |-> CHOOSE s \in FreeSlots : \A f \in FreeSlots : s <= f, turn |-> turn]
    ELSE [slot |-> turn % LabelSlots, turn |-> (turn + 1) % CounterWrap]

\* random_identifier: one no entry has, that of the key given up included.
FreshIdentifiers == Identifiers \ UNION {labels[s].id : s \in LabelTable}

\* The ghost counts as far as it matters.
Later == [k \in DOMAIN given |->
            [given[k] EXCEPT !.others = IF @ < LabelSlots THEN @ + 1 ELSE LabelSlots]]

\* label, of a key that is not empty and not too long.  A key that is in the
\* table gets its label; the copy of another may fail, and the turn is taken.
Labelled(k) == Holding(k) # {} /\ UNCHANGED labelVars

NewLabel(k) ==
    /\ Holding(k) = {}
    /\ turn' = SlotToFill.turn
    /\ \/ labels' = labels /\ given' = Later
       \/ \E id \in FreshIdentifiers :
            /\ labels' = [labels EXCEPT ![SlotToFill.slot] = [held |-> {k}, id |-> {id}]]
            /\ given' = [j \in DOMAIN given \cup {k} |->
                           IF j = k THEN [id |-> id, others |-> 0] ELSE Later[j]]

\* Twitch is started again.
Restart ==
    /\ labels' = [s \in LabelTable |-> Unused]
    /\ turn' = 0
    /\ given' = NoneGiven

LabelsNext == \E k \in Keys : Labelled(k) \/ NewLabel(k)
              \/ Restart

LabelsSpec == LabelsInit /\ [][LabelsNext]_labelVars

-----------------------------------------------------------------------------
\* A label names one channel or playlist, and stays with it for as long as the
\* table can promise: no two entries share a key or an identifier, and a key
\* keeps its entry, and the label it was given, until as many others as there
\* are slots have found none (label, README.md:117).  Keys that could not be
\* stored count among them: they take a turn.
LabelsHeld ==
    /\ \A s, t \in LabelTable : s # t =>
          /\ labels[s].held \cap labels[t].held = {}
          /\ labels[s].id \cap labels[t].id = {}
    /\ \A k \in DOMAIN given : given[k].others < LabelSlots =>
          \E s \in LabelTable : labels[s] = [held |-> {k}, id |-> {given[k].id}]
=============================================================================
