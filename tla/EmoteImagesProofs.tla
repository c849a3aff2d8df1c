------------------------- MODULE EmoteImagesProofs -------------------------
(***************************************************************************)
(* What the image identities promise, for any number of rooms and emotes,  *)
(* any limits, any lifetimes and any hash.                                 *)
(***************************************************************************)
EXTENDS EmoteImages, FiniteSetTheorems, TLAPS

----------------------------------------------------------------------------
(* Adding to a set                                                         *)

\* At most one item gives way, and none of the new name stays.
LEMMA GiveWayFacts ==
  ASSUME NEW items, NEW max, NEW e,
         \A x, y \in items : x.name = y.name => x = y,
         \A x \in items : x.provider \in Nat /\ x.name \in Nat
  PROVE  /\ GiveWay(items, max, e) \subseteq items
         /\ \A x, y \in GiveWay(items, max, e) : x = y
         /\ FindWord(items, e.name) # {} /\ GiveWay(items, max, e) # {}
              => \A x \in items \ GiveWay(items, max, e) : x.name # e.name
<1>1. GiveWay(items, max, e) \subseteq items
  BY DEF GiveWay, FindWord, Victims
<1>2. \A x, y \in FindWord(items, e.name) : x = y
  BY DEF FindWord
<1>3. \A x, y \in Victims(items, e.provider) : x = y
  <2> SUFFICES ASSUME NEW x \in Victims(items, e.provider), NEW y \in Victims(items, e.provider)
               PROVE  x = y
    OBVIOUS
  <2>1. x \in items /\ y \in items
    BY DEF Victims
  <2>2. /\ x.provider > y.provider \/ (x.provider = y.provider /\ x.name <= y.name)
        /\ y.provider > x.provider \/ (y.provider = x.provider /\ y.name <= x.name)
    BY <2>1 DEF Victims
  <2>3. x.name = y.name
    BY <2>1, <2>2
  <2>4. QED
    BY <2>1, <2>3
<1>4. CASE FindWord(items, e.name) # {}
  <2>1. GiveWay(items, max, e) \subseteq FindWord(items, e.name)
    BY <1>4 DEF GiveWay
  <2>2. ASSUME GiveWay(items, max, e) # {}, NEW x \in items \ GiveWay(items, max, e),
               x.name = e.name
        PROVE  FALSE
    <3>1. x \in FindWord(items, e.name)
      BY <2>2 DEF FindWord
    <3>2. QED
      BY <1>2, <2>1, <2>2, <3>1
  <2>3. QED
    BY <1>1, <1>2, <2>1, <2>2
<1>5. CASE FindWord(items, e.name) = {}
  <2>1. GiveWay(items, max, e) \subseteq Victims(items, e.provider)
    BY <1>5 DEF GiveWay
  <2>2. QED
    BY <1>1, <1>3, <1>5, <2>1
<1>6. QED
  BY <1>4, <1>5

\* A set stays finite and within its limit, and has the new name once.
LEMMA AddedOK ==
  ASSUME NEW items, NEW max \in Nat, NEW e, IsFiniteSet(items), SetOK(items, max),
         \A x \in items : x.provider \in Nat /\ x.name \in Nat
  PROVE  IsFiniteSet(Added(items, max, e)) /\ SetOK(Added(items, max, e), max)
<1> DEFINE gone == GiveWay(items, max, e)
           kept == items \ gone
<1>1. /\ gone \subseteq items /\ \A x, y \in gone : x = y
      /\ FindWord(items, e.name) # {} /\ gone # {} => \A x \in kept : x.name # e.name
  BY GiveWayFacts DEF SetOK
<1>2. CASE gone = {} /\ ~(FindWord(items, e.name) = {} /\ Cardinality(items) < max)
  BY <1>2 DEF Added
<1>3. CASE gone # {} \/ (FindWord(items, e.name) = {} /\ Cardinality(items) < max)
  <2>1. Added(items, max, e) = kept \cup {e}
    BY <1>3 DEF Added
  <2>2. \A x \in kept : x.name # e.name
    BY <1>1, <1>3 DEF FindWord
  <2>3. Cardinality(items) \in Nat /\ Cardinality(items) <= max
    BY FS_CardinalityType DEF SetOK
  <2>4. IsFiniteSet(kept) /\ Cardinality(kept) \in Nat /\ Cardinality(kept) + 1 <= max
    <3>1. CASE gone = {}
      <4>1. kept = items
        BY <3>1
      <4>2. QED
        BY <1>3, <2>3, <3>1, <4>1
    <3>2. CASE gone # {}
      <4>1. PICK x \in gone : TRUE
        BY <3>2
      <4>2. kept = items \ {x} /\ x \in items
        BY <1>1, <4>1
      <4>3. IsFiniteSet(kept) /\ Cardinality(kept) = Cardinality(items) - 1
        BY <4>2, FS_RemoveElement
      <4>4. Cardinality(kept) \in Nat
        BY <4>3, FS_CardinalityType
      <4>5. QED
        BY <2>3, <4>3, <4>4
    <3>3. QED
      BY <3>1, <3>2
  <2> HIDE DEF kept
  <2>5. /\ IsFiniteSet(kept \cup {e})
        /\ Cardinality(kept \cup {e}) = IF e \in kept THEN Cardinality(kept) ELSE Cardinality(kept) + 1
    BY <2>4, FS_AddElement
  <2>6. Cardinality(kept \cup {e}) <= max
    BY <2>4, <2>5
  <2>7. \A x, y \in kept \cup {e} : x.name = y.name => x = y
    <3>1. \A x, y \in kept : x.name = y.name => x = y
      BY DEF SetOK, kept
    <3>2. QED
      BY <2>2, <3>1
  <2>8. QED
    BY <2>1, <2>5, <2>6, <2>7 DEF SetOK
<1>4. QED
  BY <1>2, <1>3

----------------------------------------------------------------------------
(* Images                                                                  *)

\* An image that is in a set, or in the ring.
InSets(number, name, url) ==
    \E i \in Sets : \E x \in rooms[i].items : x.number = number /\ x.name = name /\ x.url = url
InRing(number, name, url) ==
    \E j \in Ring : /\ old[j].url # None /\ old[j].number = number
                    /\ old[j].name = name /\ old[j].url = url
Known(number, name, url) == InSets(number, name, url) \/ InRing(number, name, url)

\* The property in terms of what is known.
LEMMA OneImage ==
  OneImagePerNumber <=>
    \A n, a, u, b, v : Known(n, a, u) /\ Known(n, b, v) => a = b /\ u = v
<1> DEFINE fromSets == UNION {rooms[i].items : i \in Sets}
           fromRing == {old[j] : j \in Occupied}
<1>0. Images = fromSets \cup fromRing
  BY DEF Images
<1>1. \A x : x \in fromSets <=> \E i \in Sets : x \in rooms[i].items
  OBVIOUS
<1>2. \A x : x \in fromRing <=> \E j \in Ring : old[j].url # None /\ x = old[j]
  BY DEF Occupied
<1> HIDE DEF fromSets, fromRing
<1>3. ASSUME NEW x \in Images
      PROVE  Known(x.number, x.name, x.url)
  <2>1. CASE x \in fromSets
    BY <1>1, <2>1 DEF Known, InSets
  <2>2. CASE x \in fromRing
    BY <1>2, <2>2 DEF Known, InRing
  <2>3. QED
    BY <1>0, <1>3, <2>1, <2>2
<1>4. ASSUME NEW n, NEW a, NEW u, Known(n, a, u)
      PROVE  \E x \in Images : x.number = n /\ x.name = a /\ x.url = u
  <2>1. CASE InSets(n, a, u)
    BY <1>0, <1>1, <2>1 DEF InSets
  <2>2. CASE InRing(n, a, u)
    BY <1>0, <1>2, <2>2 DEF InRing
  <2>3. QED
    BY <1>4, <2>1, <2>2 DEF Known
<1>5. QED
  BY <1>3, <1>4 DEF OneImagePerNumber

\* Whatever of the images is new was available.
LEMMA NewImage ==
  ASSUME OneImagePerNumber, NEW number, NEW name, NEW url, Available(number, name, url),
         \A n, a, u : Known(n, a, u)' =>
           Known(n, a, u) \/ (n = number /\ a = name /\ u = url)
  PROVE  OneImagePerNumber'
<1>1. (OneImagePerNumber <=>
         \A n, a, u, b, v : Known(n, a, u) /\ Known(n, b, v) => a = b /\ u = v)'
  BY OneImage, PTL
<1>2. \A b, v : Known(number, b, v) => b = name /\ v = url
  BY DEF Available, Known, InSets, InRing
<1>3. \A n, a, u, b, v : Known(n, a, u) /\ Known(n, b, v) => a = b /\ u = v
  BY OneImage
<1>4. QED
  BY <1>1, <1>2, <1>3

\* No new image: no new pair of them.
LEMMA NoNewImage ==
  ASSUME OneImagePerNumber, \A n, a, u : Known(n, a, u)' => Known(n, a, u)
  PROVE  OneImagePerNumber'
<1>1. (OneImagePerNumber <=>
         \A n, a, u, b, v : Known(n, a, u) /\ Known(n, b, v) => a = b /\ u = v)'
  BY OneImage, PTL
<1>2. QED
  BY <1>1, OneImage

----------------------------------------------------------------------------
(* Pieces of the actions                                                   *)

\* A section that goes through sets, or none.
LEMMA RetiringFacts ==
  ASSUME NEW rs, NEW sets \in SUBSET Sets, NEW time \in Nat
  PROVE  /\ Retiring(rs, sets, time) \in Section
         /\ Retiring(rs, sets, time).at # "parse"
         /\ Retiring(rs, sets, time).at = "retire" => Retiring(rs, sets, time).time = time
<1> DEFINE left == {i \in sets : rs[i].items # {}}
<1>1. left \in SUBSET Sets
  OBVIOUS
<1>2. Free \in Section /\ Free.at = "free"
  BY DEF Free, Section
<1>3. [at |-> "retire", sets |-> left, time |-> time] \in Section
  BY <1>1 DEF Section
<1>4. QED
  BY <1>2, <1>3 DEF Retiring

\* What retiring does to the ring.
LEMMA RetireFacts ==
  ASSUME TypeOK, NEW e \in Emote, NEW time \in Nat, Retire(e, time)
  PROVE  /\ old' \in [Ring -> OldImage \cup {NoImage}]
         /\ oldNext' \in Ring
         /\ \A n, a, u : InRing(n, a, u)' =>
              InRing(n, a, u) \/ (n = e.number /\ a = e.name /\ u = e.url)
<1> DEFINE image == [name |-> e.name, url |-> e.url, number |-> e.number, retiredAt |-> time]
<1>1. old' = [old EXCEPT ![oldNext] = image]
  BY DEF Retire
<1>2. image \in OldImage
  BY DEF Emote, OldImage
<1>3. image.number = e.number /\ image.name = e.name /\ image.url = e.url
  OBVIOUS
<1>4. old \in [Ring -> OldImage \cup {NoImage}] /\ oldNext \in Ring
  BY DEF TypeOK
<1> HIDE DEF image
<1>5. old' \in [Ring -> OldImage \cup {NoImage}]
  BY <1>1, <1>2, <1>4
<1>6. oldNext' \in Ring
  BY <1>4, BoundsAssumption DEF Retire, Ring
<1>7. \A j \in Ring : old'[j] = old[j] \/ old'[j] = image
  BY <1>1, <1>4
<1>8. ASSUME NEW n, NEW a, NEW u, InRing(n, a, u)'
      PROVE  InRing(n, a, u) \/ (n = e.number /\ a = e.name /\ u = e.url)
  <2>1. PICK j \in Ring : /\ old'[j].url # None /\ old'[j].number = n
                          /\ old'[j].name = a /\ old'[j].url = u
    BY <1>8 DEF InRing
  <2>2. QED
    BY <1>3, <1>7, <2>1 DEF InRing
<1>9. QED
  BY <1>5, <1>6, <1>8

\* Sets that only lose emotes stay finite and within their limits.
LEMMA FewerEmotes ==
  ASSUME IInv, rooms' \in [Sets -> Room],
         \A i \in Sets : rooms'[i].items \subseteq rooms[i].items
  PROVE  /\ \A i \in Sets : IsFiniteSet(rooms'[i].items)
         /\ \A i \in Sets : SetOK(rooms'[i].items, Limit(i))
<1> SUFFICES ASSUME NEW i \in Sets
             PROVE  IsFiniteSet(rooms'[i].items) /\ SetOK(rooms'[i].items, Limit(i))
  OBVIOUS
<1> DEFINE items == rooms[i].items
           fewer == rooms'[i].items
<1>1. IsFiniteSet(items) /\ SetOK(items, Limit(i))
  BY DEF IInv, TypeOK
<1>2. fewer \subseteq items
  OBVIOUS
<1>3. Limit(i) \in Nat
  BY BoundsAssumption DEF Limit
<1> HIDE DEF items, fewer
<1>4. IsFiniteSet(fewer) /\ Cardinality(fewer) <= Cardinality(items)
  BY <1>1, <1>2, FS_Subset
<1>5. Cardinality(fewer) \in Nat /\ Cardinality(items) \in Nat
  BY <1>1, <1>4, FS_CardinalityType
<1>6. SetOK(fewer, Limit(i))
  BY <1>1, <1>2, <1>3, <1>4, <1>5 DEF SetOK
<1>7. QED
  BY <1>4, <1>6 DEF fewer

\* A step that takes nothing into the sets or the ring.
LEMMA NothingNew ==
  ASSUME IInv,
         rooms' \in [Sets -> Room],
         \A i \in Sets : rooms'[i].items \subseteq rooms[i].items,
         old' \in [Ring -> OldImage \cup {NoImage}],
         \A j \in Ring : old'[j] = old[j] \/ old'[j] = NoImage,
         oldNext' = oldNext, now' \in Nat \ {0}, lastSweep' \in Nat, section' \in Section,
         section'.at = "retire" => now' - section'.time <= MaxDelay,
         section'.at = "parse" => \A i \in section'.sets : rooms'[i].id # None
  PROVE  IInv'
<1>1. \A n, a, u : InSets(n, a, u)' => InSets(n, a, u)
  BY DEF InSets
<1>2. \A n, a, u : InRing(n, a, u)' => InRing(n, a, u)
  BY DEF InRing, NoImage
<1>3. OneImagePerNumber'
  BY <1>1, <1>2, NoNewImage DEF IInv, Known
<1>4. /\ \A i \in Sets : IsFiniteSet(rooms'[i].items)
      /\ \A i \in Sets : SetOK(rooms'[i].items, Limit(i))
  BY FewerEmotes
<1>5. TypeOK'
  BY <1>4 DEF IInv, TypeOK
<1>6. QED
  BY <1>3, <1>4, <1>5 DEF IInv

----------------------------------------------------------------------------
(* The invariant, action by action                                         *)

\* The invariant holds when nothing is loaded (the static initialisers of
\* TASEmotes.c).
THEOREM InitInv == Init => IInv
<1> SUFFICES ASSUME Init PROVE IInv
  OBVIOUS
<1>1. 0 \in Sets /\ 0 \in Ring
  BY BoundsAssumption DEF Sets, Ring
<1>2. \A i \in Sets : rooms[i] \in Room /\ rooms[i].items = {}
  BY DEF Init, EmptyRoom, Room
<1>3. rooms \in [Sets -> Room]
  BY <1>2 DEF Init
<1>4. old \in [Ring -> OldImage \cup {NoImage}] /\ \A j \in Ring : old[j].url = None
  BY DEF Init, NoImage
<1>5. IsFiniteSet({}) /\ Cardinality({}) = 0
  BY FS_EmptySet
<1>6. \A i \in Sets : IsFiniteSet(rooms[i].items) /\ SetOK(rooms[i].items, Limit(i))
  BY <1>2, <1>5, BoundsAssumption DEF SetOK, Limit
<1>7. section \in Section /\ section.at = "free"
  BY DEF Init, Free, Section
<1>8. TypeOK
  BY <1>1, <1>3, <1>4, <1>6, <1>7 DEF Init, TypeOK
<1>9. \A n, a, u : ~Known(n, a, u)
  BY <1>2, <1>4 DEF Known, InSets, InRing
<1>10. OneImagePerNumber
  BY <1>9, OneImage
<1>11. QED
  BY <1>6, <1>7, <1>8, <1>10 DEF IInv

\* The swept sets keep their emotes until they are retired.
LEMMA SweptFacts ==
  ASSUME TypeOK, NEW time
  PROVE  /\ Swept(time) \in [Sets -> Room]
         /\ \A i \in Sets : Swept(time)[i].items = rooms[i].items
<1> SUFFICES ASSUME NEW i \in Sets
             PROVE  Swept(time)[i] \in Room /\ Swept(time)[i].items = rooms[i].items
  BY DEF Swept
<1>1. rooms[i] \in Room
  BY DEF TypeOK
<1>2. [rooms[i] EXCEPT !.id = None, !.lastUsed = 0] \in Room
  BY <1>1 DEF Room
<1>3. [rooms[i] EXCEPT !.id = None, !.lastUsed = 0].items = rooms[i].items
  BY <1>1 DEF Room
<1>4. QED
  BY <1>1, <1>2, <1>3 DEF Swept

\* ensure_loaded, whatever slot it takes.
LEMMA EnsureInv ==
  ASSUME IInv, NEW time \in Readings, NEW rs \in [Sets -> Room],
         \A i \in Sets : rs[i].items = rooms[i].items, Ensure(time, rs)
  PROVE  IInv'
<1>1. TypeOK /\ time \in Nat /\ now - time <= MaxDelay
  BY DEF IInv, TypeOK, Readings
<1>2. rooms' = rs /\ oldNext' = oldNext /\ now' = now /\ old' = Remembered(time)
  BY DEF Ensure
<1>3. \A j \in Ring : old'[j] = old[j] \/ old'[j] = NoImage
  BY <1>2 DEF Remembered
<1>4. old' \in [Ring -> OldImage \cup {NoImage}]
  BY <1>1, <1>2 DEF Remembered, TypeOK
<1>5. lastSweep' \in Nat
  BY <1>1 DEF Ensure, TypeOK
<1>6. section' = Retiring(rs, Reset(time, rs), time) /\ Reset(time, rs) \in SUBSET Sets
  BY DEF Ensure, Reset, Slots, Sets
<1>7. /\ section' \in Section /\ section'.at # "parse"
      /\ section'.at = "retire" => section'.time = time
  BY <1>1, <1>6, RetiringFacts
<1>8. now' \in Nat \ {0}
  BY <1>1, <1>2 DEF TypeOK
<1>9. section'.at = "retire" => now' - section'.time <= MaxDelay
  BY <1>1, <1>2, <1>7
<1>10. QED
  BY <1>2, <1>3, <1>4, <1>5, <1>7, <1>8, <1>9, NothingNew

\* ensure_loaded of the global set.
LEMMA EnsureGlobalInv ==
  ASSUME IInv, NEW time \in Readings, EnsureGlobal(time)
  PROVE  IInv'
<1>1. Swept(time) \in [Sets -> Room] /\ \A i \in Sets : Swept(time)[i].items = rooms[i].items
  BY SweptFacts DEF IInv
<1>2. QED
  BY <1>1, EnsureInv DEF EnsureGlobal

\* So do those of which a slot was taken for a room.
LEMMA TakenFacts ==
  ASSUME NEW swept \in [Sets -> Room], NEW i \in Sets, NEW r \in RoomIds, NEW time \in Nat
  PROVE  /\ Taken(swept, i, r, time) \in [Sets -> Room]
         /\ \A k \in Sets : Taken(swept, i, r, time)[k].items = swept[k].items
<1> DEFINE taken == [swept[i] EXCEPT !.id = r, !.lastUsed = time]
           rs == [swept EXCEPT ![i] = taken]
<1>1. taken \in Room /\ taken.items = swept[i].items
  BY DEF Room
<1>2. Taken(swept, i, r, time) = rs
  BY DEF Taken
<1> HIDE DEF taken
<1>3. rs \in [Sets -> Room] /\ \A k \in Sets : rs[k].items = swept[k].items
  BY <1>1
<1>4. QED
  BY <1>2, <1>3

\* ensure_loaded of a room.
LEMMA EnsureRoomInv ==
  ASSUME IInv, NEW time \in Readings, NEW r \in RoomIds, EnsureRoom(time, r)
  PROVE  IInv'
<1>1. Swept(time) \in [Sets -> Room] /\ \A i \in Sets : Swept(time)[i].items = rooms[i].items
  BY SweptFacts DEF IInv
<1>2. PICK i \in Slots : Ensure(time, Taken(Swept(time), i, r, time))
  BY DEF EnsureRoom
<1>3. i \in Sets /\ time \in Nat
  BY DEF Slots, Sets, Readings
<1>4. /\ Taken(Swept(time), i, r, time) \in [Sets -> Room]
      /\ \A k \in Sets : Taken(Swept(time), i, r, time)[k].items = rooms[k].items
  BY <1>1, <1>3, TakenFacts
<1>5. QED
  BY <1>2, <1>4, EnsureInv

\* One emote of a set that is reset.
LEMMA RetireNextInv ==
  ASSUME IInv, RetireNext
  PROVE  IInv'
<1>0. PICK i \in section.sets : \E e \in rooms[i].items :
        /\ Retire(e, section.time)
        /\ rooms' = [rooms EXCEPT ![i].items = @ \ {e}]
        /\ section' = Retiring(rooms', section.sets, section.time)
  BY DEF RetireNext
<1>1. PICK e \in rooms[i].items :
        /\ Retire(e, section.time)
        /\ rooms' = [rooms EXCEPT ![i].items = @ \ {e}]
        /\ section' = Retiring(rooms', section.sets, section.time)
  BY <1>0
<1>2. /\ TypeOK /\ section \in Section /\ section.at = "retire"
      /\ now' = now /\ lastSweep' = lastSweep
  BY DEF IInv, TypeOK, RetireNext
<1>3. section.sets \in SUBSET Sets /\ section.time \in Nat /\ now - section.time <= MaxDelay
  BY <1>2 DEF Section, IInv
<1>4. i \in Sets /\ rooms[i] \in Room /\ e \in Emote
  BY <1>2, <1>3 DEF TypeOK, Room
<1>5. rooms' \in [Sets -> Room] /\ \A k \in Sets : rooms'[k].items \subseteq rooms[k].items
  <2> DEFINE fewer == [rooms[i] EXCEPT !.items = @ \ {e}]
  <2>1. fewer \in Room /\ fewer.items = rooms[i].items \ {e}
    BY <1>4 DEF Room
  <2>2. rooms' = [rooms EXCEPT ![i] = fewer]
    BY <1>1
  <2> HIDE DEF fewer
  <2>3. QED
    BY <1>2, <1>4, <2>1, <2>2 DEF TypeOK
<1>6. /\ \A k \in Sets : IsFiniteSet(rooms'[k].items)
      /\ \A k \in Sets : SetOK(rooms'[k].items, Limit(k))
  BY <1>5, FewerEmotes
<1>7. /\ old' \in [Ring -> OldImage \cup {NoImage}] /\ oldNext' \in Ring
      /\ \A n, a, u : InRing(n, a, u)' =>
           InRing(n, a, u) \/ (n = e.number /\ a = e.name /\ u = e.url)
  BY <1>1, <1>2, <1>3, <1>4, RetireFacts
<1>8. \A n, a, u : InSets(n, a, u)' => InSets(n, a, u)
  BY <1>5 DEF InSets
<1>9. InSets(e.number, e.name, e.url)
  BY <1>4, <1>1 DEF InSets
<1>10. \A n, a, u : Known(n, a, u)' => Known(n, a, u)
  BY <1>7, <1>8, <1>9 DEF Known
<1>11. OneImagePerNumber'
  BY <1>10, NoNewImage DEF IInv
<1>12. /\ section' \in Section /\ section'.at # "parse"
       /\ section'.at = "retire" => section'.time = section.time
  BY <1>1, <1>3, RetiringFacts
<1>13. TypeOK'
  BY <1>2, <1>5, <1>6, <1>7, <1>12 DEF TypeOK
<1>14. QED
  BY <1>2, <1>3, <1>6, <1>11, <1>12, <1>13 DEF IInv

\* One emote of a list that is parsed.
LEMMA AddInv ==
  ASSUME IInv, NEW name \in Names, NEW url \in Urls, Add(name, url)
  PROVE  IInv'
<1>1. PICK i \in section.sets :
         LET number == Identity[<<rooms[i].id, name, url>>]
             e == [name |-> name, url |-> url, provider |-> ProviderOf[url], number |-> number]
             items == rooms[i].items
         IN /\ Available(number, name, url)
            /\ \/ /\ GiveWay(items, Limit(i), e) = {}
                  /\ UNCHANGED <<old, oldNext>>
               \/ \E x \in GiveWay(items, Limit(i), e) : Retire(x, now)
            /\ rooms' = [rooms EXCEPT ![i].items = Added(items, Limit(i), e)]
  BY DEF Add
<1> DEFINE number == Identity[<<rooms[i].id, name, url>>]
           e == [name |-> name, url |-> url, provider |-> ProviderOf[url], number |-> number]
           items == rooms[i].items
           added == Added(items, Limit(i), e)
<1>2. /\ TypeOK /\ section \in Section /\ section.at = "parse"
      /\ now' = now /\ lastSweep' = lastSweep /\ section' = section
  BY DEF IInv, TypeOK, Add
<1>3. i \in Sets /\ rooms[i] \in Room /\ rooms[i].id # None
  BY <1>2 DEF TypeOK, Section, IInv
<1>4. <<rooms[i].id, name, url>> \in Scopes \X Names \X Urls
  BY <1>3 DEF Room, Scopes
<1>5. number \in Numbers /\ ProviderOf[url] \in Nat
  BY <1>4, EmotesAssumption
<1> HIDE DEF number
<1>6. e \in Emote /\ e.number = number /\ e.name = name /\ e.url = url
  BY <1>5 DEF Emote
<1>7. /\ Available(number, name, url)
      /\ rooms' = [rooms EXCEPT ![i].items = added]
      /\ \/ UNCHANGED <<old, oldNext>>
         \/ \E x \in GiveWay(items, Limit(i), e) : Retire(x, now)
  BY <1>1 DEF number
<1>8. /\ items \subseteq Emote /\ IsFiniteSet(items) /\ SetOK(items, Limit(i)) /\ Limit(i) \in Nat
      /\ \A x \in items : x.provider \in Nat /\ x.name \in Nat
  BY <1>2, <1>3, EmotesAssumption, BoundsAssumption DEF IInv, TypeOK, Room, Emote, Limit
<1> HIDE DEF e, items
<1>9. IsFiniteSet(added) /\ SetOK(added, Limit(i))
  BY <1>8, AddedOK
<1>10. added \subseteq items \cup {e} /\ GiveWay(items, Limit(i), e) \subseteq items
  BY DEF Added, GiveWay, FindWord, Victims
<1> HIDE DEF added
<1>11. /\ rooms' \in [Sets -> Room] /\ rooms'[i].items = added
       /\ \A k \in Sets : rooms'[k].id = rooms[k].id
       /\ \A k \in Sets : k # i => rooms'[k] = rooms[k]
  <2> DEFINE more == [rooms[i] EXCEPT !.items = added]
  <2>1. more \in Room /\ more.items = added /\ more.id = rooms[i].id
    BY <1>3, <1>6, <1>8, <1>10 DEF Room
  <2>2. rooms' = [rooms EXCEPT ![i] = more]
    BY <1>7
  <2> HIDE DEF more
  <2>3. QED
    BY <1>2, <1>3, <2>1, <2>2 DEF TypeOK
<1>12. \A k \in Sets : IsFiniteSet(rooms'[k].items) /\ SetOK(rooms'[k].items, Limit(k))
  BY <1>9, <1>11 DEF IInv, TypeOK
<1>13. /\ old' \in [Ring -> OldImage \cup {NoImage}] /\ oldNext' \in Ring
       /\ \A n, a, u : InRing(n, a, u)' => Known(n, a, u)
  <2>1. CASE UNCHANGED <<old, oldNext>>
    BY <1>2, <2>1 DEF TypeOK, InRing, Known
  <2>2. CASE \E x \in GiveWay(items, Limit(i), e) : Retire(x, now)
    <3>1. PICK x \in GiveWay(items, Limit(i), e) : Retire(x, now)
      BY <2>2
    <3>2. x \in items /\ x \in Emote /\ now \in Nat
      BY <1>2, <1>8, <1>10 DEF TypeOK
    <3>3. InSets(x.number, x.name, x.url)
      BY <1>3, <3>2 DEF InSets, items
    <3>4. QED
      BY <1>2, <3>1, <3>2, <3>3, RetireFacts DEF Known
  <2>3. QED
    BY <1>7, <2>1, <2>2
<1>14. \A n, a, u : InSets(n, a, u)' =>
         InSets(n, a, u) \/ (n = number /\ a = name /\ u = url)
  <2> SUFFICES ASSUME NEW n, NEW a, NEW u, InSets(n, a, u)'
               PROVE  InSets(n, a, u) \/ (n = number /\ a = name /\ u = url)
    OBVIOUS
  <2>0. PICK k \in Sets : \E x \in rooms'[k].items : x.number = n /\ x.name = a /\ x.url = u
    BY DEF InSets
  <2>1. PICK x \in rooms'[k].items : x.number = n /\ x.name = a /\ x.url = u
    BY <2>0
  <2>2. x \in rooms[k].items \/ x = e
    BY <1>10, <1>11, <2>1 DEF items
  <2>3. QED
    BY <1>6, <2>1, <2>2 DEF InSets
<1>15. OneImagePerNumber'
  BY <1>7, <1>13, <1>14, NewImage DEF IInv, Known
<1>16. TypeOK'
  BY <1>2, <1>11, <1>12, <1>13 DEF TypeOK
<1>17. \A k \in section.sets : rooms'[k].id # None
  BY <1>2, <1>11 DEF IInv, Section
<1>18. QED
  BY <1>2, <1>12, <1>15, <1>16, <1>17 DEF IInv

\* Every critical section, or part of one, keeps the invariant.
THEOREM StepInv == IInv /\ [Next]_vars => IInv'
<1> SUFFICES ASSUME IInv, [Next]_vars PROVE IInv'
  OBVIOUS
<1>0. /\ rooms \in [Sets -> Room] /\ old \in [Ring -> OldImage \cup {NoImage}]
      /\ now \in Nat \ {0} /\ lastSweep \in Nat /\ section \in Section
      /\ section.at = "retire" => now - section.time <= MaxDelay
      /\ section.at = "parse" => \A i \in section.sets : rooms[i].id # None
  BY DEF IInv, TypeOK
<1>1. ASSUME NEW time \in Readings, EnsureGlobal(time) PROVE IInv'
  BY <1>1, EnsureGlobalInv
<1>2. ASSUME NEW time \in Readings, NEW r \in RoomIds, EnsureRoom(time, r) PROVE IInv'
  BY <1>2, EnsureRoomInv
<1>3. ASSUME NEW i \in Sets, Parse(i) PROVE IInv'
  <2>1. section' \in Section /\ section'.at = "parse" /\ section'.sets = {i}
    BY <1>3 DEF Parse, Section
  <2>2. UNCHANGED <<rooms, old, oldNext, now, lastSweep>> /\ rooms[i].id # None
    BY <1>3 DEF Parse
  <2>3. QED
    BY <1>0, <2>1, <2>2, NothingNew
<1>4. ASSUME NEW name \in Names, NEW url \in Urls, Add(name, url) PROVE IInv'
  BY <1>4, AddInv
<1>5. CASE Parsed
  <2>1. section' \in Section /\ section'.at = "free"
    BY <1>5 DEF Parsed, Free, Section
  <2>2. UNCHANGED <<rooms, old, oldNext, now, lastSweep>>
    BY <1>5 DEF Parsed
  <2>3. QED
    BY <1>0, <2>1, <2>2, NothingNew
<1>6. CASE RetireNext
  BY <1>6, RetireNextInv
<1>7. ASSUME NEW i \in Slots, LocalMatches(i) PROVE IInv'
  <2>1. i \in Sets /\ rooms[i] \in Room /\ now \in Nat
    BY <1>0 DEF Slots, Sets
  <2> DEFINE used == [rooms[i] EXCEPT !.lastUsed = now]
  <2>2. used \in Room /\ used.items = rooms[i].items /\ used.id = rooms[i].id
    BY <2>1 DEF Room
  <2>3. rooms' = [rooms EXCEPT ![i] = used]
    BY <1>7 DEF LocalMatches
  <2> HIDE DEF used
  <2>4. /\ rooms' \in [Sets -> Room]
        /\ \A k \in Sets : rooms'[k].items = rooms[k].items /\ rooms'[k].id = rooms[k].id
    BY <1>0, <2>1, <2>2, <2>3
  <2>5. section = Free /\ UNCHANGED <<old, oldNext, now, lastSweep, section>>
    BY <1>7 DEF LocalMatches
  <2>6. QED
    BY <1>0, <2>4, <2>5, NothingNew DEF Free
<1>8. CASE Reload
  <2>1. \A i \in Sets : rooms'[i] \in Room /\ rooms'[i].items = rooms[i].items
    <3> SUFFICES ASSUME NEW i \in Sets
                 PROVE  rooms'[i] \in Room /\ rooms'[i].items = rooms[i].items
      OBVIOUS
    <3>1. rooms[i] \in Room
      BY <1>0
    <3> DEFINE id == IF i = 0 THEN Global ELSE None
    <3>2. rooms'[i] = [rooms[i] EXCEPT !.id = id, !.lastUsed = 0]
      BY <1>8 DEF Reload
    <3>3. id \in RoomIds \cup {Global, None}
      OBVIOUS
    <3> HIDE DEF id
    <3>4. [rooms[i] EXCEPT !.id = id, !.lastUsed = 0] \in Room
      BY <3>1, <3>3 DEF Room
    <3>5. [rooms[i] EXCEPT !.id = id, !.lastUsed = 0].items = rooms[i].items
      BY <3>1 DEF Room
    <3>6. QED
      BY <3>2, <3>4, <3>5
  <2>2. rooms' \in [Sets -> Room]
    BY <1>8, <2>1 DEF Reload
  <2>3. UNCHANGED <<old, oldNext, now, lastSweep>> /\ section' = Retiring(rooms, Sets, now)
    BY <1>8 DEF Reload
  <2>4. /\ section' \in Section /\ section'.at # "parse"
        /\ section'.at = "retire" => section'.time = now
    BY <1>0, <2>3, RetiringFacts
  <2>5. section'.at = "retire" => now' - section'.time <= MaxDelay
    BY <1>0, <2>3, <2>4, BoundsAssumption
  <2>6. QED
    BY <1>0, <2>1, <2>2, <2>3, <2>4, <2>5, NothingNew
<1>9. CASE ClearCache
  <2>1. \A i \in Sets : rooms'[i] \in Room /\ rooms'[i].items = {}
    BY <1>9 DEF ClearCache, EmptyRoom, Room
  <2>2. rooms' \in [Sets -> Room] /\ old' \in [Ring -> OldImage \cup {NoImage}]
    BY <1>9, <2>1 DEF ClearCache
  <2>3. \A j \in Ring : old'[j] = NoImage
    BY <1>9 DEF ClearCache
  <2>4. section = Free /\ UNCHANGED <<oldNext, now, lastSweep, section>>
    BY <1>9 DEF ClearCache
  <2>5. QED
    BY <1>0, <2>1, <2>2, <2>3, <2>4, NothingNew DEF Free
<1>10. CASE Tick
  <2>1. section = Free /\ now' = now + 1 /\ UNCHANGED <<rooms, old, oldNext, lastSweep, section>>
    BY <1>10 DEF Tick
  <2>2. QED
    BY <1>0, <2>1, NothingNew DEF Free
<1>11. CASE UNCHANGED vars
  BY <1>0, <1>11, NothingNew DEF vars
<1>12. QED
  BY <1>1, <1>2, <1>3, <1>4, <1>5, <1>6, <1>7, <1>8, <1>9, <1>10, <1>11 DEF Next

----------------------------------------------------------------------------
(* What stays served                                                       *)

\* Served, without the union.
LEMMA ServedIff ==
  ASSUME NEW n
  PROVE  Served(n) # {} <=> \E i \in Sets : \E x \in rooms[i].items : x.number = n
BY DEF Served

\* While no set loses an emote, and no place of the ring its image before its
\* time, nothing is lost but to age.
LEMMA OnlyAge ==
  ASSUME TypeOK, NEW n, IsServed(n), ~IsServed(n)',
         \A i \in Sets : rooms[i].items \subseteq rooms'[i].items,
         \A j \in Kept(n) : old'[j] = old[j],
         now' \in Nat
  PROVE  Served(n) = {} /\ \A j \in Kept(n) : now' - old[j].retiredAt >= HistorySeconds
<1>1. Served(n)' # {} <=> \E i \in Sets : \E x \in rooms'[i].items : x.number = n
  BY DEF Served
<1>2. Served(n) = {}
  BY <1>1, ServedIff DEF IsServed
<1>3. ASSUME NEW j \in Kept(n) PROVE now' - old[j].retiredAt >= HistorySeconds
  <2>1. j \in Ring /\ old[j].url # None /\ old[j].number = n /\ old'[j] = old[j]
    BY DEF Kept
  <2>2. old[j] \in OldImage
    BY <2>1 DEF TypeOK, NoImage
  <2>3. old[j].retiredAt \in Nat
    BY <2>2 DEF OldImage
  <2>4. j \notin Kept(n)'
    BY DEF IsServed
  <2>5. ~(now' - old[j].retiredAt < HistorySeconds)
    BY <2>1, <2>4 DEF Kept
  <2>6. QED
    BY <2>3, <2>5, BoundsAssumption
<1>4. QED
  BY <1>2, <1>3

\* Retiring serves the one retired, and takes one place.
LEMMA RetireServes ==
  ASSUME TypeOK, NEW e \in Emote, NEW time \in Nat, Retire(e, time),
         now' = now, now - time <= MaxDelay,
         NEW n, IsServed(n), ~IsServed(n)',
         \A i \in Sets : \A x \in rooms[i].items : x = e \/ x \in rooms'[i].items
  PROVE  Served(n) = {} /\ Kept(n) = {oldNext}
<1> DEFINE image == [name |-> e.name, url |-> e.url, number |-> e.number, retiredAt |-> time]
<1>1. old' = [old EXCEPT ![oldNext] = image]
  BY DEF Retire
<1>2. image.url = e.url /\ image.number = e.number /\ image.retiredAt = time /\ e.url # None
  BY ScopesAssumption DEF Emote
<1>3. oldNext \in Ring /\ old \in [Ring -> OldImage \cup {NoImage}]
  BY DEF TypeOK
<1> HIDE DEF image
<1>4. e.number # n
  <2>1. ASSUME e.number = n PROVE FALSE
    <3>1. old'[oldNext] = image
      BY <1>1, <1>3
    <3>2. now' - time < HistorySeconds
      BY BoundsAssumption DEF TypeOK
    <3>3. oldNext \in Kept(n)'
      BY <1>2, <1>3, <2>1, <3>1, <3>2 DEF Kept
    <3>4. QED
      BY <3>3 DEF IsServed
  <2>2. QED
    BY <2>1
<1>5. Served(n)' # {} <=> \E i \in Sets : \E x \in rooms'[i].items : x.number = n
  BY DEF Served
<1>6. Served(n) = {}
  BY <1>4, <1>5, ServedIff DEF IsServed
<1>7. ASSUME NEW j \in Kept(n), j # oldNext PROVE FALSE
  <2>1. /\ j \in Ring /\ old[j].url # None /\ old[j].number = n
        /\ now - old[j].retiredAt < HistorySeconds
    BY DEF Kept
  <2>2. old'[j] = old[j]
    BY <1>1, <1>3, <1>7, <2>1
  <2>3. j \in Kept(n)'
    BY <2>1, <2>2 DEF Kept
  <2>4. QED
    BY <2>3 DEF IsServed
<1>8. Kept(n) # {}
  BY <1>6 DEF IsServed
<1>9. QED
  BY <1>6, <1>7, <1>8

\* The action property, for one step and one number.
LEMMA StepKeepsServed ==
  ASSUME IInv, Next, NEW n \in Numbers, IsServed(n), ~IsServed(n)'
  PROVE  \/ ClearCache
         \/ /\ Served(n) = {}
            /\ \/ \A j \in Kept(n) : now' - old[j].retiredAt >= HistorySeconds
               \/ section # Free /\ Kept(n) = {oldNext}
<1>0. /\ TypeOK /\ rooms \in [Sets -> Room] /\ now \in Nat /\ section \in Section
      /\ old \in [Ring -> OldImage \cup {NoImage}]
  BY DEF IInv, TypeOK
<1>1. ASSUME NEW time \in Readings, NEW rs \in [Sets -> Room], Ensure(time, rs),
             \A i \in Sets : rs[i].items = rooms[i].items
      PROVE  Served(n) = {} /\ \A j \in Kept(n) : now' - old[j].retiredAt >= HistorySeconds
  <2>1. rooms' = rs /\ old' = Remembered(time) /\ now' = now /\ time \in 1 .. now
    BY <1>1 DEF Ensure, Readings
  <2>2. ASSUME NEW j \in Kept(n) PROVE old'[j] = old[j]
    <3>1. j \in Ring /\ old[j].url # None /\ now - old[j].retiredAt < HistorySeconds
      BY DEF Kept
    <3>2. old[j].retiredAt \in Nat
      BY <1>0, <3>1 DEF NoImage, OldImage
    <3>3. ~(time - old[j].retiredAt > HistorySeconds)
      BY <1>0, <2>1, <3>1, <3>2, BoundsAssumption
    <3>4. QED
      BY <2>1, <3>1, <3>3 DEF Remembered
  <2>3. QED
    BY <1>0, <1>1, <2>1, <2>2, OnlyAge
<1>2. ASSUME NEW time \in Readings,
             EnsureGlobal(time) \/ \E r \in RoomIds : EnsureRoom(time, r)
      PROVE  Served(n) = {} /\ \A j \in Kept(n) : now' - old[j].retiredAt >= HistorySeconds
  <2>1. Swept(time) \in [Sets -> Room] /\ \A i \in Sets : Swept(time)[i].items = rooms[i].items
    BY <1>0, SweptFacts
  <2>2. CASE EnsureGlobal(time)
    BY <1>1, <2>1, <2>2 DEF EnsureGlobal
  <2>3. ASSUME NEW r \in RoomIds, EnsureRoom(time, r)
        PROVE  Served(n) = {} /\ \A j \in Kept(n) : now' - old[j].retiredAt >= HistorySeconds
    <3>1. PICK i \in Slots : Ensure(time, Taken(Swept(time), i, r, time))
      BY <2>3 DEF EnsureRoom
    <3>2. i \in Sets /\ time \in Nat
      BY DEF Slots, Sets, Readings
    <3>3. /\ Taken(Swept(time), i, r, time) \in [Sets -> Room]
          /\ \A k \in Sets : Taken(Swept(time), i, r, time)[k].items = rooms[k].items
      BY <2>1, <3>2, TakenFacts
    <3>4. QED
      BY <1>1, <3>1, <3>3
  <2>4. QED
    BY <1>2, <2>2, <2>3
<1>3. CASE \/ \E i \in Sets : Parse(i)
           \/ Parsed \/ Reload \/ Tick
           \/ \E i \in Slots : LocalMatches(i)
  <2>1. old' = old /\ now' \in Nat
    <3>1. old' = old /\ (now' = now \/ now' = now + 1)
      BY <1>3 DEF Parse, Parsed, Reload, Tick, LocalMatches
    <3>2. QED
      BY <1>0, <3>1
  <2>2. \A i \in Sets : rooms[i].items \subseteq rooms'[i].items
    <3>1. CASE \/ \E i \in Sets : Parse(i)
               \/ Parsed \/ Tick
      BY <3>1 DEF Parse, Parsed, Tick
    <3>2. CASE Reload
      BY <1>0, <3>2 DEF Reload, Room
    <3>3. CASE \E i \in Slots : LocalMatches(i)
      <4>1. PICK i \in Slots : rooms' = [rooms EXCEPT ![i] = [rooms[i] EXCEPT !.lastUsed = now]]
        BY <3>3 DEF LocalMatches
      <4>2. i \in Sets
        BY DEF Slots, Sets
      <4>3. [rooms[i] EXCEPT !.lastUsed = now].items = rooms[i].items
        BY <1>0, <4>2 DEF Room
      <4>4. QED
        BY <1>0, <4>1, <4>2, <4>3
    <3>4. QED
      BY <1>3, <3>1, <3>2, <3>3
  <2>3. QED
    BY <1>0, <2>1, <2>2, OnlyAge
<1>4. CASE RetireNext
  <2>0. PICK i \in section.sets : \E e \in rooms[i].items :
          Retire(e, section.time) /\ rooms' = [rooms EXCEPT ![i].items = @ \ {e}]
    BY <1>4 DEF RetireNext
  <2>1. PICK e \in rooms[i].items :
          Retire(e, section.time) /\ rooms' = [rooms EXCEPT ![i].items = @ \ {e}]
    BY <2>0
  <2>2. section.at = "retire" /\ now' = now /\ section # Free
    BY <1>4 DEF RetireNext, Free
  <2>3. /\ i \in Sets /\ section.time \in Nat /\ now - section.time <= MaxDelay
    BY <1>0, <2>2 DEF IInv, Section
  <2>4. e \in Emote
    BY <1>0, <2>3 DEF Room
  <2>5. \A k \in Sets : \A x \in rooms[k].items : x = e \/ x \in rooms'[k].items
    <3>1. rooms' = [rooms EXCEPT ![i] = [rooms[i] EXCEPT !.items = @ \ {e}]]
      BY <2>1
    <3>2. [rooms[i] EXCEPT !.items = @ \ {e}].items = rooms[i].items \ {e}
      BY <1>0, <2>3 DEF Room
    <3>3. QED
      BY <1>0, <2>3, <3>1, <3>2
  <2>6. QED
    BY <1>0, <2>1, <2>2, <2>3, <2>4, <2>5, RetireServes
<1>5. ASSUME NEW name \in Names, NEW url \in Urls, Add(name, url)
      PROVE  /\ Served(n) = {}
             /\ \/ \A j \in Kept(n) : now' - old[j].retiredAt >= HistorySeconds
                \/ section # Free /\ Kept(n) = {oldNext}
  <2>0. PICK i \in section.sets : \E e :
          /\ \/ /\ GiveWay(rooms[i].items, Limit(i), e) = {}
                /\ UNCHANGED <<old, oldNext>>
             \/ \E x \in GiveWay(rooms[i].items, Limit(i), e) : Retire(x, now)
          /\ rooms' = [rooms EXCEPT ![i].items = Added(rooms[i].items, Limit(i), e)]
    BY <1>5 DEF Add
  <2>1. PICK e :
          /\ \/ /\ GiveWay(rooms[i].items, Limit(i), e) = {}
                /\ UNCHANGED <<old, oldNext>>
             \/ \E x \in GiveWay(rooms[i].items, Limit(i), e) : Retire(x, now)
          /\ rooms' = [rooms EXCEPT ![i].items = Added(rooms[i].items, Limit(i), e)]
    BY <2>0
  <2>2. section.at = "parse" /\ now' = now /\ section # Free
    BY <1>5 DEF Add, Free
  <2> DEFINE items == rooms[i].items
             added == Added(items, Limit(i), e)
             gone == GiveWay(items, Limit(i), e)
  <2>3. i \in Sets /\ rooms[i] \in Room
    BY <1>0 DEF Section
  <2>4. /\ items \subseteq Emote /\ \A x, y \in items : x.name = y.name => x = y
        /\ \A x \in items : x.provider \in Nat /\ x.name \in Nat
    BY <1>0, <2>3, EmotesAssumption DEF TypeOK, SetOK, Room, Emote
  <2>5. /\ gone \subseteq items /\ \A x, y \in gone : x = y
        /\ items \ gone \subseteq added
    <3>1. items \ gone \subseteq added
      BY DEF Added
    <3> HIDE DEF items, added
    <3>2. gone \subseteq items /\ \A x, y \in gone : x = y
      BY <2>4, GiveWayFacts
    <3>3. QED
      BY <3>1, <3>2
  <2>6. /\ rooms'[i].items = added
        /\ \A k \in Sets : k # i => rooms'[k] = rooms[k]
    <3>1. rooms' = [rooms EXCEPT ![i] = [rooms[i] EXCEPT !.items = added]]
      BY <2>1
    <3> HIDE DEF added
    <3>2. [rooms[i] EXCEPT !.items = added].items = added
      BY <2>3 DEF Room
    <3>3. QED
      BY <1>0, <2>3, <3>1, <3>2
  <2>7. CASE gone = {} /\ UNCHANGED <<old, oldNext>>
    <3>1. \A k \in Sets : rooms[k].items \subseteq rooms'[k].items
      BY <2>5, <2>6, <2>7 DEF items
    <3>2. QED
      BY <1>0, <2>2, <2>7, <3>1, OnlyAge
  <2>8. CASE \E x \in gone : Retire(x, now)
    <3>1. PICK x \in gone : Retire(x, now)
      BY <2>8
    <3>2. x \in Emote
      BY <2>4, <2>5
    <3>3. \A k \in Sets : \A y \in rooms[k].items : y = x \/ y \in rooms'[k].items
      BY <2>5, <2>6 DEF items
    <3>4. now - now <= MaxDelay
      BY <1>0, BoundsAssumption
    <3>5. QED
      BY <1>0, <2>2, <3>1, <3>2, <3>3, <3>4, RetireServes
  <2>9. QED
    BY <2>1, <2>7, <2>8
<1>6. QED
  BY <1>2, <1>3, <1>4, <1>5 DEF Next

----------------------------------------------------------------------------
(* Theorems of the specification                                           *)

\* Hence it always holds.
LEMMA AlwaysIInv == Spec => []IInv
BY InitInv, StepInv, PTL DEF Spec

\* Every variable stays in its type; a set keeps within its limit, whatever the
\* providers list, and has a name once (add_emote_locked).
THEOREM TypeCorrect == Spec => []TypeOK
<1>1. IInv => TypeOK
  BY DEF IInv
<1>2. QED
  BY <1>1, AlwaysIInv, PTL

\* However the hash collides, one number never stands for two images that are
\* known at a time (identity_available_locked).
THEOREM AlwaysOneImagePerNumber == Spec => []OneImagePerNumber
<1>1. IInv => OneImagePerNumber
  BY DEF IInv
<1>2. QED
  BY <1>1, AlwaysIInv, PTL

\* A number that is drawn is lost only to clearing, to age, or to a full turn
\* of the ring (retire_emote_locked, expire_locked).
THEOREM AlwaysKeepsServed == Spec => KeepsServed
<1>1. IInv /\ [Next]_vars =>
        [\A n \in Numbers :
           IsServed(n) /\ ~IsServed(n)'
           => \/ ClearCache
              \/ /\ Served(n) = {}
                 /\ \/ \A j \in Kept(n) : now' - old[j].retiredAt >= HistorySeconds
                    \/ section # Free /\ Kept(n) = {oldNext}]_vars
  BY StepKeepsServed
<1>2. QED
  BY <1>1, AlwaysIInv, PTL DEF Spec, KeepsServed

============================================================================
