-------------------------- MODULE AdSegmentsProofs --------------------------
(***************************************************************************)
(* What the ring of ad segments promises, for a ring of any size, any      *)
(* lifetime, and any number of streams, threads and requests.              *)
(***************************************************************************)
EXTENDS AdSegments, TLAPS

\* The invariant holds of the empty ring and idle threads.
LEMMA InitInv == Init => IInv
<1> SUFFICES ASSUME Init PROVE IInv
  OBVIOUS
<1> USE SegmentsAssumption, BoundsAssumption DEF Init
<1>1. TypeOK
  <2>1. ring \in [Slots -> Entry] /\ next \in Slots
    BY DEF Slots, Entry, EmptyEntry
  <2>2. strip \in [Strippers -> Stripper]
    BY DEF Stripper, IdleStripper
  <2>3. load \in [Loads -> Load]
    BY DEF Load, IdleLoad
  <2>4. marks \in [Segments -> Mark]
    BY DEF Mark, NoMark, Slots
  <2>5. QED
    BY <2>1, <2>2, <2>3, <2>4 DEF TypeOK, IdleStripper
<1>2. Marks
  BY DEF Marks, MarkOK, NoMark
<1>3. Entries
  BY DEF Entries, EntryOK, EmptyEntry
<1>4. Strippings
  BY DEF Strippings, StripperOK, IdleStripper
<1>5. ShownMarked /\ AskedBefore
  BY DEF ShownMarked, AskedBefore, IdleLoad
<1>6. QED
  BY <1>1, <1>2, <1>3, <1>4, <1>5 DEF IInv

----------------------------------------------------------------------------
(* Threads                                                                 *)

\* Taking the next slot moves every other entry one further away.
LEMMA NextSlot ==
  ASSUME next \in Slots, NEW s, Put(s)
  PROVE  /\ next' \in Slots
         /\ Distance(next, next') = 0
         /\ \A i \in Slots : i # next => Distance(i, next') = Distance(i, next) + 1
         /\ Distance(next, next) = MaxSegments - 1
         /\ \A i \in Slots : Distance(i, next) \in 0 .. MaxSegments - 1
BY BoundsAssumption DEF Put, Slots, Distance

\* A new entry at the slot whose turn it is.
LEMMA RememberInv ==
  ASSUME TypeOK, Marks, Entries, NEW s \in Ads, Remember(s), now' = now
  PROVE  /\ ring' \in [Slots -> Entry] /\ next' \in Slots /\ marks' \in [Segments -> Mark]
         /\ Marks' /\ Entries'
         /\ marks'[s].at > 0
         /\ \A z \in Segments : marks[z].at > 0 => marks'[z].at > 0
<1> USE SegmentsAssumption, BoundsAssumption
<1>0. s \in Segments /\ next \in Slots
  BY DEF Segments, TypeOK
<1>1. ring' \in [Slots -> Entry]
  BY <1>0 DEF TypeOK, Remember, Put, Entry
<1>2. /\ ring'[next] = [url |-> s, created |-> now]
      /\ \A i \in Slots : i # next => ring'[i] = ring[i]
  BY <1>0 DEF TypeOK, Remember, Put
<1>4. marks'[s] = [slot |-> next, at |-> now, since |-> 0]
  BY <1>0 DEF Remember, Marked
<1>5. \A z \in Segments \ {s} :
        marks'[z] = [marks[z] EXCEPT !.since = IF @ < MaxSegments THEN @ + 1 ELSE @]
  BY <1>0 DEF Remember, Marked
<1>6. \A z \in Segments \ {s} :
        /\ marks'[z] \in Mark
        /\ marks'[z].slot = marks[z].slot /\ marks'[z].at = marks[z].at
        /\ marks'[z].since < MaxSegments => marks'[z].since = marks[z].since + 1
  <2> SUFFICES ASSUME NEW z \in Segments \ {s}
               PROVE  /\ marks'[z] \in Mark
                      /\ marks'[z].slot = marks[z].slot /\ marks'[z].at = marks[z].at
                      /\ marks'[z].since < MaxSegments => marks'[z].since = marks[z].since + 1
    OBVIOUS
  <2> DEFINE n == IF marks[z].since < MaxSegments THEN marks[z].since + 1 ELSE marks[z].since
  <2>1. marks[z] \in Mark /\ marks'[z] = [marks[z] EXCEPT !.since = n]
    BY <1>5 DEF TypeOK
  <2>2. n \in 0 .. MaxSegments /\ (n < MaxSegments => n = marks[z].since + 1)
    BY <2>1 DEF Mark
  <2> HIDE DEF n
  <2>3. QED
    BY <2>1, <2>2 DEF Mark
<1>3. marks' \in [Segments -> Mark]
  <2>1. marks'[s] \in Mark
    BY <1>0, <1>4 DEF Mark, TypeOK
  <2>2. QED
    BY <2>1, <1>6 DEF Remember, Marked
<1>7. Marks'
  <2> SUFFICES ASSUME NEW z \in Segments PROVE MarkOK(z)'
    BY DEF Marks
  <2>1. CASE z = s
    BY <2>1, <1>0, <1>2, <1>4, NextSlot DEF MarkOK, TypeOK, Remember
  <2>2. CASE z # s
    <3> SUFFICES ASSUME marks'[z].since < MaxSegments
                 PROVE  /\ marks'[z].at \in 1 .. now'
                        /\ Distance(marks'[z].slot, next') = marks'[z].since
                        /\ \/ ring'[marks'[z].slot] = [url |-> z, created |-> marks'[z].at]
                           \/ ring'[marks'[z].slot] = EmptyEntry /\ now' - marks'[z].at > Lifetime
      BY DEF MarkOK
    <3>1. marks[z] \in Mark
      BY DEF TypeOK
    <3>2. marks[z].since < MaxSegments - 1 /\ marks'[z].since = marks[z].since + 1
      BY <2>2, <1>3, <1>6, <3>1 DEF Mark
    <3>3. MarkOK(z) /\ marks[z].since < MaxSegments
      BY <3>1, <3>2 DEF Marks, Mark
    <3>4. Distance(marks[z].slot, next) = marks[z].since
      BY <3>3 DEF MarkOK
    <3>5. marks[z].slot # next
      BY <3>1, <3>2, <3>4, <1>0, NextSlot DEF Remember, Mark
    <3>6. marks[z].slot \in Slots
      BY <3>1 DEF Mark
    <3>7. Distance(marks[z].slot, next') = Distance(marks[z].slot, next) + 1
      BY <3>5, <3>6, <1>0, NextSlot DEF Remember
    <3>8. ring'[marks[z].slot] = ring[marks[z].slot]
      BY <3>5, <3>6, <1>2
    <3>9. marks'[z].slot = marks[z].slot /\ marks'[z].at = marks[z].at
      BY <2>2, <1>6
    <3>10. QED
      BY <3>2, <3>3, <3>4, <3>7, <3>8, <3>9 DEF MarkOK
  <2>3. QED
    BY <2>1, <2>2
<1>8. Entries'
  <2> SUFFICES ASSUME NEW i \in Slots PROVE EntryOK(i)'
    BY DEF Entries
  <2>1. CASE i = next
    BY <2>1, <1>2, <1>4 DEF EntryOK, TypeOK
  <2>2. CASE i # next /\ ring[i].url = s
    BY <2>2, <1>2, <1>4 DEF EntryOK, Entries
  <2>3. CASE i # next /\ ring[i].url # s
    <3>1. ring'[i] = ring[i] /\ EntryOK(i)
      BY <2>3, <1>2 DEF Entries
    <3>2. ring[i].url # None => ring[i].url \in Segments \ {s}
      BY <2>3, <3>1 DEF EntryOK, Segments
    <3>3. QED
      BY <3>1, <3>2, <1>6 DEF EntryOK
  <2>4. QED
    BY <2>1, <2>2, <2>3
<1>9. marks'[s].at > 0
  BY <1>4 DEF TypeOK
<1>10. \A z \in Segments : marks[z].at > 0 => marks'[z].at > 0
  BY <1>6, <1>9
<1>11. next' \in Slots
  BY <1>0, NextSlot DEF Remember
<1>12. QED
  BY <1>1, <1>3, <1>7, <1>8, <1>9, <1>10, <1>11

\* Nothing is put: the ring is as good as before.
LEMMA RingUnchanged ==
  ASSUME Marks, Entries, UNCHANGED <<ring, next, marks, now>>
  PROVE  Marks' /\ Entries'
BY DEF Marks, Entries, MarkOK, EntryOK, Distance

\* A playlist that starts to be stripped keeps the invariant.
LEMMA StripInv ==
  ASSUME IInv, NEW t \in Strippers, NEW list \in Playlists, Strip(t, list)
  PROVE  IInv'
<1> USE DEF IInv
<1>1. list \in Seq(Segments) /\ list # <<>>
  BY PlaylistsAssumption
<1>2. Len(list) \in Nat \ {0}
  BY <1>1
<1> DEFINE new == [at |-> "extinf", playlist |-> list, entry |-> 1, cacheNextUri |-> FALSE]
<1>3. /\ new.at = "extinf" /\ new.playlist = list /\ new.entry = 1
      /\ new.cacheNextUri = FALSE
  OBVIOUS
<1>4. strip' = [strip EXCEPT ![t] = new]
  BY DEF Strip, new
<1>5. new \in Stripper
  BY DEF Stripper
<1> HIDE DEF new
<1>6. TypeOK'
  <2>1. strip' \in [Strippers -> Stripper]
    BY <1>4, <1>5 DEF TypeOK
  <2>2. strip'[t].entry \in 1 .. Len(strip'[t].playlist)
    BY <1>2, <1>3, <1>4 DEF TypeOK
  <2>3. \A z \in Strippers : z # t => strip'[z] = strip[z]
    BY <1>4 DEF TypeOK
  <2>4. QED
    BY <2>1, <2>2, <2>3 DEF TypeOK, Strip
<1>7. Marks' /\ Entries'
  BY RingUnchanged DEF Strip
<1>8. Strippings'
  BY <1>3, <1>4 DEF Strippings, StripperOK, Strip, TypeOK
<1>9. ShownMarked' /\ AskedBefore'
  BY DEF ShownMarked, AskedBefore, Strip
<1>10. QED
  BY <1>6, <1>7, <1>8, <1>9

\* Reading an EXTINF line keeps the invariant: the flag is set for ads.
LEMMA ExtinfInv ==
  ASSUME IInv, NEW t \in Strippers, Extinf(t)
  PROVE  IInv'
<1> USE DEF IInv
<1> DEFINE flag == strip[t].cacheNextUri \/ strip[t].playlist[strip[t].entry] \in Ads
           new == [strip[t] EXCEPT !.at = "uri", !.cacheNextUri = flag]
<1>1. strip[t] \in Stripper
  BY DEF TypeOK
<1>2. /\ new.at = "uri" /\ new.cacheNextUri = flag
      /\ new.playlist = strip[t].playlist /\ new.entry = strip[t].entry
      /\ new \in Stripper
  BY <1>1, Zenon DEF Stripper
<1>3. strip' = [strip EXCEPT ![t] = new]
  BY DEF Extinf, TypeOK
<1>4. flag <=> strip[t].playlist[strip[t].entry] \in Ads
  BY DEF Strippings, StripperOK, Extinf
<1> HIDE DEF new, flag
<1>5. TypeOK'
  BY <1>2, <1>3 DEF TypeOK, Extinf
<1>6. Marks' /\ Entries'
  BY RingUnchanged DEF Extinf
<1>7. Strippings'
  BY <1>2, <1>3, <1>4 DEF Strippings, StripperOK, Extinf, TypeOK
<1>8. ShownMarked' /\ AskedBefore'
  BY DEF ShownMarked, AskedBefore, Extinf
<1>9. QED
  BY <1>5, <1>6, <1>7, <1>8

\* The entry that is read, and the range of a playlist.
LEMMA Reading ==
  ASSUME TypeOK, NEW t \in Strippers, strip[t].at # "idle"
  PROVE  /\ strip[t] \in Stripper
         /\ strip[t].playlist \in Seq(Segments)
         /\ strip[t].entry \in 1 .. Len(strip[t].playlist)
         /\ Len(strip[t].playlist) \in Nat
         /\ strip[t].playlist[strip[t].entry] \in Segments
<1>1. strip[t] \in Stripper /\ strip[t].entry \in 1 .. Len(strip[t].playlist)
  BY DEF TypeOK
<1>2. strip[t].playlist \in Playlists \cup {<<>>}
  BY <1>1 DEF Stripper
<1>3. strip[t].playlist \in Seq(Segments)
  <2>1. <<>> \in Seq(Segments)
    OBVIOUS
  <2>2. Playlists \subseteq Seq(Segments)
    BY PlaylistsAssumption
  <2>3. QED
    BY <1>2, <2>1, <2>2, Zenon
<1>4. QED
  BY <1>1, <1>3

\* What reading the URI does to the ring.
LEMMA UriRing ==
  ASSUME IInv, NEW t \in Strippers, Uri(t)
  PROVE  /\ ring' \in [Slots -> Entry] /\ next' \in Slots /\ marks' \in [Segments -> Mark]
         /\ Marks' /\ Entries'
         /\ strip[t].playlist[strip[t].entry] \in Ads
              => marks'[strip[t].playlist[strip[t].entry]].at > 0
         /\ \A z \in Segments : marks[z].at > 0 => marks'[z].at > 0
<1> DEFINE s == strip[t].playlist[strip[t].entry]
<1>1. TypeOK /\ Marks /\ Entries
  BY DEF IInv
<1>2. strip[t].at = "uri" /\ now' = now
  BY DEF Uri
<1>3. strip[t].cacheNextUri <=> s \in Ads
  BY <1>2 DEF IInv, Strippings, StripperOK
<1>4. CASE s \in Ads
  <2>1. Remember(s)
    BY <1>3, <1>4 DEF Uri
  <2> HIDE DEF s
  <2>2. /\ ring' \in [Slots -> Entry] /\ next' \in Slots /\ marks' \in [Segments -> Mark]
        /\ Marks' /\ Entries'
        /\ marks'[s].at > 0
        /\ \A z \in Segments : marks[z].at > 0 => marks'[z].at > 0
    BY <1>1, <1>2, <1>4, <2>1, RememberInv
  <2>3. QED
    BY <2>2 DEF s
<1>5. CASE s \notin Ads
  <2>1. UNCHANGED <<ring, next, marks, now>>
    BY <1>2, <1>3, <1>5 DEF Uri
  <2>2. Marks' /\ Entries'
    BY <1>1, <2>1, RingUnchanged
  <2>3. QED
    BY <1>1, <1>5, <2>1, <2>2 DEF TypeOK
<1>6. QED
  BY <1>4, <1>5

\* Reading a URL keeps the invariant: an ad is put into the ring, and the last
\* one gives the playlist to the player.
LEMMA UriInv ==
  ASSUME IInv, NEW t \in Strippers, Uri(t)
  PROVE  IInv'
<1> DEFINE list == strip[t].playlist
           entry == strip[t].entry
<1>1. TypeOK /\ Strippings /\ ShownMarked /\ AskedBefore /\ strip[t].at = "uri"
  BY DEF IInv, Uri
<1>2. /\ strip[t] \in Stripper /\ list \in Seq(Segments)
      /\ entry \in 1 .. Len(list) /\ Len(list) \in Nat
  BY <1>1, Reading
<1>3. /\ ring' \in [Slots -> Entry] /\ next' \in Slots /\ marks' \in [Segments -> Mark]
      /\ Marks' /\ Entries'
      /\ list[entry] \in Ads => marks'[list[entry]].at > 0
      /\ \A z \in Segments : marks[z].at > 0 => marks'[z].at > 0
  BY UriRing
<1>4. \A k \in 1 .. entry : list[k] \in Segments /\ (list[k] \in Ads => marks'[list[k]].at > 0)
  <2> TAKE k \in 1 .. entry
  <2>1. k \in 1 .. Len(list)
    BY <1>2
  <2>2. list[k] \in Segments
    BY <1>2, <2>1
  <2>3. CASE k = entry
    BY <2>2, <2>3, <1>3
  <2>4. CASE k # entry
    <3>1. k \in 1 .. entry - 1
      BY <1>2, <2>4
    <3>2. list[k] \in Ads => marks[list[k]].at > 0
      BY <1>1, <3>1 DEF Strippings, StripperOK
    <3>3. QED
      BY <2>2, <3>2, <1>3
  <2>5. QED
    BY <2>3, <2>4
<1>5. UNCHANGED <<now, load>>
  BY DEF Uri
<1>6. Advance(t, FALSE)
  BY DEF Uri
<1>7. \A z \in Strippers : z # t => strip'[z] = strip[z]
  BY <1>1, <1>6 DEF Advance, TypeOK
<1>8. \A z \in Strippers : z # t => StripperOK(z)'
  <2> SUFFICES ASSUME NEW z \in Strippers, z # t PROVE StripperOK(z)'
    OBVIOUS
  <2>1. StripperOK(z) /\ strip'[z] = strip[z]
    BY <1>1, <1>7 DEF Strippings
  <2>2. ASSUME strip[z].at # "idle", NEW k \in 1 .. strip[z].entry - 1
        PROVE  strip[z].playlist[k] \in Segments
    <3>1. /\ strip[z].playlist \in Seq(Segments) /\ Len(strip[z].playlist) \in Nat
          /\ strip[z].entry \in 1 .. Len(strip[z].playlist)
      BY <1>1, <2>2, Reading
    <3>2. k \in 1 .. Len(strip[z].playlist)
      BY <3>1
    <3>3. QED
      BY <3>1, <3>2
  <2>3. QED
    BY <2>1, <2>2, <1>3 DEF StripperOK
<1>9. CASE entry < Len(list)
  <2> DEFINE new == [strip[t] EXCEPT !.at = "extinf", !.entry = @ + 1, !.cacheNextUri = FALSE]
  <2>1. strip' = [strip EXCEPT ![t] = new] /\ shown' = shown
    BY <1>1, <1>6, <1>9 DEF Advance, TypeOK
  <2>2. /\ new.at = "extinf" /\ new.entry = entry + 1 /\ new.cacheNextUri = FALSE
        /\ new.playlist = list /\ new \in Stripper
    <3>1. strip[t] \in Stripper /\ entry + 1 \in Nat \ {0}
      BY <1>2
    <3> DEFINE n == entry + 1
    <3>2. new = [strip[t] EXCEPT !.at = "extinf", !.entry = n, !.cacheNextUri = FALSE]
      OBVIOUS
    <3> HIDE DEF n, new
    <3>3. /\ new.at = "extinf" /\ new.entry = n /\ new.cacheNextUri = FALSE
          /\ new.playlist = list /\ new \in Stripper
      BY <3>1, <3>2, Zenon DEF Stripper, n
    <3>4. QED
      BY <3>3 DEF n
  <2> HIDE DEF new
  <2>3. strip' \in [Strippers -> Stripper] /\ strip'[t] = new
    BY <1>1, <2>1, <2>2 DEF TypeOK
  <2>4. entry + 1 \in 1 .. Len(list) /\ 1 .. (entry + 1) - 1 = 1 .. entry
    BY <1>2, <1>9
  <2>5. TypeOK'
    BY <1>1, <1>3, <1>5, <1>7, <2>1, <2>2, <2>3, <2>4 DEF TypeOK
  <2>6. StripperOK(t)'
    BY <1>4, <2>2, <2>3, <2>4 DEF StripperOK
  <2>7. ShownMarked' /\ AskedBefore'
    BY <1>1, <1>3, <1>5, <2>1 DEF ShownMarked, AskedBefore, TypeOK
  <2>8. QED
    BY <1>3, <1>8, <2>5, <2>6, <2>7 DEF IInv, Strippings
<1>10. CASE ~(entry < Len(list))
  <2>1. strip' = [strip EXCEPT ![t] = IdleStripper] /\ shown' = shown \cup Range(list)
    BY <1>6, <1>10 DEF Advance
  <2>2. strip' \in [Strippers -> Stripper] /\ strip'[t] = IdleStripper
    BY <1>1, <2>1 DEF TypeOK, IdleStripper, Stripper
  <2>3. entry = Len(list)
    BY <1>2, <1>10
  <2>4. Range(list) = {list[k] : k \in 1 .. entry}
    BY <1>2, <2>3 DEF Range
  <2>5. Range(list) \subseteq Segments
    BY <1>4, <2>4
  <2>6. TypeOK'
    BY <1>1, <1>3, <1>5, <1>7, <2>1, <2>2, <2>5 DEF TypeOK, IdleStripper
  <2>7. StripperOK(t)'
    BY <2>2 DEF StripperOK, IdleStripper
  <2>8. ShownMarked' /\ AskedBefore'
    BY <1>1, <1>3, <1>4, <1>5, <2>1, <2>4 DEF ShownMarked, AskedBefore, TypeOK
  <2>9. QED
    BY <1>3, <1>8, <2>6, <2>7, <2>8 DEF IInv, Strippings
<1>11. QED
  BY <1>9, <1>10

----------------------------------------------------------------------------
(* Requests and the clock                                                  *)

\* A request that goes on leaves the ring and the threads alone.
LEMMA AskInv ==
  ASSUME IInv, NEW q \in Loads, NEW s \in Segments, NEW at \in {"canInit", "startLoading", "loader"},
         Ask(q, at, s)
  PROVE  IInv'
<1> USE DEF IInv
<1>1. load' \in [Loads -> Load]
  BY DEF TypeOK, Ask, Load
<1>2. TypeOK'
  BY <1>1 DEF TypeOK, Ask
<1>3. Marks' /\ Entries'
  BY RingUnchanged DEF Ask
<1>4. Strippings' /\ ShownMarked'
  BY DEF Strippings, StripperOK, ShownMarked, Ask
<1>5. AskedBefore'
  BY SegmentsAssumption DEF AskedBefore, Ask, TypeOK
<1>6. QED
  BY <1>2, <1>3, <1>4, <1>5

\* A test empties only what is older than the clock says, since the reading it
\* goes by is not newer.
LEMMA TestInv ==
  ASSUME IInv, NEW q \in Loads, load[q].at # "idle", NEW found, NEW lost,
         {found, lost} \subseteq {"taken", "blank", "network"}, Test(q, found, lost)
  PROVE  IInv'
<1> USE BoundsAssumption DEF IInv
<1> DEFINE time == load[q].asked
<1>1. time \in Nat /\ time <= now /\ now \in Nat
  BY DEF AskedBefore, TypeOK, Load
<1>2. \A i \in Slots : ring'[i] = IF Expired(ring[i], time) THEN EmptyEntry ELSE ring[i]
  BY DEF Test
<1>3. \A i \in Slots : ring[i] \in Entry
  BY DEF TypeOK
<1>4. ring' \in [Slots -> Entry]
  BY <1>3, SegmentsAssumption DEF Test, Entry, EmptyEntry
<1>5. /\ load' \in [Loads -> Load]
      /\ \A z \in Loads : /\ load'[z].asked = load[z].asked
                          /\ load'[z].segment = load[z].segment
                          /\ load[z].at = "idle" => load'[z].at = "idle"
  BY DEF Test, TypeOK, Load
<1>6. UNCHANGED <<next, now, strip, marks, shown>>
  BY DEF Test
<1> HIDE DEF time
<1>7. TypeOK'
  BY <1>4, <1>5, <1>6 DEF TypeOK
<1>8. Marks'
  <2> SUFFICES ASSUME NEW s \in Segments, marks[s].since < MaxSegments PROVE MarkOK(s)'
    BY <1>6 DEF Marks, MarkOK
  <2>1. marks[s].slot \in Slots /\ MarkOK(s) /\ marks[s].at \in Nat /\ s # None
    BY SegmentsAssumption DEF TypeOK, Mark, Marks
  <2>2. CASE ring[marks[s].slot] = EmptyEntry
    BY <1>2, <1>6, <2>1, <2>2 DEF MarkOK, Expired
  <2>3. CASE ring[marks[s].slot] = [url |-> s, created |-> marks[s].at]
    <3>1. Expired(ring[marks[s].slot], time) => now - marks[s].at > Lifetime
      BY <1>1, <2>1, <2>3 DEF Expired
    <3>2. QED
      BY <1>2, <1>6, <2>1, <2>3, <3>1 DEF MarkOK
  <2>4. QED
    BY <2>1, <2>2, <2>3 DEF MarkOK
<1>9. Entries'
  BY <1>2, <1>6 DEF Entries, EntryOK, EmptyEntry
<1>10. Strippings' /\ ShownMarked'
  BY <1>6 DEF Strippings, StripperOK, ShownMarked
<1>11. AskedBefore'
  BY <1>5, <1>6 DEF AskedBefore
<1>12. QED
  BY <1>7, <1>8, <1>9, <1>10, <1>11

\* Time only makes entries older.
LEMMA TickInv == ASSUME IInv, Tick PROVE IInv'
<1> USE BoundsAssumption DEF IInv
<1>1. now' = now + 1 /\ now \in Nat \ {0} /\ UNCHANGED <<ring, next, strip, load, marks, shown>>
  BY DEF Tick, TypeOK
<1>2. TypeOK'
  BY <1>1 DEF TypeOK
<1>3. \A s \in Segments : marks[s] \in Mark
  BY DEF TypeOK
<1>4. Marks'
  BY <1>1, <1>3 DEF Marks, MarkOK, Mark
<1>5. Entries'
  BY <1>1 DEF Entries, EntryOK
<1>6. Strippings' /\ ShownMarked'
  BY <1>1 DEF Strippings, StripperOK, ShownMarked
<1>7. AskedBefore'
  BY <1>1 DEF AskedBefore, TypeOK, Load
<1>8. QED
  BY <1>2, <1>4, <1>5, <1>6, <1>7

----------------------------------------------------------------------------
(* The specification                                                       *)

\* Every step keeps the invariant.
LEMMA NextInv == IInv /\ [Next]_vars => IInv'
<1> SUFFICES ASSUME IInv, [Next]_vars PROVE IInv'
  OBVIOUS
<1>1. ASSUME NEW t \in Strippers, NEW list \in Playlists, Strip(t, list) PROVE IInv'
  BY <1>1, StripInv
<1>2. ASSUME NEW t \in Strippers, Extinf(t) PROVE IInv'
  BY <1>2, ExtinfInv
<1>3. ASSUME NEW t \in Strippers, Uri(t) PROVE IInv'
  BY <1>3, UriInv
<1>4. ASSUME NEW q \in Loads, NEW s \in Segments, NEW at \in {"canInit", "loader"},
             Request(q, s, at)
      PROVE  IInv'
  BY <1>4, AskInv DEF Request
<1>5. ASSUME NEW q \in Loads, CanInit(q) PROVE IInv'
  BY <1>5, TestInv DEF CanInit
<1>6. ASSUME NEW q \in Loads, StartLoading(q) PROVE IInv'
  <2>1. load[q].segment \in Segments
    BY <1>6 DEF StartLoading, IInv, TypeOK, AskedBefore, Load
  <2>2. QED
    BY <1>6, <2>1, AskInv DEF StartLoading
<1>7. ASSUME NEW q \in Loads, Answer(q) PROVE IInv'
  BY <1>7, TestInv DEF Answer
<1>8. CASE Tick
  BY <1>8, TickInv
<1>9. CASE UNCHANGED vars
  <2>1. UNCHANGED <<ring, next, now, strip, load, marks, shown>>
    BY <1>9 DEF vars
  <2>2. Marks' /\ Entries'
    BY <2>1, RingUnchanged DEF IInv
  <2>3. QED
    BY <2>1, <2>2 DEF IInv, TypeOK, Strippings, StripperOK, ShownMarked, AskedBefore
<1>10. QED
  BY <1>1, <1>2, <1>3, <1>4, <1>5, <1>6, <1>7, <1>8, <1>9 DEF Next

\* Hence it always holds.
LEMMA AlwaysInv == Spec => []IInv
BY InitInv, NextInv, PTL DEF Spec

\* The variables hold what their C types hold: in particular no index leaves
\* the ring, for any size of it.
THEOREM TypeCorrect == Spec => []TypeOK
<1>1. IInv => TypeOK
  BY DEF IInv
<1>2. QED
  BY <1>1, AlwaysInv, PTL

\* A recent mark points to its entry.
LEMMA HeldInv == IInv => RecentHeld
<1> SUFFICES ASSUME IInv, NEW s \in Segments, Recent(s)
             PROVE  ring[marks[s].slot] = [url |-> s, created |-> marks[s].at]
  BY DEF RecentHeld
<1>1. MarkOK(s) /\ marks[s] \in Mark /\ now \in Nat
  BY DEF IInv, Marks, TypeOK
<1>2. QED
  BY <1>1, BoundsAssumption DEF MarkOK, Recent, Mark

\* A segment whose last entry is recent is in the ring.
THEOREM AlwaysRecentHeld == Spec => []RecentHeld
BY HeldInv, AlwaysInv, PTL

\* Only a test answers a request.
LEMMA OnlyTestsAnswer ==
  ASSUME IInv, Next, NEW q \in Loads,
         load[q].at # load'[q].at, load'[q].at \in {"blank", "network"}
  PROVE  /\ load[q].at # "idle"
         /\ Test(q, "taken", "network") \/ Test(q, "blank", "network")
<1>1. load \in [Loads -> Load]
  BY DEF IInv, TypeOK
<1>2. ASSUME NEW t \in Strippers, NEW list \in Playlists, Strip(t, list) PROVE FALSE
  BY <1>2 DEF Strip
<1>3. ASSUME NEW t \in Strippers, Extinf(t) \/ Uri(t) PROVE FALSE
  BY <1>3 DEF Extinf, Uri
<1>4. ASSUME NEW z \in Loads, NEW s, NEW at \in {"canInit", "startLoading", "loader"}, Ask(z, at, s)
      PROVE  FALSE
  BY <1>1, <1>4 DEF Ask
<1>5. ASSUME NEW z \in Loads, NEW found, Test(z, found, "network") PROVE z = q
  BY <1>1, <1>5 DEF Test
<1>6. CASE Tick
  BY <1>6 DEF Tick
<1>7. ASSUME NEW z \in Loads, NEW s \in Segments, NEW at \in {"canInit", "loader"},
             Request(z, s, at)
      PROVE  FALSE
  BY <1>4, <1>7 DEF Request
<1>8. ASSUME NEW z \in Loads, CanInit(z)
      PROVE  load[q].at # "idle" /\ Test(q, "taken", "network")
  BY <1>5, <1>8 DEF CanInit
<1>9. ASSUME NEW z \in Loads, StartLoading(z) PROVE FALSE
  BY <1>4, <1>9 DEF StartLoading
<1>10. ASSUME NEW z \in Loads, Answer(z)
      PROVE  load[q].at # "idle" /\ Test(q, "blank", "network")
  BY <1>5, <1>10 DEF Answer
<1>11. QED
  BY <1>2, <1>3, <1>6, <1>7, <1>8, <1>9, <1>10 DEF Next

\* A step that gives a shown ad to the network finds its mark no longer recent.
LEMMA LeakStep ==
  ASSUME IInv, [Next]_vars, NEW q \in Loads,
         load[q].at # "network", load'[q].at = "network",
         load[q].segment \in shown \cap Ads
  PROVE  marks[load[q].segment].at > 0 /\ ~Recent(load[q].segment)
<1> DEFINE s == load[q].segment
<1>1. Next
  BY DEF vars
<1>2. Test(q, "taken", "network") \/ Test(q, "blank", "network")
  BY <1>1, OnlyTestsAnswer
<1>3. s \in Segments /\ marks[s].at > 0 /\ marks[s] \in Mark
  BY DEF IInv, ShownMarked, TypeOK
<1>4. load[q].asked \in Nat /\ load[q].asked <= now /\ now \in Nat
  BY DEF IInv, AskedBefore, TypeOK, Load
<1>5. ASSUME NEW i \in Slots, ring[i].url = s PROVE Expired(ring[i], load[q].asked)
  <2>1. load \in [Loads -> Load]
    BY DEF IInv, TypeOK
  <2>2. ~Cached(s, load[q].asked)
    BY <1>2, <2>1 DEF Test, Load
  <2>3. QED
    BY <1>5, <2>2 DEF Cached
<1>6. ASSUME Recent(s) PROVE FALSE
  <2>1. ring[marks[s].slot] = [url |-> s, created |-> marks[s].at]
    BY <1>3, <1>6, HeldInv DEF RecentHeld
  <2>2. marks[s].slot \in Slots
    BY <1>3 DEF Mark
  <2>3. load[q].asked - marks[s].at > Lifetime
    BY <1>5, <2>1, <2>2 DEF Expired
  <2>4. QED
    BY <1>3, <1>4, <1>6, <2>3, BoundsAssumption DEF Recent, Mark
<1>7. QED
  BY <1>3, <1>6

\* The real content of an ad that was stripped and shown is fetched only if it
\* was forgotten by age or by a full round of the ring.
THEOREM AlwaysLeakExplained == Spec => LeakExplained
<1> DEFINE Leaks(q) == /\ load[q].at # "network" /\ load'[q].at = "network"
                       /\ load[q].segment \in shown \cap Ads
           Explained == \A q \in Loads :
             Leaks(q) => marks[load[q].segment].at > 0 /\ ~Recent(load[q].segment)
<1>1. IInv /\ [Next]_vars => [Explained]_vars
  BY LeakStep
<1>2. QED
  BY <1>1, AlwaysInv, PTL DEF Spec, LeakExplained

\* A step that answers with a blank does so for a remembered ad.
LEMMA BlankStep ==
  ASSUME IInv, [Next]_vars, NEW q \in Loads, load[q].at # "blank", load'[q].at = "blank"
  PROVE  /\ load[q].segment \in Ads
         /\ load[q].asked - marks[load[q].segment].at <= Lifetime
<1> DEFINE s == load[q].segment
<1>1. Next
  BY DEF vars
<1>2. load[q].at # "idle" /\ (Test(q, "taken", "network") \/ Test(q, "blank", "network"))
  BY <1>1, OnlyTestsAnswer
<1>3. load \in [Loads -> Load] /\ marks \in [Segments -> Mark]
  BY DEF IInv, TypeOK
<1>4. Cached(s, load[q].asked) /\ load[q].at # "idle"
  BY <1>2, <1>3 DEF Test, Load
<1>5. PICK i \in Slots : ring[i].url = s /\ ~Expired(ring[i], load[q].asked)
  BY <1>4 DEF Cached
<1>6. s # None /\ EntryOK(i) /\ ring[i] \in Entry
  BY <1>4 DEF IInv, AskedBefore, Entries, TypeOK
<1>7. s \in Ads /\ ring[i].created <= marks[s].at /\ ring[i].created \in Nat
  BY <1>5, <1>6 DEF EntryOK, Entry
<1>8. load[q].asked - ring[i].created <= Lifetime /\ load[q].asked \in Nat
  BY <1>3, <1>5, <1>6, <1>7, BoundsAssumption DEF Expired, Load
<1>9. marks[s].at \in Nat
  BY <1>3, <1>7 DEF Mark, Segments
<1>10. QED
  BY <1>7, <1>8, <1>9, BoundsAssumption

\* A blank answers an ad only, within the lifetime of its entry.
THEOREM AlwaysBlankJustified == Spec => BlankJustified
<1> DEFINE Justified == \A q \in Loads :
             load[q].at # "blank" /\ load'[q].at = "blank"
             => /\ load[q].segment \in Ads
                /\ load[q].asked - marks[load[q].segment].at <= Lifetime
<1>1. IInv /\ [Next]_vars => [Justified]_vars
  BY BlankStep
<1>2. QED
  BY <1>1, AlwaysInv, PTL DEF Spec, BlankJustified

============================================================================
