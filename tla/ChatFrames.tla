----------------------------- MODULE ChatFrames -----------------------------
\* Provider emotes in chat messages (TASEmotes.c): a WebSocket frame of IRC
\* lines is read, and to the emotes tag of a message go entries that name a
\* provider's image and the range of code points it replaces.
\*
\* A character of a message is a letter, two bytes wide or one, a mark, or a
\* blank.  The lines of a frame are rewritten one by one, each under one
\* g_emote_lock, so that the sets may change between two of them.
\*
\* A definition introduced as a fault is a plausible mistake in the one after
\* it; no specification uses it.
EXTENDS Integers, Sequences, FiniteSets, SequencesExt

CONSTANTS
    Narrow, Wide,   \* letters
    Marks,          \* boundary_punctuation
    Blanks,         \* ' ' and '\t'
    Frames,         \* sequences of lines
    NameSets,       \* what the names of the room and the global ones may be
    MaxWord,        \* bytes of a word that is looked up (96)
    MaxAdditions,   \* entries the buffer of a line holds
    MaxGrowth       \* entries a frame has room for

ASSUME FramesAssumption ==
    /\ {MaxWord, MaxAdditions, MaxGrowth} \subseteq Nat
    /\ Frames \subseteq Seq([body : Seq(Narrow \cup Wide \cup Marks \cup Blanks),
                            natives : SUBSET {n \in [first : Nat, last : Nat] : n.first <= n.last}])

VARIABLES
    frame,      \* the lines, as they came
    written,    \* those rewritten so far, each with the names it was read by
    names,      \* the names of the room, and the global ones
    delivered   \* what Twitch's handler gets, none before

frameVars == <<frame, written, names, delivered>>

FrameInit ==
    /\ frame \in Frames /\ written = <<>>
    /\ names \in NameSets
    /\ delivered = {}

\* The longest stretches of a text without a character of Sep, in order, by
\* the positions of their first and last characters, which count from 0: the
\* scan that skips what is in Sep and goes on to its next character.
Within(body, Sep, i) == i \in DOMAIN body /\ body[i] \notin Sep
RunFrom(body, Sep, i) ==
    [first |-> i - 1,
     last |-> (CHOOSE j \in i..Len(body) : /\ ~Within(body, Sep, j + 1)
                                           /\ \A k \in i..j : Within(body, Sep, k)) - 1]
RunsOf(body, Sep) ==
    FoldLeft(LAMBDA runs, i :
                IF Within(body, Sep, i) /\ ~Within(body, Sep, i - 1)
                THEN Append(runs, RunFrom(body, Sep, i)) ELSE runs,
             <<>>, [i \in DOMAIN body |-> i])

Text(body, r) == SubSeq(body, r.first + 1, r.last + 1)
Bytes(text) == FoldLeft(LAMBDA n, c : n + IF c \in Wide THEN 2 ELSE 1, 0, text)

\* find_word, in the room first.
Known(known, text) == text \in known.room \cup known.global
Owner(known, text) == IF text \in known.room THEN "room" ELSE "global"

\* A word without the marks around it.
Trimmed(body, r) ==
    LET kept == {i \in r.first..r.last : body[i + 1] \notin Marks}
    IN  IF kept = {} THEN r
        ELSE [first |-> CHOOSE i \in kept : \A k \in kept : i <= k,
              last |-> CHOOSE i \in kept : \A k \in kept : k <= i]

\* The part of a word that is a code: all of it, or what is left without its
\* marks; empty when neither is.
CodeIn(known, body, r) ==
    {q \in {r, Trimmed(body, r)} : /\ Bytes(Text(body, r)) <= MaxWord
                                   /\ Known(known, Text(body, q))
                                   /\ q # r => ~Known(known, Text(body, r))}

\* Fault: ranges that share one character do not overlap.
OverlapsInside(natives, r) == \E n \in natives : n.first < r.last /\ r.first < n.last

\* overlaps_native
Overlaps(natives, r) == \E n \in natives : n.first <= r.last /\ r.first <= n.last

Entry(known, body, r) ==
    [first |-> r.first, last |-> r.last,
     id |-> <<Owner(known, Text(body, r)), Text(body, r)>>]

\* The loop of rewrite_line: a word whose range overlaps Twitch's is passed
\* over, and the first one that does not fit any more ends it.
Found(known, line) ==
    FlattenSeq([i \in DOMAIN RunsOf(line.body, Blanks) |->
        SetToSeq({Entry(known, line.body, r) :
            r \in {r \in CodeIn(known, line.body, RunsOf(line.body, Blanks)[i]) :
                      ~Overlaps(line.natives, r)}})])
Additions(known, line) ==
    SubSeq(Found(known, line), 1,
           IF Len(Found(known, line)) > MaxAdditions THEN MaxAdditions ELSE Len(Found(known, line)))

\* How many entries the frame has got so far.
Growth(ls) == FoldLeft(LAMBDA n, l : n + Len(l.added), 0, ls)

\* rewrite_message, a line of it.
RewriteLine ==
    /\ delivered = {} /\ Len(written) < Len(frame)
    /\ written' = Append(written, [added |-> Additions(names, frame[Len(written) + 1]),
                                   by |-> names])
    /\ UNCHANGED <<frame, names, delivered>>

\* A frame that outgrows its buffer is delivered as it came.
Fitting(ls) == IF Growth(ls) > MaxGrowth THEN <<>> ELSE ls

Deliver ==
    /\ delivered = {}
    /\ Len(written) = Len(frame) \/ Growth(written) > MaxGrowth
    /\ delivered' = {[i \in DOMAIN frame |->
          IF i \in DOMAIN Fitting(written) THEN written[i]
          ELSE [added |-> <<>>, by |-> names]]}
    /\ UNCHANGED <<frame, written, names>>

\* A provider answers, or the sets are reloaded, between two lines.
NamesChange ==
    /\ names' \in NameSets
    /\ UNCHANGED <<frame, written, delivered>>

FrameNext == RewriteLine \/ Deliver \/ NamesChange
FrameSpec == FrameInit /\ [][FrameNext]_frameVars

-----------------------------------------------------------------------------
\* The codes of a message, said of every stretch of it: one that fills a word
\* and is known; or one that fills it but for marks, when the word is not known
\* itself and the stretch neither begins nor ends with a mark.
IsCode(known, body, r) ==
    LET outside(i) == body[i + 1] \in Blanks
        lo == CHOOSE i \in 0..r.first : /\ \A k \in i..r.first : ~outside(k)
                                        /\ i > 0 => outside(i - 1)
        hi == CHOOSE i \in r.last..Len(body) - 1 : /\ \A k \in r.last..i : ~outside(k)
                                                   /\ i < Len(body) - 1 => outside(i + 1)
        word == Text(body, [first |-> lo, last |-> hi])
    IN  /\ \A k \in r.first..r.last : ~outside(k)
        /\ Bytes(word) <= MaxWord
        /\ Known(known, Text(body, r))
        /\ \/ r = [first |-> lo, last |-> hi]
           \/ /\ ~Known(known, word)
              /\ body[r.first + 1] \notin Marks /\ body[r.last + 1] \notin Marks
              /\ \A k \in (lo..hi) \ (r.first..r.last) : body[k + 1] \in Marks

Codes(known, line) ==
    {Entry(known, line.body, r) :
        r \in {r \in [first : 0..Len(line.body) - 1, last : 0..Len(line.body) - 1] :
                  /\ r.first <= r.last /\ IsCode(known, line.body, r)
                  /\ \A n \in line.natives :
                        (n.first..n.last) \cap (r.first..r.last) = {}}}

\* Twitch gets the frame as it came, or every line of it with exactly the codes
\* its set had when the line was read: each once, in order, at its code points,
\* the room's before the global one of that name, none over a range of Twitch's
\* own; and fewer only when the line's buffer is full.
FrameRewritten ==
    \A out \in delivered :
        \/ \A i \in DOMAIN frame : out[i].added = <<>>
        \/ \A i \in DOMAIN frame :
              LET codes == Codes(written[i].by, frame[i])
              IN  /\ out[i] = written[i]
                  /\ ToSet(out[i].added) \subseteq codes
                  /\ Len(out[i].added) = IF Cardinality(codes) > MaxAdditions
                                         THEN MaxAdditions ELSE Cardinality(codes)
                  /\ \A j, k \in DOMAIN out[i].added :
                        j < k => out[i].added[j].last < out[i].added[k].first
=============================================================================
