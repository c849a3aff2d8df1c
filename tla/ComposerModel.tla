--------------------------- MODULE ComposerModel ---------------------------
\* The positions and words of the composer (SSComposerModel.h).
\*
\* Text is a sequence of UTF-16 units and a position counts the units before
\* it.  A span is an expanded emote code, in positions of the plain text; the
\* spans of a text are sorted and do not overlap.
\*
\* A definition introduced as a fault is a plausible mistake in the one after
\* it; no specification uses it.
EXTENDS Integers, Sequences, FiniteSets, SequencesExt

CONSTANTS
    Letters,      \* ordinary units
    Space,        \* a unit ss_space holds of
    Colon,        \* ':', which opens an explicit completion
    Bar,          \* a unit no completion may contain ('/' or '@')
    Object,       \* U+FFFC, the unit of every attachment
    MaxFragment   \* units a completion may have (96)

Units == Letters \cup {Space, Colon, Bar, Object}

\* The units the first i spans hold beyond the one attachment shows for each.
Removed(spans, i) ==
    FoldLeft(LAMBDA sum, s : sum + s.length - 1, 0, SubSeq(spans, 1, i))

\* ss_display_position: a position inside a code is shown after its
\* attachment.
DisplayPosition(plain, spans) ==
    LET inside == {i \in DOMAIN spans : /\ spans[i].start < plain
                                        /\ plain < spans[i].start + spans[i].length}
        before == {i \in DOMAIN spans : spans[i].start + spans[i].length <= plain}
    IN  IF inside # {}
        THEN LET i == CHOOSE i \in inside : TRUE
             IN  spans[i].start - Removed(spans, i - 1) + 1
        ELSE plain - Removed(spans, Cardinality(before))

\* ss_plain_position: every attachment wholly before the position grows back.
PlainPosition(shown, spans) ==
    shown + Removed(spans, Cardinality({i \in DOMAIN spans :
                        spans[i].start - Removed(spans, i - 1) < shown}))

\* Fault: a word is safe whatever the caret does in it.
TokenAlwaysSafe(word, length, caret, selected) ==
    word.start < word.end /\ word.end <= length

\* ss_preview_token_safe: the caret, or the selection, leaves the word alone.
TokenSafe(word, length, caret, selected) ==
    /\ word.start < word.end
    /\ word.end <= length
    /\ caret + selected <= length
    /\ \/ caret + selected <= word.start
       \/ caret >= word.end

\* ss_completion_span: where the fragment that ends at the caret starts, as a
\* set with that span, empty when there is nothing to complete.  mode 0
\* completes words of two units and ':' words, mode 1 only ':' words.
CompletionSpan(text, caret, mode) ==
    LET start == CHOOSE s \in 0..caret :
                    /\ \A i \in s + 1..caret : text[i] \notin {Space, Object}
                    /\ s > 0 => text[s] \in {Space, Object}
        colon == start < Len(text) /\ text[start + 1] = Colon
        prefix == IF colon THEN start + 1 ELSE start
    IN  IF /\ mode \in {0, 1} /\ caret \in 1..Len(text)
           /\ caret < Len(text) => text[caret + 1] = Space
           /\ colon \/ mode = 0
           /\ ~(prefix = caret /\ prefix = start)
           /\ \A i \in prefix + 1..caret : text[i] \notin {Colon, Bar, Object}
           /\ caret - prefix <= MaxFragment
           /\ ~colon => caret - prefix >= 2
        THEN {[start |-> start, length |-> caret - start]}
        ELSE {}

\* The words render looks at: the longest runs without a space or an
\* attachment, in the order of the text.
InWord(text, i) == i \in DOMAIN text /\ text[i] \notin {Space, Object}
WordFrom(text, i) ==
    [start |-> i - 1,
     end |-> CHOOSE e \in i..Len(text) : /\ ~InWord(text, e + 1)
                                         /\ \A k \in i..e : InWord(text, k)]
WordsOf(text) ==
    FlattenSeq([i \in DOMAIN text |->
        IF InWord(text, i) /\ ~InWord(text, i - 1) THEN <<WordFrom(text, i)>> ELSE <<>>])

Word(text, w) == SubSeq(text, w.start + 1, w.end)
=============================================================================
