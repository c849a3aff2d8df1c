---------------------------- MODULE ComposerText ----------------------------
\* The composer's text field (SSComposer.c): the emote codes a user types are
\* shown as attachments of one character, while Twitch must keep reading and
\* sending the codes.
\*
\* The text storage is a sequence of cells.  A cell is one displayed unit and
\* stands for `code`: itself, or the whole emote code when the attachment is
\* ours (`own`).  UIKit edits and selects displayed positions; everything
\* Twitch reads is in plain ones.  All of it runs on the main thread: an action
\* is one callback with every call it makes.
\*
\* A definition introduced as a fault is a plausible mistake in the one after
\* it; no specification uses it.
EXTENDS ComposerModel

CONSTANTS
    Catalogs,     \* what the names of the room may be: sets of codes
    Names,        \* the codes that can be chosen
    MaxTokens,    \* attachments shown at once (MAX_TOKENS)
    MaxRendered,  \* units of the longest text that is rendered (4096)
    MaxLength     \* bound of the model: units of the plain text

ASSUME CatalogsAssumption ==
    /\ Catalogs \subseteq SUBSET Names
    /\ Names \subseteq Seq(Units)
    /\ MaxTokens \in Nat

VARIABLES
    shown,        \* the text storage
    sel,          \* the selection, in displayed units
    focused,      \* the editor is first responder
    marked,       \* an input method has provisional text
    scheduled,    \* preview_scheduled: ssPreview: is on the run loop
    known,        \* the provider names tas_emotes_named_copy finds
    twitch,       \* the text Twitch read last
    entered,         \* ghost: the text the user has entered
    caret         \* ghost: the selection the user has made in it

textVars == <<shown, sel, focused, marked, scheduled, known, twitch, entered, caret>>

UnitCell(c) == [code |-> <<c>>, own |-> FALSE]
Cells(text) == [i \in DOMAIN text |-> UnitCell(text[i])]
Attachment(code) == [code |-> code, own |-> TRUE]
Unit(cell) == IF cell.own THEN Object ELSE cell.code[1]

\* The string of a text storage, and what it stands for.
String(cells) == [i \in DOMAIN cells |-> Unit(cells[i])]
Codes(cells) == FlattenSeq([i \in DOMAIN cells |-> cells[i].code])

Splice(s, at, length, new) ==
    SubSeq(s, 1, at) \o new \o SubSeq(s, at + length + 1, Len(s))

\* The first loop of expanded_copy: one span for each of our attachments.
SpansOf(cells) ==
    FoldLeft(LAMBDA acc, c :
                IF c.own /\ Len(acc.spans) < MaxTokens
                THEN [at |-> acc.at + Len(c.code),
                      spans |-> Append(acc.spans, [start |-> acc.at,
                                                   length |-> Len(c.code)])]
                ELSE [acc EXCEPT !.at = @ + 1],
             [at |-> 0, spans |-> <<>>], cells).spans

\* The second one: the attachments with a span become their codes.
Expanded(cells) ==
    FoldLeft(LAMBDA acc, c :
                IF c.own /\ acc.n < MaxTokens
                THEN [n |-> acc.n + 1, out |-> acc.out \o Cells(c.code)]
                ELSE [acc EXCEPT !.out = Append(@, c)],
             [n |-> 0, out |-> <<>>], cells).out

\* Fault: the length of the selection is not converted.
PlainStart(r, spans) == [loc |-> PlainPosition(r.loc, spans), len |-> r.len]

\* expanded_copy moves the selection with both ends of its range.
PlainRange(r, spans) ==
    LET start == PlainPosition(r.loc, spans)
    IN  [loc |-> start, len |-> PlainPosition(r.loc + r.len, spans) - start]

DisplayRange(r, spans) ==
    LET start == DisplayPosition(r.loc, spans)
    IN  [loc |-> start, len |-> DisplayPosition(r.loc + r.len, spans) - start]

\* visual_text keeps the selection inside the text it writes.
Clamp(r, length) ==
    LET loc == IF r.loc > length THEN length ELSE r.loc
    IN  [loc |-> loc, len |-> IF r.len > length - loc THEN length - loc ELSE r.len]

\* What a callback works on and leaves: the storage and the selection.
View == [cells |-> shown, sel |-> sel]

\* expand: our attachments become codes again.
ExpandWith(v, spans, plain) ==
    IF spans = <<>> THEN v
    ELSE [cells |-> plain, sel |-> Clamp(PlainRange(v.sel, spans), Len(plain))]
ExpandView(v) == ExpandWith(v, SpansOf(v.cells), Expanded(v.cells))

\* render: which words of the plain text become attachments.  A word that was
\* one stays one; in a focused field another must be clear of the caret.
Previews(text, old, r, names, focus, w) ==
    /\ Word(text, w) \in names
    /\ \/ \E i \in DOMAIN old : /\ old[i].start = w.start
                               /\ old[i].length = w.end - w.start
       \/ ~focus
       \/ TokenSafe(w, Len(text), r.loc, r.len)
Previewed(text, old, r, names, focus) ==
    FlattenSeq([i \in DOMAIN WordsOf(text) |->
        IF Previews(text, old, r, names, focus, WordsOf(text)[i]) THEN <<WordsOf(text)[i]>> ELSE <<>>])

Shortened(words) ==
    SubSeq(words, 1, IF Len(words) < MaxTokens THEN Len(words) ELSE MaxTokens)

SpansOfWords(words) == [i \in DOMAIN words |-> [start |-> words[i].start,
                                                length |-> words[i].end - words[i].start]]

\* The words are replaced in their order, each where the ones before it have
\* moved it.
WithAttachments(plain, text, words) ==
    LET out[k \in 0..Len(words)] ==
            IF k = 0 THEN plain
            ELSE Splice(out[k - 1],
                        DisplayPosition(words[k].start, SpansOfWords(SubSeq(words, 1, k - 1))),
                        words[k].end - words[k].start, <<Attachment(Word(text, words[k]))>>)
    IN  out[Len(words)]

RenderAs(v, r, words, output) ==
    IF output = v.cells THEN v
    ELSE [cells |-> output,
          sel |-> Clamp(DisplayRange(r, SpansOfWords(words)), Len(output))]

RenderWords(v, old, plain, text, r, words) ==
    IF Len(plain) > MaxRendered \/ (words = <<>> /\ old = <<>>) THEN v
    ELSE RenderAs(v, r, words, WithAttachments(plain, text, words))

RenderWith(v, old, plain, text, r, names, focus) ==
    RenderWords(v, old, plain, text, r, Shortened(Previewed(text, old, r, names, focus)))

RenderView(v, names, focus) ==
    RenderWith(v, SpansOf(v.cells), Expanded(v.cells), String(Expanded(v.cells)),
               PlainRange(v.sel, SpansOf(v.cells)), names, focus)

\* A callback ends with a view.  native_changed lets Twitch read the expanded
\* text, except while text is marked.
Leave(v) == shown' = v.cells /\ sel' = v.sel

\* Fault: Twitch reads what is displayed.
DisplayedText(cells, mark) == String(cells)

NativeText(cells, mark) == IF mark THEN String(cells) ELSE String(Expanded(cells))
SamePlace == UNCHANGED <<twitch, entered, caret>>

\* The ghosts measure a range by what its cells stand for.
RangeOf(cells, r) ==
    LET width(n) == Len(Codes(SubSeq(cells, 1, n)))
    IN  [loc |-> width(r.loc), len |-> width(r.loc + r.len) - width(r.loc)]

\* UIKit replaces displayed units of v and puts the caret behind; the user
\* means the codes they stand for.  textView:shouldChange... and
\* textViewDidChange: schedule a preview.
EditedAs(cells, place, at, new, mark) ==
    /\ Len(Codes(cells)) <= MaxLength
    /\ Leave([cells |-> cells, sel |-> [loc |-> at + Len(new), len |-> 0]])
    /\ twitch' = NativeText(cells, mark)
    /\ entered' = Splice(entered, place.loc, place.len, new)
    /\ caret' = [loc |-> place.loc + Len(new), len |-> 0]
    /\ scheduled' = TRUE

UIKitEdit(v, at, length, new, mark) ==
    EditedAs(Splice(v.cells, at, length, Cells(new)),
             RangeOf(v.cells, [loc |-> at, len |-> length]), at, new, mark)

Ranges(cells) == {r \in [loc : 0..Len(cells), len : 0..Len(cells)] :
                    r.loc + r.len <= Len(cells)}
Typed == {<<>>} \cup {<<c>> : c \in Units}
Pasted == {<<>>} \cup {<<c>> : c \in Letters}

TextInit ==
    /\ shown = <<>> /\ sel = [loc |-> 0, len |-> 0]
    /\ focused = FALSE /\ marked = FALSE /\ scheduled = FALSE
    /\ known \in Catalogs
    /\ twitch = <<>> /\ entered = <<>> /\ caret = [loc |-> 0, len |-> 0]

\* Typing, deleting, or the autocorrection of a word behind the caret.
Edit(r, new) ==
    /\ focused /\ ~marked
    /\ UIKitEdit(View, r.loc, r.len, new, FALSE)
    /\ UNCHANGED <<focused, marked, known>>

\* An input method inserts provisional text, and later accepts it.
Mark(c) ==
    /\ focused /\ ~marked
    /\ UIKitEdit(View, sel.loc, sel.len, <<c>>, TRUE)
    /\ marked' = TRUE
    /\ UNCHANGED <<focused, known>>

Commit ==
    /\ marked
    /\ marked' = FALSE
    /\ scheduled' = TRUE
    /\ twitch' = NativeText(shown, FALSE)
    /\ UNCHANGED <<shown, sel, focused, known, entered, caret>>

\* did_select.
Select(r) ==
    /\ focused /\ ~marked
    /\ sel' = r
    /\ caret' = RangeOf(shown, r)
    /\ scheduled' = TRUE
    /\ UNCHANGED <<shown, focused, marked, known, twitch, entered>>

\* did_begin and image_changed schedule a preview.
Focus ==
    /\ ~focused
    /\ focused' = TRUE
    /\ scheduled' = TRUE
    /\ UNCHANGED <<shown, sel, marked, known>> /\ SamePlace

ImageChanged ==
    /\ scheduled' = TRUE
    /\ UNCHANGED <<shown, sel, focused, marked, known>> /\ SamePlace

\* did_end: UIKit has accepted marked text before.
Blur ==
    /\ focused /\ ~marked
    /\ focused' = FALSE
    /\ Leave(ExpandView(View))
    /\ UNCHANGED <<marked, scheduled, known>> /\ SamePlace

\* A rendering without focus may move the caret out of a word, behind its
\* attachment.
LeaveRendered(v, focus) ==
    /\ Leave(v)
    /\ caret' = IF focus THEN caret ELSE RangeOf(v.cells, v.sel)
Rendered(v, focus) == LeaveRendered(RenderView(v, known, focus), focus)

\* preview_ready, on the next turn of the run loop.
PreviewReady ==
    /\ scheduled
    /\ scheduled' = FALSE
    /\ IF marked THEN UNCHANGED <<shown, sel, caret>> ELSE Rendered(View, focused)
    /\ UNCHANGED <<focused, marked, known, twitch, entered>>

\* A provider's names arrive; and, when the chat's room changes, refresh
\* expands what the names of the old room show.
NamesArrive(names) ==
    /\ known' = names
    /\ UNCHANGED <<shown, sel, focused, marked, scheduled>> /\ SamePlace

RoomChanged(names) ==
    /\ known' = names
    /\ Leave(IF marked THEN View ELSE ExpandView(View))
    /\ UNCHANGED <<focused, marked, scheduled>> /\ SamePlace

\* copy:, footer actions and apply: expand, let Twitch work on the text, and
\* render unless a preview is due.
Around ==
    /\ ~marked
    /\ IF scheduled THEN Leave(ExpandView(View)) /\ UNCHANGED caret
       ELSE Rendered(ExpandView(View), focused)
    /\ UNCHANGED <<focused, marked, scheduled, known, twitch, entered>>

\* cut:, paste:, undo and redo change the expanded text.
EditIn(v, r, new) ==
    /\ ~marked
    /\ r \in Ranges(v.cells)
    /\ UIKitEdit(v, r.loc, r.len, new, FALSE)
    /\ UNCHANGED <<focused, marked, known>>
ExpandedEdit(r, new) == EditIn(ExpandView(View), r, new)

\* menu_backspace: the due preview is made at once, so that the key deletes a
\* whole emote.
Before(r) == IF r.len > 0 THEN r ELSE [loc |-> r.loc - 1, len |-> 1]
DeleteIn(v) == EditIn(v, Before(v.sel), <<>>)
MenuBackspace == DeleteIn(RenderView(View, known, focused))

\* choose and replace_plain: the code and a space replace the completion, or
\* the selection, of the expanded text.  The field takes the focus, which
\* schedules the preview.
ChooseIn(v, spans, name, suggestion) ==
    \E r \in IF suggestion THEN {[loc |-> s.start, len |-> s.length] : s \in spans}
             ELSE {v.sel} :
        /\ ~marked
        /\ name \in known
        /\ suggestion => focused
        /\ UIKitEdit(v, r.loc, r.len, Append(name, Space), FALSE)
        /\ focused' = TRUE
        /\ UNCHANGED <<marked, known>>

Completions(v) ==
    IF sel.len > 0 THEN {} ELSE CompletionSpan(String(v.cells), v.sel.loc, 0)
Choose(name, suggestion) ==
    ChooseIn(ExpandView(View), Completions(ExpandView(View)), name, suggestion)

\* send_message: Twitch reads the codes, and clears the field unless it
\* refuses the message.
SendFrom(v, cleared) ==
    /\ marked' = FALSE
    /\ IF cleared
       THEN /\ Leave([cells |-> <<>>, sel |-> [loc |-> 0, len |-> 0]])
            /\ twitch' = <<>> /\ entered' = <<>> /\ caret' = [loc |-> 0, len |-> 0]
       ELSE /\ IF scheduled THEN Leave(v) /\ UNCHANGED caret
               ELSE Rendered(v, focused)
            /\ twitch' = String(v.cells)
            /\ UNCHANGED entered
    /\ UNCHANGED <<focused, scheduled, known>>

Send(cleared) ==
    SendFrom(IF marked THEN [cells |-> Expanded(shown), sel |-> PlainRange(sel, SpansOf(shown))]
             ELSE ExpandView(View), cleared)

TextNext ==
    \/ \E r \in Ranges(shown), new \in Typed : Edit(r, new)
    \/ \E c \in Units : Mark(c)
    \/ Commit
    \/ \E r \in Ranges(shown) : Select(r)
    \/ Focus
    \/ ImageChanged
    \/ Blur
    \/ PreviewReady
    \/ \E names \in Catalogs : NamesArrive(names) \/ RoomChanged(names)
    \/ Around
    \/ \E r \in Ranges(ExpandView(View).cells), new \in Pasted : ExpandedEdit(r, new)
    \/ MenuBackspace
    \/ \E name \in Names, suggestion \in BOOLEAN : Choose(name, suggestion)
    \/ \E cleared \in BOOLEAN : Send(cleared)

TextSpec == TextInit /\ [][TextNext]_textVars

-----------------------------------------------------------------------------
\* No code is lost or changed by what is displayed: the cells stand for the
\* text the user entered (visual_text, expand, render), and what Twitch has
\* read for sending is that text, with no attachment of ours in it, unless an
\* input method is at work.
CodesKept ==
    /\ Codes(shown) = entered
    /\ ~marked => twitch = entered

\* A displayed range edited by UIKit is the range Twitch validated: replacing
\* in the expanded text what native_validation maps the range to gives the
\* text that the edit leaves, for every range the user can reach.
EditsTheSame(r, mapped, new) ==
    Splice(String(Expanded(shown)), mapped.loc, mapped.len, new)
      = Codes(Splice(shown, r.loc, r.len, Cells(new)))
ValidatedAsEdited ==
    \A r \in Ranges(shown), new \in {<<>>, <<Space>>} :
        EditsTheSame(r, PlainRange(r, SpansOf(shown)), new)

\* The caret of a focused editor stays where the user put it, between the same
\* two units of the message, however often it is rendered and expanded.
CaretKept == RangeOf(shown, sel) = caret

\* What the user sees, what Twitch validates and what is sent are one text, with
\* one caret.
TextKept == CodesKept /\ ValidatedAsEdited /\ CaretKept
=============================================================================
