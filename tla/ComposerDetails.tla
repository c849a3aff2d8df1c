-------------------------- MODULE ComposerDetails --------------------------
\* The details sheet of an emote (SSComposer.c, TASEmoteUI.c): a hold on an
\* attachment of the composer queues it, and the sheet is presented one turn of
\* the run loop later; a hold on a tile and a tap in the chat present at once.
\* The sheet can hand its URL to the browser, after it has gone.  The strip of
\* suggestions is a child of the window and would lie over the sheet.
\*
\* UIKit is known from how the code asks it: at most one presentation above the
\* chat, which is presenting, up, being swiped away, or dismissed.
\*
\* A definition introduced as a fault is a plausible mistake in the one after
\* it; no specification uses it.
EXTENDS Integers

CONSTANTS
    NoEmote,
    Emotes        \* attachment objects, and emotes of tiles and messages

ASSUME DetailsAssumption == NoEmote \notin Emotes

VARIABLES
    editor,       \* window: in a window; focused; text: our attachments in it
    completes,    \* the caret is behind a word that has suggestions
    hold,         \* editor_hold_touch: the touch began on an attachment
    due,          \* details_attachment: ssDetails: is on the run loop
    sheet,        \* what is presented above the chat
    browser,      \* the URLs retained for a completion; opened, of this sheet
    active,       \* the application is
    strip,        \* the strip: placed in the window, hidden; and suggestions
    ticking       \* scheduled: ssTick: is on the run loop

detVars == <<editor, completes, hold, due, sheet, browser, active, strip, ticking>>

NoSheet == [by |-> "none", of |-> NoEmote, phase |-> "none", leaving |-> FALSE, opens |-> FALSE]
Modal == sheet.phase # "none"

DetInit ==
    /\ editor = [window |-> FALSE, focused |-> FALSE, text |-> {}]
    /\ completes = FALSE /\ hold = FALSE /\ due = NoEmote
    /\ sheet = NoSheet /\ browser = [held |-> 0, opened |-> 0]
    /\ active = TRUE
    /\ strip = [placed |-> FALSE, hidden |-> FALSE, filled |-> FALSE]
    /\ ticking = FALSE

\* place_suggestion_strip, for a strip that fits into the window.
Placed(s, e, modal) ==
    IF ~e.window THEN [s EXCEPT !.placed = FALSE]
    ELSE IF due # NoEmote \/ modal THEN [s EXCEPT !.hidden = TRUE]
    ELSE [s EXCEPT !.placed = TRUE, !.hidden = ~(e.focused /\ s.filled)]

\* refresh and the layout at its end; an input that loses the focus hides the
\* strip at once.
Refreshed(s, e, matches) ==
    IF ~e.window THEN Placed(s, e, Modal)
    ELSE Placed([s EXCEPT !.filled = e.focused /\ matches,
                          !.hidden = @ \/ (~e.focused /\ s.filled)], e, Modal)

\* An edit, a rendering, a new focus: every callback refreshes, and an edit or
\* a focus starts the tick.
Edits(e, matches) ==
    /\ editor.window
    /\ editor' = e /\ completes' = matches
    /\ strip' = Refreshed(strip, e, matches)
    /\ ticking' = (ticking \/ e.focused)
    /\ UNCHANGED <<hold, due, sheet, browser, active>>

\* The chat leaves its window, or enters it (moved); UIKit takes its focus.
Moved ==
    LET e == [editor EXCEPT !.window = ~@, !.focused = FALSE]
    IN  /\ editor' = e /\ completes' = FALSE
        /\ strip' = Refreshed(strip, e, FALSE)
        /\ ticking' = TRUE
        /\ UNCHANGED <<hold, due, sheet, browser, active>>

\* ssTick:, once a second while the input is in use; and input_layout.
Ticks ==
    /\ ticking
    /\ strip' = Refreshed(strip, editor, completes)
    /\ ticking' = (editor.window /\ editor.focused)
    /\ UNCHANGED <<editor, completes, hold, due, sheet, browser, active>>

InputLayout ==
    /\ strip' = Placed(strip, editor, Modal)
    /\ UNCHANGED <<editor, completes, hold, due, sheet, browser, active, ticking>>

-----------------------------------------------------------------------------
\* composer_hold_receive_touch: text below the finger is left to UIKit.
TouchDown ==
    /\ editor.window /\ ~Modal
    /\ hold' = (editor.text # {})
    /\ UNCHANGED <<editor, completes, due, sheet, browser, active, strip, ticking>>

\* composer_hold: half a second later, with what is below the finger by then.
\* The first hold wins until it is shown (queue_composer_details).
Hold(a) ==
    /\ hold /\ hold' = FALSE
    /\ editor.window /\ a \in editor.text
    /\ due' = IF due = NoEmote THEN a ELSE due
    /\ UNCHANGED <<editor, completes, sheet, browser, active, strip, ticking>>

\* tas_emote_ui_present_details: nothing else is presented.
Present(by, a) ==
    IF Modal THEN UNCHANGED <<sheet, browser>>
    ELSE /\ sheet' = [NoSheet EXCEPT !.by = by, !.of = a, !.phase = "presenting"]
         /\ browser' = [browser EXCEPT !.opened = 0]

\* present_composer_details: the strip hides before the transition begins.
Shows(s, modal) == IF modal THEN s ELSE [s EXCEPT !.hidden = TRUE]

\* Fault: what was held is shown although the text has changed.
StillHeld(e, a) == e.window

\* composer_details finds the attachment it was asked about.
StillThere(e, a) == e.window /\ a \in e.text

\* Fault: an attachment that has gone is asked about again.
KeptDue(a, there) == IF there THEN NoEmote ELSE a

\* Whatever becomes of it, the request is over.
NextDue(a, there) == NoEmote

\* ssDetails:
ShowDue ==
    /\ due # NoEmote
    /\ due' = NextDue(due, StillThere(editor, due))
    /\ IF StillThere(editor, due)
       THEN Present("composer", due) /\ strip' = Shows(strip, Modal)
       ELSE UNCHANGED <<sheet, browser, strip>>
    /\ UNCHANGED <<editor, completes, hold, active, ticking>>

\* emote_hold, on a tile of the strip or of the library.
HoldTile(a) ==
    /\ editor.window
    /\ Present("composer", a) /\ strip' = Shows(strip, Modal)
    /\ UNCHANGED <<editor, completes, hold, due, active, ticking>>

\* show_details, from a tap on a message.
TapMessage(a) ==
    /\ Present("chat", a)
    /\ UNCHANGED <<editor, completes, hold, due, active, strip, ticking>>

-----------------------------------------------------------------------------
\* Fault: a sheet that is leaving is dismissed again.
DismissesTwice == sheet.by # "twitch" /\ sheet.phase \in {"up", "leaving"}

\* details_dismiss's conditions: ours, up, and not yet told to leave.
MayDismiss == sheet.by # "twitch" /\ sheet.phase = "up" /\ ~sheet.leaving

\* details_close, and the two rows that copy.  A row that is selected when the
\* sheet is leaving does nothing at all.
Close ==
    /\ sheet.by \in {"composer", "chat"} /\ MayDismiss
    /\ sheet' = [sheet EXCEPT !.phase = "leaving", !.leaving = TRUE]
    /\ UNCHANGED <<editor, completes, hold, due, browser, active, strip, ticking>>

\* The row that opens the browser retains the URL for the completion, and
\* releases it when the sheet was leaving anyway.
Open ==
    /\ sheet.by \in {"composer", "chat"} /\ Modal
    /\ IF MayDismiss
       THEN /\ sheet' = [sheet EXCEPT !.phase = "leaving", !.leaving = TRUE, !.opens = TRUE]
            /\ browser' = [browser EXCEPT !.held = @ + 1]
       ELSE UNCHANGED <<sheet, browser>>
    /\ UNCHANGED <<editor, completes, hold, due, active, strip, ticking>>

\* UIKit: the transition ends; a finger pulls the sheet down, and lets it go.
Presented ==
    /\ sheet.phase = "presenting"
    /\ sheet' = [sheet EXCEPT !.phase = "up"]
    /\ UNCHANGED <<editor, completes, hold, due, browser, active, strip, ticking>>

Swipe ==
    /\ sheet.phase \in {"up", "swiped"}
    /\ sheet' = [sheet EXCEPT !.phase = IF @ = "up" THEN "swiped" ELSE "up"]
    /\ UNCHANGED <<editor, completes, hold, due, browser, active, strip, ticking>>

\* The sheet has gone, and its completion runs: the browser opens while the
\* application is active.
Gone ==
    /\ sheet.phase \in {"leaving", "swiped"}
    /\ sheet' = NoSheet
    /\ browser' = IF sheet.opens
                  THEN [held |-> browser.held - 1,
                        opened |-> browser.opened + IF active THEN 1 ELSE 0]
                  ELSE browser
    /\ UNCHANGED <<editor, completes, hold, due, active, strip, ticking>>

\* Twitch presents something of its own.
TwitchPresents ==
    /\ ~Modal
    /\ sheet' = [NoSheet EXCEPT !.by = "twitch", !.phase = "up"]
    /\ browser' = [browser EXCEPT !.opened = 0]
    /\ UNCHANGED <<editor, completes, hold, due, active, strip, ticking>>

ActiveChanges ==
    /\ active' = ~active
    /\ UNCHANGED <<editor, completes, hold, due, sheet, browser, strip, ticking>>

DetNext ==
    \/ \E matches \in BOOLEAN :
          \/ \E text \in SUBSET Emotes : Edits([editor EXCEPT !.text = text], matches)
          \/ \E focus \in BOOLEAN : Edits([editor EXCEPT !.focused = focus], matches)
    \/ Moved \/ Ticks \/ InputLayout
    \/ TouchDown
    \/ \E a \in Emotes : Hold(a) \/ HoldTile(a) \/ TapMessage(a)
    \/ ShowDue
    \/ Close \/ Open
    \/ Presented \/ Swipe \/ Gone
    \/ TwitchPresents \/ ActiveChanges

\* The run loop is served.
DetFairness == WF_detVars(ShowDue) /\ WF_detVars(Ticks)
DetSpec == DetInit /\ [][DetNext]_detVars /\ DetFairness

-----------------------------------------------------------------------------
\* A sheet of an attachment comes up only while the attachment is in the text
\* of an input on screen, whatever was edited since the hold; the strip lies
\* over no sheet the composer has presented, from before the transition to its
\* end, however the input is laid out, edited or refreshed meanwhile.
DetailsFresh ==
    /\ [][due # NoEmote /\ due' = NoEmote /\ sheet' # sheet =>
              sheet'.of = due /\ editor.window /\ due \in editor.text]_detVars
    /\ [](sheet.by = "composer" => strip.hidden \/ ~strip.placed)

\* One way out: the URL of a sheet is retained once at most, exactly until its
\* completion has run, and the browser opens at most once for a sheet, however
\* quickly Done, the rows and a swipe follow each other (details_dismiss).
OneHandoff ==
    /\ browser.held = IF sheet.opens THEN 1 ELSE 0
    /\ browser.opened <= 1
    /\ Modal => browser.opened = 0

\* The strip comes back: an input in use, with suggestions, nothing before it
\* and no finger on an emote, comes to show them for good, whatever failed to
\* be presented (present_composer_details).
StripReturns ==
    <>[](editor.window /\ editor.focused /\ completes /\ ~Modal /\ ~hold) =>
        <>[](strip.placed /\ ~strip.hidden)
=============================================================================
