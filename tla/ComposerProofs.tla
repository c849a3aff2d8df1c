--------------------------- MODULE ComposerProofs ---------------------------
(***************************************************************************)
(* The safety of the composer's parts, for any number of managers, views,  *)
(* palettes and emotes: the catalogue it offers, what it takes from        *)
(* Twitch's views and gives back, its library, its sheet, and its text for *)
(* every message and any number of attachments.                            *)
(***************************************************************************)
EXTENDS ComposerText, ComposerCatalog, ComposerClock, ComposerPicker, ComposerFooter,
        ComposerDetails, Loops, SequenceTheorems, FiniteSetTheorems, TLAPS

-----------------------------------------------------------------------------
(* The details sheet                                                       *)

Presenter == {"none", "composer", "chat", "twitch"}
Phase == {"none", "presenting", "up", "swiped", "leaving"}
Sheet == [by : Presenter, of : Emotes \cup {NoEmote}, phase : Phase,
          leaving : BOOLEAN, opens : BOOLEAN]
Strip == [placed : BOOLEAN, hidden : BOOLEAN, filled : BOOLEAN]
Editor == [window : BOOLEAN, focused : BOOLEAN, text : SUBSET Emotes]

SheetTypeOK ==
    /\ sheet \in Sheet /\ strip \in Strip /\ editor \in Editor
    /\ browser \in [held : Nat, opened : Nat]
    /\ due \in Emotes \cup {NoEmote} /\ completes \in BOOLEAN

\* A sheet that is to open the browser has been told to leave, and where there
\* is no sheet nothing is left of one.
SheetOK ==
    /\ sheet.opens => sheet.leaving
    /\ sheet.phase = "none" => sheet = NoSheet
    /\ sheet.by = "composer" => strip.hidden \/ ~strip.placed

DetInv == SheetTypeOK /\ SheetOK /\ OneHandoff

\* Laying the strip out below a sheet hides it.
LEMMA PlacedOK ==
  ASSUME NEW s \in Strip, NEW e \in Editor, NEW modal \in BOOLEAN
  PROVE  /\ Placed(s, e, modal) \in Strip
         /\ modal => Placed(s, e, modal).hidden \/ ~Placed(s, e, modal).placed
BY DEF Placed, Strip, Editor

\* So does refreshing it.
LEMMA RefreshedOK ==
  ASSUME NEW s \in Strip, NEW e \in Editor, NEW matches \in BOOLEAN
  PROVE  /\ Refreshed(s, e, matches) \in Strip
         /\ Modal => Refreshed(s, e, matches).hidden \/ ~Refreshed(s, e, matches).placed
<1>1. Modal \in BOOLEAN
  BY DEF Modal
<1> DEFINE filled == e.focused /\ matches
           hidden == s.hidden \/ (~e.focused /\ s.filled)
           t == [s EXCEPT !.filled = filled, !.hidden = hidden]
<1>2. t \in Strip
  BY DEF Strip, Editor
<1>3. Refreshed(s, e, matches) \in {Placed(s, e, Modal), Placed(t, e, Modal)}
  BY DEF Refreshed, Strip
<1> HIDE DEF t
<1>4. QED
  BY <1>1, <1>2, <1>3, PlacedOK

\* The strip alone is laid out; the sheet is left alone.
LEMMA StripStep ==
  ASSUME DetInv, UNCHANGED <<sheet, browser>>, strip' \in Strip, editor' \in Editor,
         due' \in Emotes \cup {NoEmote}, completes' \in BOOLEAN,
         Modal => strip'.hidden \/ ~strip'.placed
  PROVE  DetInv'
<1>1. sheet.by = "composer" => Modal
  BY DEF DetInv, SheetOK, Modal, NoSheet
<1>2. SheetTypeOK' /\ SheetOK'
  BY <1>1 DEF DetInv, SheetTypeOK, SheetOK, NoSheet
<1>3. OneHandoff'
  BY DEF DetInv, OneHandoff, Modal
<1>4. QED
  BY <1>2, <1>3 DEF DetInv

\* A sheet comes up where there was none, above a hidden strip if it is ours.
LEMMA PresentStep ==
  ASSUME DetInv, ~Modal, sheet' \in Sheet, ~sheet'.opens, sheet'.phase # "none",
         browser' = [browser EXCEPT !.opened = 0],
         strip' \in Strip, sheet'.by = "composer" => strip'.hidden,
         UNCHANGED <<editor, completes>>, due' \in Emotes \cup {NoEmote}
  PROVE  DetInv'
<1>1. browser' \in [held : Nat, opened : Nat] /\ browser'.held = 0 /\ browser'.opened = 0
  BY DEF DetInv, SheetTypeOK, SheetOK, OneHandoff, Modal, NoSheet
<1>2. SheetTypeOK' /\ SheetOK'
  BY <1>1 DEF DetInv, SheetTypeOK, SheetOK
<1>3. OneHandoff'
  BY <1>1 DEF OneHandoff, Modal
<1>4. QED
  BY <1>2, <1>3 DEF DetInv

\* What presents an emote's sheet presents a sheet.
LEMMA PresentOK ==
  ASSUME ~Modal, NEW by \in Presenter, NEW a \in Emotes \cup {NoEmote}, Present(by, a)
  PROVE  /\ sheet' \in Sheet /\ ~sheet'.opens /\ sheet'.phase # "none" /\ sheet'.by = by
         /\ browser' = [browser EXCEPT !.opened = 0]
BY DEF Present, NoSheet, Sheet, Presenter, Phase

\* What the input, the strip and the finger do.
LEMMA InputStep ==
  ASSUME DetInv,
         \/ \E matches \in BOOLEAN :
              \/ \E text \in SUBSET Emotes : Edits([editor EXCEPT !.text = text], matches)
              \/ \E focus \in BOOLEAN : Edits([editor EXCEPT !.focused = focus], matches)
         \/ Moved \/ Ticks \/ InputLayout \/ TouchDown \/ ActiveChanges
         \/ \E a \in Emotes : Hold(a)
  PROVE  DetInv'
<1>1. /\ strip \in Strip /\ editor \in Editor /\ due \in Emotes \cup {NoEmote}
      /\ completes \in BOOLEAN /\ Modal \in BOOLEAN
      /\ sheet.by = "composer" => Modal
  BY DEF DetInv, SheetTypeOK, SheetOK, Modal, NoSheet
<1>2. ASSUME NEW matches \in BOOLEAN, NEW e \in Editor, Edits(e, matches)
      PROVE  DetInv'
  BY <1>1, <1>2, RefreshedOK, StripStep DEF Edits
<1>3. \A text \in SUBSET Emotes, focus \in BOOLEAN :
         [editor EXCEPT !.text = text] \in Editor /\ [editor EXCEPT !.focused = focus] \in Editor
  BY <1>1 DEF Editor
<1>4. CASE Moved
  <2>1. PICK e \in Editor : e = [editor EXCEPT !.window = ~@, !.focused = FALSE]
    BY <1>1 DEF Editor
  <2>2. /\ editor' = e /\ completes' = FALSE /\ strip' = Refreshed(strip, e, FALSE)
        /\ UNCHANGED <<sheet, browser, due>>
    BY <1>4, <2>1 DEF Moved
  <2>3. QED
    BY <1>1, <2>2, RefreshedOK, StripStep
<1>5. CASE Ticks
  BY <1>1, <1>5, RefreshedOK, StripStep DEF Ticks
<1>6. CASE InputLayout
  BY <1>1, <1>6, PlacedOK, StripStep DEF InputLayout
<1>7. CASE TouchDown \/ ActiveChanges \/ \E a \in Emotes : Hold(a)
  <2>1. /\ UNCHANGED <<sheet, browser, strip, editor, completes>>
        /\ due' \in Emotes \cup {NoEmote}
    BY <1>1, <1>7 DEF TouchDown, ActiveChanges, Hold
  <2>2. SheetTypeOK' /\ SheetOK' /\ OneHandoff'
    BY <2>1 DEF DetInv, SheetTypeOK, SheetOK, OneHandoff, Modal, NoSheet
  <2>3. QED
    BY <2>2 DEF DetInv
<1>8. QED
  BY <1>2, <1>3, <1>4, <1>5, <1>6, <1>7

\* What brings a sheet up.
LEMMA ShowStep ==
  ASSUME DetInv,
         \/ ShowDue \/ TwitchPresents
         \/ \E a \in Emotes : HoldTile(a) \/ TapMessage(a)
  PROVE  DetInv'
<1>1. /\ strip \in Strip /\ due \in Emotes \cup {NoEmote} /\ Modal \in BOOLEAN
      /\ sheet.by = "composer" => strip.hidden \/ ~strip.placed
  BY DEF DetInv, SheetTypeOK, SheetOK, Modal
<1>2. Shows(strip, Modal) \in Strip /\ (~Modal => Shows(strip, Modal).hidden)
      /\ (Modal => Shows(strip, Modal) = strip)
  BY <1>1 DEF Shows, Strip
<1>3. ASSUME UNCHANGED <<sheet, browser, strip, editor, completes>>,
             due' \in Emotes \cup {NoEmote}
      PROVE  DetInv'
  <2>1. SheetTypeOK' /\ SheetOK' /\ OneHandoff'
    BY <1>3 DEF DetInv, SheetTypeOK, SheetOK, OneHandoff, Modal, NoSheet
  <2>2. QED
    BY <2>1 DEF DetInv
<1>4. ASSUME NEW a \in Emotes \cup {NoEmote}, Present("composer", a),
             strip' = Shows(strip, Modal), UNCHANGED <<editor, completes>>,
             due' \in Emotes \cup {NoEmote}
      PROVE  DetInv'
  <2>1. CASE Modal
    BY <1>2, <1>3, <1>4, <2>1 DEF Present
  <2>2. CASE ~Modal
    BY <1>2, <1>4, <2>2, PresentOK, PresentStep DEF Presenter
  <2>3. QED
    BY <2>1, <2>2
<1>5. CASE ShowDue
  <2>1. due' = NoEmote /\ UNCHANGED <<editor, completes>>
    BY <1>5 DEF ShowDue, NextDue
  <2>2. CASE StillThere(editor, due)
    BY <1>1, <1>4, <1>5, <2>1, <2>2 DEF ShowDue
  <2>3. CASE ~StillThere(editor, due)
    BY <1>3, <1>5, <2>1, <2>3 DEF ShowDue
  <2>4. QED
    BY <2>2, <2>3
<1>6. ASSUME NEW a \in Emotes, HoldTile(a)
      PROVE  DetInv'
  BY <1>1, <1>4, <1>6 DEF HoldTile
<1>7. ASSUME NEW a \in Emotes, TapMessage(a)
      PROVE  DetInv'
  <2>1. CASE Modal
    BY <1>1, <1>3, <1>7, <2>1 DEF TapMessage, Present
  <2>2. CASE ~Modal
    BY <1>1, <1>7, <2>2, PresentOK, PresentStep DEF TapMessage, Presenter
  <2>3. QED
    BY <2>1, <2>2
<1>8. CASE TwitchPresents
  <2>1. /\ sheet' \in Sheet /\ sheet'.opens = FALSE /\ sheet'.phase = "up"
        /\ sheet'.by = "twitch"
    BY <1>8 DEF TwitchPresents, NoSheet, Sheet, Presenter, Phase
  <2>2. /\ ~Modal /\ browser' = [browser EXCEPT !.opened = 0]
        /\ UNCHANGED <<editor, completes, due, strip>>
    BY <1>8 DEF TwitchPresents
  <2>3. strip' \in Strip /\ due' \in Emotes \cup {NoEmote}
    BY <1>1, <2>2
  <2>4. QED
    BY <2>1, <2>2, <2>3, PresentStep
<1>9. QED
  BY <1>5, <1>6, <1>7, <1>8

\* What takes a sheet away.
LEMMA LeaveStep ==
  ASSUME DetInv, Close \/ Open \/ Presented \/ Swipe \/ Gone
  PROVE  DetInv'
<1>1. /\ sheet \in Sheet /\ browser \in [held : Nat, opened : Nat]
      /\ UNCHANGED <<editor, completes, due, strip>>
  BY DEF DetInv, SheetTypeOK, Close, Open, Presented, Swipe, Gone
<1>2. CASE Close \/ Presented \/ Swipe
  <2>1. /\ sheet' \in Sheet /\ sheet'.opens = sheet.opens /\ sheet'.by = sheet.by
        /\ sheet'.leaving = sheet.leaving \/ sheet'.leaving = TRUE
        /\ sheet'.phase # "none" /\ sheet.phase # "none" /\ browser' = browser
    BY <1>1, <1>2 DEF Close, MayDismiss, Presented, Swipe, Sheet, Phase
  <2>2. SheetTypeOK' /\ SheetOK'
    BY <1>1, <2>1 DEF DetInv, SheetTypeOK, SheetOK
  <2>3. OneHandoff'
    BY <2>1 DEF DetInv, OneHandoff, Modal
  <2>4. QED
    BY <2>2, <2>3 DEF DetInv
<1>3. CASE Open
  <2>1. CASE ~MayDismiss
    <3>1. UNCHANGED <<sheet, browser>>
      BY <1>3, <2>1 DEF Open
    <3>2. SheetTypeOK' /\ SheetOK' /\ OneHandoff'
      BY <1>1, <3>1 DEF DetInv, SheetTypeOK, SheetOK, OneHandoff, Modal, NoSheet
    <3>3. QED
      BY <3>2 DEF DetInv
  <2>2. CASE MayDismiss
    <3>1. /\ sheet' = [sheet EXCEPT !.phase = "leaving", !.leaving = TRUE, !.opens = TRUE]
          /\ browser' = [browser EXCEPT !.held = @ + 1]
          /\ sheet.phase = "up" /\ ~sheet.leaving
      BY <1>3, <2>2 DEF Open, MayDismiss
    <3>2. /\ sheet' \in Sheet /\ sheet'.opens = TRUE /\ sheet'.leaving = TRUE
          /\ sheet'.phase = "leaving" /\ sheet'.by = sheet.by
          /\ browser' \in [held : Nat, opened : Nat] /\ browser'.held = browser.held + 1
          /\ browser'.opened = browser.opened
      <4>1. sheet' \in Sheet
        BY <1>1, <3>1 DEF Sheet, Phase
      <4>2. /\ sheet'.opens = TRUE /\ sheet'.leaving = TRUE
            /\ sheet'.phase = "leaving" /\ sheet'.by = sheet.by
        BY <1>1, <3>1 DEF Sheet
      <4>3. /\ browser' \in [held : Nat, opened : Nat] /\ browser'.held = browser.held + 1
            /\ browser'.opened = browser.opened
        BY <1>1, <3>1
      <4>4. QED
        BY <4>1, <4>2, <4>3
    <3>3. browser.held = 0 /\ browser.opened = 0
      BY <1>1, <3>1 DEF DetInv, SheetOK, OneHandoff, Modal, Sheet
    <3>4. SheetTypeOK' /\ SheetOK'
      BY <1>1, <3>2 DEF DetInv, SheetTypeOK, SheetOK
    <3>5. OneHandoff'
      BY <3>2, <3>3 DEF OneHandoff, Modal
    <3>6. QED
      BY <3>4, <3>5 DEF DetInv
  <2>3. QED
    BY <2>1, <2>2
<1>4. CASE Gone
  <2>1. /\ sheet' = NoSheet /\ sheet.phase # "none"
        /\ NoSheet \in Sheet /\ NoSheet.opens = FALSE /\ NoSheet.phase = "none"
        /\ NoSheet.by = "none"
    BY <1>4 DEF Gone, NoSheet, Sheet, Presenter, Phase
  <2>2. browser.opened = 0 /\ browser.held = IF sheet.opens THEN 1 ELSE 0
    BY <2>1 DEF DetInv, OneHandoff, Modal
  <2>3. /\ browser' \in [held : Nat, opened : Nat]
        /\ browser'.held = 0 /\ browser'.opened \in {0, 1}
    <3>1. CASE sheet.opens
      BY <1>1, <1>4, <2>2, <3>1 DEF Gone
    <3>2. CASE ~sheet.opens
      BY <1>1, <1>4, <2>2, <3>2 DEF Gone
    <3>3. QED
      BY <3>1, <3>2
  <2>4. SheetTypeOK' /\ SheetOK'
    BY <1>1, <2>1, <2>3 DEF DetInv, SheetTypeOK, SheetOK
  <2>5. OneHandoff'
    BY <2>1, <2>3 DEF OneHandoff, Modal
  <2>6. QED
    BY <2>4, <2>5 DEF DetInv
<1>5. QED
  BY <1>2, <1>3, <1>4

\* The invariant of the sheet holds of every reachable state.
LEMMA AlwaysDetInv == DetSpec => []DetInv
<1>1. DetInit => DetInv
  <2> SUFFICES ASSUME DetInit PROVE DetInv
    OBVIOUS
  <2>1. SheetTypeOK
    BY DEF DetInit, SheetTypeOK, Sheet, Strip, Editor, NoSheet, Presenter, Phase
  <2>2. SheetOK /\ OneHandoff
    BY DEF DetInit, SheetOK, OneHandoff, NoSheet, Modal
  <2>3. QED
    BY <2>1, <2>2 DEF DetInv
<1>2. DetInv /\ [DetNext]_detVars => DetInv'
  <2> SUFFICES ASSUME DetInv, [DetNext]_detVars PROVE DetInv'
    OBVIOUS
  <2>1. CASE UNCHANGED detVars
    BY <2>1 DEF detVars, DetInv, SheetTypeOK, SheetOK, OneHandoff, Modal, NoSheet
  <2>2. QED
    BY <2>1, InputStep, ShowStep, LeaveStep DEF DetNext
<1>3. QED
  BY <1>1, <1>2, PTL DEF DetSpec

\* The URL of a sheet is handed over once at most, however quickly its ways
\* out follow each other.
THEOREM AlwaysOneHandoff == DetSpec => []OneHandoff
<1>1. DetInv => OneHandoff
  BY DEF DetInv
<1>2. QED
  BY <1>1, AlwaysDetInv, PTL

\* A held attachment is shown only while it is there to be shown, and under no
\* strip.
THEOREM AlwaysDetailsFresh == DetSpec => DetailsFresh
<1>1. DetInv /\ [DetNext]_detVars =>
        (due # NoEmote /\ due' = NoEmote /\ sheet' # sheet =>
            sheet'.of = due /\ editor.window /\ due \in editor.text)
  <2> SUFFICES ASSUME DetInv, [DetNext]_detVars,
                      due # NoEmote, due' = NoEmote, sheet' # sheet
               PROVE  sheet'.of = due /\ editor.window /\ due \in editor.text
    OBVIOUS
  <2>1. ShowDue
    BY DetailsAssumption
       DEF DetNext, detVars, Edits, Moved, Ticks, InputLayout, TouchDown, Hold, HoldTile,
           TapMessage, Close, Open, Presented, Swipe, Gone, TwitchPresents, ActiveChanges
  <2>2. StillThere(editor, due) /\ Present("composer", due)
    BY <2>1 DEF ShowDue
  <2>3. sheet' = [NoSheet EXCEPT !.by = "composer", !.of = due, !.phase = "presenting"]
    BY <2>2 DEF Present
  <2>4. QED
    BY <2>2, <2>3 DEF StillThere, NoSheet
<1>2. DetInv => (sheet.by = "composer" => strip.hidden \/ ~strip.placed)
  BY DEF DetInv, SheetOK
<1>3. QED
  BY <1>1, <1>2, AlwaysDetInv, PTL DEF DetSpec, DetailsFresh

-----------------------------------------------------------------------------
(* The library                                                             *)

Holds == [version : Nat, aspects : Nat]
Stages == {"free", "changed", "raised", "held"}

LibraryTypeOK ==
    /\ catalogue \in [version : Nat, aspects : Nat, stage : Stages, settled : Nat]
    /\ revision \in Nat /\ reading \in Nat \cup {Absent} /\ copied \in Holds
    /\ library.valid \in BOOLEAN /\ library.revision \in Nat /\ library.contents \in Holds

\* What was copied since a revision was read, or is in a snapshot, is of that
\* revision or a later one, and if of the present one it has the aspects that
\* were known when it came.
AtLeast(r, c) ==
    /\ r <= revision /\ r <= c.version /\ c.version <= catalogue.version
    /\ r = revision => c.aspects >= catalogue.settled

\* A change of the catalogue is one version and one revision: the revision lags
\* while a change is yet to raise it, and leads while a set is yet to be emptied.
\* A snapshot may be newer than it says, and never older.
Numbered ==
    /\ catalogue.version = revision + (CASE catalogue.stage = "changed" -> 1
                                        [] catalogue.stage = "raised" -> -1
                                        [] OTHER -> 0)
    /\ catalogue.settled <= catalogue.aspects
    /\ reading # Absent => reading <= revision
    /\ copied # NoContents => reading # Absent /\ AtLeast(reading, copied)
    /\ library.valid => AtLeast(library.revision, library.contents)

PickInv == LibraryTypeOK /\ Numbered

\* A writer's step keeps what snapshots hold: it raises the revision, which they
\* are then not of, or adds to the contents.
LEMMA WriterStep ==
  ASSUME PickInv, UNCHANGED libraryVars,
         catalogue' \in [version : Nat, aspects : Nat, stage : Stages, settled : Nat],
         \/ /\ revision' = revision + 1 /\ catalogue'.version = catalogue.version
            /\ catalogue'.aspects = catalogue.aspects
            /\ catalogue'.settled = catalogue.aspects
            /\ \/ catalogue.stage = "changed" /\ catalogue'.stage \in {"free", "held"}
               \/ catalogue.stage \in {"free", "held"} /\ catalogue'.stage = "raised"
         \/ /\ revision' = revision /\ catalogue'.version = catalogue.version + 1
            /\ catalogue'.aspects = catalogue.aspects
            /\ catalogue'.settled = catalogue.settled
            /\ \/ catalogue.stage = "raised" /\ catalogue'.stage \in {"free", "held"}
               \/ catalogue.stage \in {"free", "held"} /\ catalogue'.stage = "changed"
         \/ /\ revision' = revision /\ catalogue'.version = catalogue.version
            /\ catalogue'.aspects = catalogue.aspects + 1
            /\ catalogue'.settled = catalogue.settled
            /\ catalogue'.stage = catalogue.stage
  PROVE  PickInv'
<1>1. UNCHANGED <<reading, copied, library>>
  BY DEF libraryVars
<1>2. /\ LibraryTypeOK /\ Numbered /\ revision \in Nat /\ catalogue.version \in Nat
      /\ catalogue.aspects \in Nat /\ catalogue.settled \in Nat
      /\ catalogue.settled <= catalogue.aspects
  BY DEF PickInv, LibraryTypeOK, Numbered
<1>3. revision' \in Nat /\ LibraryTypeOK'
  BY <1>1, <1>2 DEF LibraryTypeOK
<1>4. ASSUME NEW r \in Nat, NEW c \in Holds, AtLeast(r, c)
      PROVE  AtLeast(r, c)'
  BY <1>2, <1>4 DEF AtLeast, Holds
<1>5. catalogue'.version = revision' + (CASE catalogue'.stage = "changed" -> 1
                                        [] catalogue'.stage = "raised" -> -1
                                        [] OTHER -> 0)
  BY <1>2 DEF Numbered
<1>6. catalogue'.settled <= catalogue'.aspects
  BY <1>2
<1>7. reading # Absent => reading <= revision'
  BY <1>2 DEF Numbered, LibraryTypeOK
<1>8. ASSUME copied # NoContents
      PROVE  reading # Absent /\ AtLeast(reading, copied)'
  <2>1. reading # Absent /\ AtLeast(reading, copied) /\ reading \in Nat /\ copied \in Holds
    BY <1>2, <1>8 DEF Numbered, LibraryTypeOK
  <2>2. PICK r \in Nat, c \in Holds : r = reading /\ c = copied
    BY <2>1
  <2>3. AtLeast(r, c)'
    BY <1>4, <2>1, <2>2
  <2>4. QED
    BY <1>1, <2>1, <2>2, <2>3 DEF AtLeast
<1>9. ASSUME library.valid
      PROVE  AtLeast(library.revision, library.contents)'
  <2>1. /\ AtLeast(library.revision, library.contents)
        /\ library.revision \in Nat /\ library.contents \in Holds
    BY <1>2, <1>9 DEF Numbered, LibraryTypeOK
  <2>2. PICK r \in Nat, c \in Holds : r = library.revision /\ c = library.contents
    BY <2>1
  <2>3. AtLeast(r, c)'
    BY <1>4, <2>1, <2>2
  <2>4. QED
    BY <1>1, <2>1, <2>2, <2>3 DEF AtLeast
<1>10. QED
  BY <1>1, <1>3, <1>5, <1>6, <1>7, <1>8, <1>9 DEF PickInv, Numbered, NoContents, Contents

\* The invariant of the library holds in every reachable state.
LEMMA AlwaysPickInv == PickSpec => []PickInv
<1>1. PickInit => PickInv
  BY DEF PickInit, PickInv, LibraryTypeOK, Numbered, Empty1, NoContents, Contents, Holds, Stages
<1>2. PickInv /\ [PickNext]_pickVars => PickInv'
  <2> SUFFICES ASSUME PickInv, [PickNext]_pickVars PROVE PickInv'
    OBVIOUS
  <2> USE DEF PickInv, LibraryTypeOK, Numbered
  <2>1. CASE Change \/ RoomEmptied
    <3>1. catalogue \in [version : Nat, aspects : Nat, stage : Stages, settled : Nat]
      OBVIOUS
    <3>2. PICK st \in Stages : Changed(st) /\
             \/ catalogue.stage = "raised" /\ st \in {"free", "held"}
             \/ catalogue.stage \in {"free", "held"} /\ st = "changed"
      BY <2>1 DEF Change, RoomEmptied, MayWrite, Stages
    <3>3. PICK n \in Nat : n = catalogue.version + 1
      BY <3>1
    <3>4. /\ UNCHANGED libraryVars /\ revision' = revision
          /\ catalogue' = [catalogue EXCEPT !.stage = st, !.version = n]
      BY <3>2, <3>3 DEF Changed
    <3>5. /\ catalogue' \in [version : Nat, aspects : Nat, stage : Stages, settled : Nat]
          /\ catalogue'.version = n /\ catalogue'.stage = st
          /\ catalogue'.aspects = catalogue.aspects /\ catalogue'.settled = catalogue.settled
      BY <3>1, <3>4
    <3>6. QED
      BY <3>2, <3>3, <3>4, <3>5, WriterStep
  <2>2. CASE CatalogChanged \/ ResetRoom
    <3>1. catalogue \in [version : Nat, aspects : Nat, stage : Stages, settled : Nat]
      OBVIOUS
    <3>2. PICK st \in Stages : Raised(st) /\
             \/ catalogue.stage = "changed" /\ st \in {"free", "held"}
             \/ catalogue.stage \in {"free", "held"} /\ st = "raised"
      BY <2>2 DEF CatalogChanged, ResetRoom, MayWrite, Stages
    <3>3. QED
      BY <3>1, <3>2, WriterStep DEF Raised
  <2>3. CASE UpdateImageAspect
    <3>1. catalogue \in [version : Nat, aspects : Nat, stage : Stages, settled : Nat]
      OBVIOUS
    <3>2. QED
      BY <2>3, <3>1, WriterStep DEF UpdateImageAspect
  <2>4. ASSUME NEW w, RefreshLibrary(w)
        PROVE  PickInv'
    BY <2>4 DEF RefreshLibrary, AtLeast
  <2>5. CASE CopyLibrary
    <3>1. /\ copied' = [version |-> catalogue.version, aspects |-> catalogue.aspects]
          /\ catalogue.stage = "free" /\ reading # Absent
          /\ UNCHANGED <<catalogue, revision, reading, library>>
      BY <2>5 DEF CopyLibrary, MayCopy, Contents
    <3>2. copied' \in Holds /\ catalogue.version = revision
      BY <3>1 DEF Holds
    <3>3. AtLeast(reading, copied)'
      BY <3>1, <3>2 DEF AtLeast
    <3>4. QED
      BY <3>1, <3>2, <3>3 DEF AtLeast, NoContents, Contents
  <2>6. CASE TakeLibrary
    <3>1. /\ library'.valid /\ library'.revision = reading /\ library'.contents = copied
          /\ copied # NoContents /\ reading' = Absent /\ copied' = NoContents
          /\ UNCHANGED <<catalogue, revision>>
      BY <2>6 DEF TakeLibrary, CopiedRevision
    <3>2. NoContents \in Holds
      BY DEF NoContents, Contents, Holds
    <3>3. library'.valid \in BOOLEAN
      BY <2>6 DEF TakeLibrary
    <3>4. QED
      BY <3>1, <3>2, <3>3 DEF AtLeast
  <2>7. ASSUME UNCHANGED <<catalogue, revision, libraryVars>>
        PROVE  PickInv'
    BY <2>7 DEF libraryVars, AtLeast
  <2>8. CASE \E visible, entries \in BOOLEAN, p \in Palettes \cup {Absent}, n \in {0, 2},
               L \in Layouts : PickerLayout(visible, p, n, L, entries)
    BY <2>7, <2>8 DEF PickerLayout
  <2>9. CASE FooterMoved \/ PaletteDies \/ UNCHANGED pickVars
    BY <2>7, <2>9 DEF FooterMoved, PaletteDies, pickVars
  <2>10. CASE Ask
    BY <2>4, <2>10 DEF Ask
  <2>11. QED
    BY <2>1, <2>2, <2>3, <2>5, <2>6, <2>8, <2>9, <2>10 DEF PickNext
<1>3. QED
  BY <1>1, <1>2, PTL DEF PickSpec

\* A snapshot that counts as current holds the present sets, though writers may
\* raise the revision before they change them, and the aspects that were known
\* when the revision was raised last.
THEOREM AlwaysLibraryCurrent == PickSpec => []LibraryCurrent
<1>1. PickInv => LibraryCurrent
  <2> SUFFICES ASSUME PickInv, reading = Absent, catalogue.stage # "changed", ~Stale(wanted)
               PROVE  /\ library.contents.version = catalogue.version
                      /\ library.contents.aspects >= catalogue.settled
    BY DEF LibraryCurrent
  <2>1. AtLeast(library.revision, library.contents) /\ library.revision = revision
    BY DEF PickInv, Numbered, Stale
  <2>2. /\ revision \in Nat /\ catalogue.version \in Nat /\ library.contents.version \in Nat
        /\ catalogue.version <= revision
    BY DEF PickInv, LibraryTypeOK, Numbered, Holds
  <2>3. QED
    BY <2>1, <2>2 DEF AtLeast
<1>2. QED
  BY <1>1, AlwaysPickInv, PTL

-----------------------------------------------------------------------------
(* The footer                                                              *)

Painting == [Views -> Colours]
Paint == [shown : Painting, tab : {0, 1}, inactive : Colours,
          recent : BOOLEAN, recentColours : Painting,
          library : BOOLEAN, libraryColours : Painting]

\* What Twitch's colours are, below the composer's paint.
Below(p) == IF p.library THEN p.libraryColours
            ELSE IF p.recent THEN p.recentColours ELSE p.shown

\* At most one of the composer's rows paints, and the one that does has kept
\* every colour Twitch asked for, but the ones that are lost.
PaintOK(p, asks, gone) ==
    /\ p \in Paint
    /\ p.library => p.tab = 1
    /\ p.recent => p.tab = 0
    /\ \A v \in Views \ gone : Below(p)[v] = asks[v]
    /\ p.library => \A v \in Views : p.shown[v] = IF v <= 3 THEN p.inactive ELSE Nil

FootInv ==
    /\ PaintOK(paint, want, lost)
    /\ want \in Painting /\ lost \in SUBSET Views /\ section \in Sections
    /\ owed \in SUBSET Views

\* The colours nothing has painted, and those of Twitch, are paintings.
LEMMA UnsetOK == Unset \in Painting /\ \A k \in Sections : Native(k) \in Painting
BY DEF Unset, Native, Painting, Colours

\* Taking the paint off the recent row leaves the library row alone.
LEMMA RestoreRecentOK ==
  ASSUME NEW p, NEW asks, NEW gone, PaintOK(p, asks, gone)
  PROVE  /\ PaintOK(RestoreRecent(p), asks, gone)
         /\ ~RestoreRecent(p).recent /\ RestoreRecent(p).tab = p.tab
         /\ RestoreRecent(p).library = p.library
<1>1. CASE ~p.recent
  BY <1>1 DEF RestoreRecent
<1>2. CASE p.recent
  <2>1. PICK q : q = [p EXCEPT !.shown = p.recentColours, !.recent = FALSE, !.recentColours = Unset]
    OBVIOUS
  <2>2. /\ q \in Paint /\ q.shown = p.recentColours /\ q.recent = FALSE /\ q.tab = p.tab
        /\ q.library = p.library
    BY <2>1, UnsetOK DEF PaintOK, Paint
  <2>3. RestoreRecent(p) = q /\ ~p.library
    BY <1>2, <2>1 DEF RestoreRecent, PaintOK
  <2>4. QED
    BY <1>2, <2>2, <2>3 DEF PaintOK, Below
<1>3. QED
  BY <1>1, <1>2

\* And the other way round.
LEMMA RestoreLibraryOK ==
  ASSUME NEW p, NEW asks, NEW gone, PaintOK(p, asks, gone)
  PROVE  /\ PaintOK(RestoreLibrary(p), asks, gone)
         /\ ~RestoreLibrary(p).library /\ RestoreLibrary(p).recent = p.recent
<1>1. CASE ~p.library
  BY <1>1 DEF RestoreLibrary
<1>2. CASE p.library
  <2>1. PICK q : q = [p EXCEPT !.shown = p.libraryColours, !.library = FALSE,
                               !.libraryColours = Unset, !.inactive = Nil]
    OBVIOUS
  <2>2. /\ q \in Paint /\ q.shown = p.libraryColours /\ q.library = FALSE /\ q.tab = p.tab
        /\ q.recent = p.recent
    BY <2>1, UnsetOK DEF PaintOK, Paint, Colours
  <2>3. RestoreLibrary(p) = q /\ ~p.recent
    BY <1>2, <2>1 DEF RestoreLibrary, PaintOK
  <2>4. QED
    BY <1>2, <2>2, <2>3 DEF PaintOK, Below
<1>3. QED
  BY <1>1, <1>2

\* The tab the library leads from, with no paint in its way, and the others'.
LEMMA TabOn ==
  ASSUME NEW p, NEW asks, NEW gone, PaintOK(p, asks, gone), ~p.recent
  PROVE  PaintOK([p EXCEPT !.tab = 1], asks, gone)
<1>1. PICK q : q = [p EXCEPT !.tab = 1]
  OBVIOUS
<1>2. /\ q \in Paint /\ q.tab = 1 /\ q.shown = p.shown /\ q.recent = p.recent
      /\ q.recentColours = p.recentColours /\ q.library = p.library
      /\ q.libraryColours = p.libraryColours /\ q.inactive = p.inactive
  BY <1>1 DEF PaintOK, Paint
<1>3. PaintOK(q, asks, gone)
  BY <1>2 DEF PaintOK, Below
<1>4. QED
  BY <1>1, <1>3

\* A tab that is let go paints nothing when the library does not.
LEMMA TabOff ==
  ASSUME NEW p, NEW asks, NEW gone, PaintOK(p, asks, gone), ~p.library
  PROVE  PaintOK([p EXCEPT !.tab = 0], asks, gone)
<1>1. PICK q : q = [p EXCEPT !.tab = 0]
  OBVIOUS
<1>2. /\ q \in Paint /\ q.tab = 0 /\ q.shown = p.shown /\ q.recent = p.recent
      /\ q.recentColours = p.recentColours /\ q.library = p.library
      /\ q.libraryColours = p.libraryColours /\ q.inactive = p.inactive
  BY <1>1 DEF PaintOK, Paint
<1>3. PaintOK(q, asks, gone)
  BY <1>2 DEF PaintOK, Below
<1>4. QED
  BY <1>1, <1>3

\* The library row paints over what Twitch asked for, and keeps that below.
LEMMA UpdateLibraryOK ==
  ASSUME NEW p, NEW asks, NEW gone, PaintOK(p, asks, gone)
  PROVE  PaintOK(UpdateLibrary(p), asks, gone)
<1>1. CASE p.tab # 1
  BY <1>1 DEF UpdateLibrary
<1>2. CASE p.tab = 1
  <2>1. PICK kept \in Painting : kept = IF p.library THEN p.libraryColours ELSE p.shown
    BY DEF PaintOK, Paint
  <2>2. PICK plains \in SUBSET Sections : plains = {i \in Sections : kept[i + 3] = Nil}
    BY DEF Sections
  <2>3. plains # {} => \E i \in plains : \A j \in plains : j <= i
    <3>1. plains \in SUBSET {1, 2, 3}
      BY DEF Sections
    <3>2. CASE 3 \in plains
      BY <3>1, <3>2
    <3>3. CASE 3 \notin plains /\ 2 \in plains
      BY <3>1, <3>3
    <3>4. CASE 3 \notin plains /\ 2 \notin plains
      <4>1. \A j \in plains : j = 1
        BY <3>1, <3>4
      <4>2. plains # {} => 1 \in plains
        BY <4>1
      <4>3. QED
        BY <4>1, <4>2
    <3>5. QED
      BY <3>2, <3>3, <3>4
  <2>4. PICK last : last = CHOOSE i \in plains : \A j \in plains : j <= i
    OBVIOUS
  <2>5. plains # {} => last \in plains
    BY <2>3, <2>4
  <2>6. PICK inactive \in Colours : inactive = IF plains = {} THEN Plain ELSE kept[last]
    BY <2>1, <2>2, <2>5 DEF Painting, Colours, Sections, Views
  <2>7. PICK tints \in Painting : tints = [v \in Views |-> IF v <= 3 THEN inactive ELSE Nil]
    BY DEF Painting, Colours
  <2>8. PICK q : q = [p EXCEPT !.library = TRUE, !.libraryColours = kept, !.inactive = inactive,
                               !.shown = tints]
    OBVIOUS
  <2>9. UpdateLibrary(p) = q
    BY <1>2, <2>1, <2>2, <2>4, <2>6, <2>7, <2>8 DEF UpdateLibrary
  <2>10. /\ q \in Paint /\ q.tab = p.tab /\ q.library = TRUE /\ q.libraryColours = kept
         /\ q.inactive = inactive /\ q.shown = tints /\ q.recent = p.recent
    BY <2>8 DEF PaintOK, Paint
  <2>11. PaintOK(q, asks, gone)
    BY <1>2, <2>1, <2>7, <2>10 DEF PaintOK, Below
  <2>12. QED
    BY <2>9, <2>11
<1>3. QED
  BY <1>1, <1>2

\* So does the recent row.
LEMMA UpdateRecentOK ==
  ASSUME NEW p, NEW asks, NEW gone, PaintOK(p, asks, gone), NEW leads
  PROVE  PaintOK(UpdateRecent(p, leads), asks, gone)
<1>1. CASE ~(leads = "recent" /\ p.tab # 1)
  BY <1>1, RestoreRecentOK DEF UpdateRecent
<1>2. CASE leads = "recent" /\ p.tab # 1
  <2>1. PICK accent \in Colours : accent = IF p.shown[5] # Nil THEN p.shown[5] ELSE p.shown[6]
    BY DEF PaintOK, Paint, Painting, Views
  <2>2. CASE p.recent \/ p.shown[4] # Nil \/ accent = Nil
    BY <1>2, <2>1, <2>2 DEF UpdateRecent
  <2>3. CASE ~(p.recent \/ p.shown[4] # Nil \/ accent = Nil)
    <3>0. p.shown[1] \in Colours /\ Nil \in Colours
      BY DEF PaintOK, Paint, Painting, Colours, Views
    <3>1. PICK tints \in Painting :
              tints = [v \in Views |-> IF v \in {1, 4} THEN accent
                                       ELSE IF v <= 3 THEN p.shown[1] ELSE Nil]
      BY <2>1, <3>0 DEF Painting
    <3>2. PICK q : q = [p EXCEPT !.recent = TRUE, !.recentColours = p.shown, !.shown = tints]
      OBVIOUS
    <3>3. UpdateRecent(p, leads) = q
      BY <1>2, <2>1, <2>3, <3>1, <3>2 DEF UpdateRecent
    <3>4. /\ q \in Paint /\ q.tab = p.tab /\ q.recent = TRUE /\ q.recentColours = p.shown
          /\ q.library = p.library
      BY <3>2 DEF PaintOK, Paint
    <3>5. p.tab = 0 /\ ~p.library /\ ~p.recent
      BY <1>2, <2>3 DEF PaintOK, Paint
    <3>6. PaintOK(q, asks, gone)
      BY <3>4, <3>5 DEF PaintOK, Below
    <3>7. QED
      BY <3>3, <3>6
  <2>4. QED
    BY <2>2, <2>3
<1>3. QED
  BY <1>1, <1>2

\* At most one of the rows paints after an update of both.
LEMMA UpdateInlineOK ==
  ASSUME NEW p, NEW asks, NEW gone, PaintOK(p, asks, gone), NEW leads
  PROVE  PaintOK(UpdateInline(p, leads), asks, gone)
<1>1. CASE leads = "library"
  <2>1. PICK q : q = RestoreRecent(p)
    OBVIOUS
  <2>2. PaintOK(q, asks, gone) /\ ~q.recent
    BY <2>1, RestoreRecentOK
  <2>3. PICK r : r = [q EXCEPT !.tab = 1]
    OBVIOUS
  <2>4. PaintOK(r, asks, gone)
    BY <2>2, <2>3, TabOn
  <2>5. UpdateInline(p, leads) = UpdateLibrary(r)
    BY <1>1, <2>1, <2>3 DEF UpdateInline
  <2>6. QED
    BY <2>4, <2>5, UpdateLibraryOK
<1>2. CASE leads # "library"
  <2>1. PICK q : q = RestoreLibrary(p)
    OBVIOUS
  <2>2. PaintOK(q, asks, gone) /\ ~q.library
    BY <2>1, RestoreLibraryOK
  <2>3. PaintOK([q EXCEPT !.tab = 0], asks, gone)
    BY <2>2, TabOff
  <2>4. QED
    BY <1>2, <2>1, <2>3 DEF UpdateInline
<1>3. QED
  BY <1>1, <1>2

\* After a restoration no row paints.
LEMMA RestoreNativeOK ==
  ASSUME NEW p, NEW asks, NEW gone, PaintOK(p, asks, gone)
  PROVE  /\ PaintOK(RestoreNative(p), asks, gone)
         /\ ~RestoreNative(p).library /\ ~RestoreNative(p).recent
<1>1. PICK q : q = RestoreRecent(p)
  OBVIOUS
<1>2. PaintOK(q, asks, gone) /\ ~q.recent
  BY <1>1, RestoreRecentOK
<1>3. PICK r : r = RestoreLibrary(q)
  OBVIOUS
<1>4. PaintOK(r, asks, gone) /\ ~r.library /\ ~r.recent
  BY <1>2, <1>3, RestoreLibraryOK
<1>5. PaintOK([r EXCEPT !.tab = 0], asks, gone)
  BY <1>4, TabOff
<1>6. RestoreNative(p) = [r EXCEPT !.tab = 0]
  BY <1>1, <1>3 DEF RestoreNative
<1>7. [r EXCEPT !.tab = 0].library = r.library /\ [r EXCEPT !.tab = 0].recent = r.recent
  BY <1>4 DEF PaintOK, Paint
<1>8. QED
  BY <1>4, <1>5, <1>6, <1>7

\* A colour Twitch asks for is kept, or shown, and under the recent row's paint
\* lost.
LEMMA WrittenOK ==
  ASSUME NEW p, NEW asks \in Painting, NEW gone \in SUBSET Views, PaintOK(p, asks, gone),
         NEW views \in SUBSET Views, NEW colours \in Painting, NEW asks2, NEW gone2,
         asks2 = [v \in Views |-> IF v \in views THEN colours[v] ELSE asks[v]],
         gone2 = IF p.recent THEN gone \cup views ELSE gone \ views
  PROVE  PaintOK(Written(p, views, colours), asks2, gone2) /\ asks2 \in Painting
         /\ gone2 \in SUBSET Views
<1>1. asks2 \in Painting /\ gone2 \in SUBSET Views
  BY DEF Painting
<1> DEFINE new(old) == [v \in Views |-> IF v \in views THEN colours[v] ELSE old[v]]
<1>2. CASE p.tab = 1 /\ p.library
  <2>1. PICK kept \in Painting : kept = new(p.libraryColours)
    BY DEF PaintOK, Paint, Painting
  <2>2. PICK q : q = [p EXCEPT !.libraryColours = kept]
    OBVIOUS
  <2>3. Written(p, views, colours) = q
    BY <1>2, <2>1, <2>2 DEF Written
  <2>4. /\ q \in Paint /\ q.tab = p.tab /\ q.library = p.library /\ q.recent = p.recent
        /\ q.libraryColours = kept /\ q.inactive = p.inactive /\ q.shown = p.shown
    BY <2>2 DEF PaintOK, Paint
  <2>5. \A v \in Views \ gone2 : kept[v] = asks2[v]
    BY <1>2, <2>1 DEF PaintOK, Below, Paint
  <2>6. PaintOK(q, asks2, gone2)
    BY <1>2, <2>4, <2>5 DEF PaintOK, Below
  <2>7. QED
    BY <1>1, <2>3, <2>6
<1>3. CASE ~(p.tab = 1 /\ p.library)
  <2>1. PICK tints \in Painting : tints = new(p.shown)
    BY DEF PaintOK, Paint, Painting
  <2>2. PICK q : q = [p EXCEPT !.shown = tints]
    OBVIOUS
  <2>3. Written(p, views, colours) = q
    BY <1>3, <2>1, <2>2 DEF Written
  <2>4. /\ q \in Paint /\ q.tab = p.tab /\ q.library = p.library /\ q.recent = p.recent
        /\ q.recentColours = p.recentColours /\ q.shown = tints
    BY <2>2 DEF PaintOK, Paint
  <2>5. ~p.library
    BY <1>3 DEF PaintOK
  <2>6. \A v \in Views \ gone2 : Below(q)[v] = asks2[v]
    BY <2>1, <2>4, <2>5 DEF PaintOK, Below
  <2>7. PaintOK(q, asks2, gone2)
    BY <2>4, <2>5, <2>6 DEF PaintOK
  <2>8. QED
    BY <1>1, <2>3, <2>7
<1>4. QED
  BY <1>2, <1>3

\* The invariant of the footer holds in every reachable state.
LEMMA AlwaysFootInv == FootSpec => []FootInv
<1>1. FootInit => FootInv
  <2> SUFFICES ASSUME FootInit PROVE FootInv
    OBVIOUS
  <2>1. 1 \in Sections /\ Native(1) \in Painting /\ Unset \in Painting
    BY UnsetOK DEF Sections
  <2>2. paint \in Paint /\ ~paint.library /\ ~paint.recent /\ paint.shown = want
    BY <2>1 DEF FootInit, Paint, Colours
  <2>3. QED
    BY <2>1, <2>2 DEF FootInit, FootInv, PaintOK, Below
<1>2. FootInv /\ [FootNext]_footVars => FootInv'
  <2> SUFFICES ASSUME FootInv, [FootNext]_footVars PROVE FootInv'
    OBVIOUS
  <2>1. /\ PaintOK(paint, want, lost) /\ want \in Painting /\ lost \in SUBSET Views
        /\ section \in Sections /\ owed \in SUBSET Views /\ Selectable \subseteq Sections
        /\ \A k \in Sections : Native(k) \in Painting
    BY FooterAssumption, UnsetOK DEF FootInv
  <2>2. CASE UNCHANGED footVars
    BY <2>2 DEF footVars, FootInv
  <2>3. ASSUME NEW k \in Selectable, Apply(k)
        PROVE  FootInv'
    <3>1. PICK clean : clean = IF paint.tab = 1 THEN RestoreRecent(paint)
                               ELSE RestoreLibrary(RestoreRecent(paint))
      OBVIOUS
    <3>2. PaintOK(clean, want, lost)
      <4>1. PICK q : q = RestoreRecent(paint)
        OBVIOUS
      <4>2. PaintOK(q, want, lost)
        BY <2>1, <4>1, RestoreRecentOK
      <4>3. QED
        BY <3>1, <4>1, <4>2, RestoreLibraryOK
    <3>3. PICK written : written = Written(clean, Views, Native(k))
      OBVIOUS
    <3>4. PaintOK(written, want', lost') /\ want' \in Painting /\ lost' \in SUBSET Views
      <4>1. TwitchWrites(clean, Views, Native(k))
        BY <2>3, <3>1 DEF Apply
      <4>2. QED
        BY <2>1, <3>2, <3>3, <4>1, WrittenOK DEF TwitchWrites
    <3>5. PICK painted : painted = UpdateLibrary(written)
      OBVIOUS
    <3>6. PaintOK(painted, want', lost')
      BY <3>4, <3>5, UpdateLibraryOK
    <3>7. paint' = UpdateRecent(painted, lead) /\ section' = k /\ owed' = {}
      BY <2>3, <3>1, <3>3, <3>5 DEF Apply
    <3>8. QED
      BY <2>1, <3>4, <3>6, <3>7, UpdateRecentOK DEF FootInv
  <2>4. ASSUME NEW k \in Selectable, OtherFooter(k)
        PROVE  FootInv'
    <3>1. PICK q : q = RestoreNative(paint)
      OBVIOUS
    <3>2. PaintOK(q, want, lost) /\ ~q.library /\ ~q.recent
      BY <2>1, <3>1, RestoreNativeOK
    <3>3. /\ paint' = [q EXCEPT !.shown = Native(k)] /\ section' = k /\ want' = Native(k)
          /\ owed' = {} /\ lost' = {}
      BY <2>4, <3>1 DEF OtherFooter
    <3>4. Native(k) \in Painting
      BY <2>1
    <3>5. /\ paint' \in Paint /\ ~paint'.library /\ ~paint'.recent /\ paint'.shown = Native(k)
      BY <3>2, <3>3, <3>4 DEF PaintOK, Paint
    <3>6. QED
      BY <2>1, <3>3, <3>4, <3>5 DEF FootInv, PaintOK, Below
  <2>5. ASSUME NEW p, PaintOK(p, want, lost), NEW leads,
               paint' = UpdateInline(UpdateRecent(p, leads), leads),
               UNCHANGED <<want, lost>>, section' \in Sections, owed' \in SUBSET Views
        PROVE  FootInv'
    <3>1. PICK q : q = UpdateRecent(p, leads)
      OBVIOUS
    <3>2. PaintOK(q, want, lost)
      BY <2>5, <3>1, UpdateRecentOK
    <3>3. PaintOK(paint', want, lost)
      BY <2>5, <3>1, <3>2, UpdateInlineOK
    <3>4. QED
      BY <2>1, <2>5, <3>3 DEF FootInv
  <2>6. ASSUME NEW k \in Selectable, NEW leads, Scroll(leads, k)
        PROVE  FootInv'
    <3>1. PICK before : before = UpdateInline(paint, leads)
      OBVIOUS
    <3>2. PaintOK(before, want, lost)
      BY <2>1, <3>1, UpdateInlineOK
    <3>3. /\ paint' = UpdateInline(UpdateRecent(before, leads), leads)
          /\ UNCHANGED <<want, lost>>
      BY <2>6, <3>1 DEF Scroll
    <3>4. section' \in Sections /\ owed' \in SUBSET Views
      BY <2>1, <2>6 DEF Scroll
    <3>5. QED
      BY <2>5, <3>2, <3>3, <3>4
  <2>7. ASSUME NEW v \in Views, WorkerWrites(v)
        PROVE  FootInv'
    <3>1. PICK colours \in Painting : colours = Native(section)
      BY <2>1
    <3>2. PICK views \in SUBSET Views : views = {v}
      OBVIOUS
    <3>3. /\ paint' = Written(paint, views, colours) /\ TwitchWrites(paint, views, colours)
          /\ owed' = owed \ {v} /\ section' = section
      BY <2>7, <3>1, <3>2 DEF WorkerWrites
    <3>4. PaintOK(paint', want', lost') /\ want' \in Painting /\ lost' \in SUBSET Views
      BY <2>1, <3>3, WrittenOK, SMTT(30) DEF TwitchWrites
    <3>5. QED
      BY <2>1, <3>3, <3>4 DEF FootInv
  <2>8. ASSUME NEW leads, Press(leads)
        PROVE  FootInv'
    <3>1. PICK restored : restored = RestoreNative(paint)
      OBVIOUS
    <3>2. PaintOK(restored, want, lost)
      BY <2>1, <3>1, RestoreNativeOK
    <3>3. /\ paint' = UpdateInline(UpdateRecent(restored, leads), leads)
          /\ UNCHANGED <<section, owed, want, lost>>
      BY <2>8, <3>1 DEF Press
    <3>4. QED
      BY <2>1, <2>5, <3>2, <3>3
  <2>9. CASE FooterLayout \/ Detach
    <3>1. PaintOK(paint', want, lost) /\ UNCHANGED <<section, owed, want, lost>>
      BY <2>1, <2>9, UpdateLibraryOK, RestoreNativeOK DEF FooterLayout, Detach
    <3>2. QED
      BY <2>1, <3>1 DEF FootInv
  <2>10. QED
    BY <2>2, <2>3, <2>4, <2>6, <2>7, <2>8, <2>9 DEF FootNext
<1>3. QED
  BY <1>1, <1>2, PTL DEF FootSpec

\* Twitch gets its footer back as it last asked for it, and while the library
\* leads nothing of it shows through.
THEOREM AlwaysFooterRestored == FootSpec => []FooterRestored
<1>1. FootInv => FooterRestored
  BY DEF FootInv, PaintOK, Below, FooterRestored
<1>2. QED
  BY <1>1, AlwaysFootInv, PTL

-----------------------------------------------------------------------------
(* Twitch's suggestion table                                               *)

ViewState == [hidden : BOOLEAN, height : Nat]
Stock == [selector : Selectors \cup {None}, colon : BOOLEAN, hidden : BOOLEAN,
          savedHidden : BOOLEAN, heightSaved : BOOLEAN, height : Nat]

\* A table as Twitch set it, but for a height no layout has looked at.
AsSet(view, asks, x, gone) ==
    view.hidden = asks.hidden /\ (view.height = 0 => asks.height = 0 \/ x \in gone)

\* Of a suppressed table, what is saved is what Twitch set, and both halves of
\* it are saved together.
StockOK(s, view, asks, x, gone) ==
    /\ s.heightSaved = s.hidden
    /\ IF s.hidden THEN AsSet([hidden |-> s.savedHidden, height |-> s.height], asks, x, gone)
       ELSE AsSet(view, asks, x, gone)

SelInv ==
    /\ link.selector \in Selectors \cup {None} /\ stock \in Stock
    /\ table \in [Selectors -> ViewState] /\ asked \in [Selectors -> ViewState]
    /\ unseen \in SUBSET Selectors
    /\ \A x \in Selectors :
          IF x = stock.selector THEN StockOK(stock, table[x], asked[x], x, unseen)
          ELSE AsSet(table[x], asked[x], x, unseen)

\* stock_update saves before it squeezes, and gives back all of what it saved.
LEMMA StockUpdateOK ==
  ASSUME NEW s \in Stock, NEW view \in ViewState, NEW asks \in ViewState, NEW ready,
         NEW x, s.selector = x, NEW gone, StockOK(s, view, asks, x, gone),
         NEW after, after = gone \ Seen(s, view, ready), NEW u, u = StockUpdate(s, view, ready)
  PROVE  /\ u.state \in Stock /\ u.view \in ViewState /\ u.state.selector = s.selector
         /\ StockOK(u.state, u.view, asks, x, after)
         /\ ~s.colon => AsSet(u.view, asks, x, gone)
<1>1. CASE Suppress(s, ready)
  <2>1. PICK saved \in BOOLEAN : saved = IF s.hidden THEN s.savedHidden ELSE view.hidden
    BY DEF Stock, ViewState
  <2>2. PICK tall \in Nat :
            tall = IF ~s.heightSaved \/ view.height > 0 THEN view.height ELSE s.height
    BY DEF Stock, ViewState
  <2>3. PICK t : t = [s EXCEPT !.hidden = TRUE, !.savedHidden = saved, !.height = tall,
                               !.heightSaved = TRUE]
    OBVIOUS
  <2>4. u.state = t /\ u.view = [hidden |-> TRUE, height |-> 0]
    BY <1>1, <2>1, <2>2, <2>3 DEF StockUpdate
  <2>5. /\ t \in Stock /\ t.hidden = TRUE /\ t.heightSaved = TRUE /\ t.savedHidden = saved
        /\ t.height = tall /\ t.selector = s.selector
    BY <2>3 DEF Stock
  <2>6. saved = asks.hidden
    BY <2>1 DEF StockOK, AsSet
  <2>7. tall = 0 => asks.height = 0 \/ x \in after
    <3>1. CASE view.height > 0
      BY <2>2, <3>1
    <3>2. CASE view.height = 0
      <4>1. Seen(s, view, ready) = {}
        BY <3>2 DEF Seen
      <4>2. QED
        BY <2>2, <3>2, <4>1 DEF StockOK, AsSet
    <3>3. QED
      BY <3>1, <3>2 DEF ViewState
  <2>8. StockOK(t, u.view, asks, x, after)
    BY <2>5, <2>6, <2>7 DEF StockOK, AsSet
  <2>9. u.view \in ViewState
    BY <2>4 DEF ViewState
  <2>10. s.colon
    BY <1>1 DEF Suppress
  <2>11. QED
    BY <2>4, <2>5, <2>8, <2>9, <2>10
<1>2. CASE ~Suppress(s, ready)
  <2>1. after = gone
    BY <1>2 DEF Seen
  <2>2. PICK t : t = [s EXCEPT !.hidden = FALSE, !.heightSaved = FALSE]
    OBVIOUS
  <2>3. t \in Stock /\ t.hidden = FALSE /\ t.heightSaved = FALSE /\ t.selector = s.selector
    BY <2>2 DEF Stock
  <2>4. u.state = t
    BY <1>2, <2>2 DEF StockUpdate
  <2>5. u.view \in ViewState /\ AsSet(u.view, asks, x, gone)
    <3>1. CASE s.hidden
      <4>1. u.view = [hidden |-> s.savedHidden, height |-> s.height]
        BY <1>2, <3>1 DEF StockUpdate, StockOK
      <4>2. QED
        BY <3>1, <4>1 DEF StockOK, Stock, ViewState
    <3>2. CASE ~s.hidden
      BY <1>2, <3>2 DEF StockUpdate, StockOK
    <3>3. QED
      BY <3>1, <3>2
  <2>6. QED
    BY <2>1, <2>3, <2>4, <2>5 DEF StockOK
<1>3. QED
  BY <1>1, <1>2

\* When a selector is given up, every table is as Twitch set it.
LEMMA ReleasedOK ==
  ASSUME SelInv, NEW ready
  PROVE  /\ Released(stock, table, ready) \in [Selectors -> ViewState]
         /\ \A x \in Selectors :
               AsSet(Released(stock, table, ready)[x], asked[x], x, unseen)
<1>1. CASE stock.selector = None
  BY <1>1, CatalogAssumption DEF SelInv, Released
<1>2. CASE stock.selector # None
  <2>1. PICK y \in Selectors : y = stock.selector
    BY <1>2 DEF SelInv, Stock
  <2>2. PICK s : s = [stock EXCEPT !.colon = FALSE]
    OBVIOUS
  <2>3. /\ s \in Stock /\ s.colon = FALSE /\ s.hidden = stock.hidden
        /\ s.heightSaved = stock.heightSaved /\ s.savedHidden = stock.savedHidden
        /\ s.height = stock.height /\ s.selector = y
    BY <2>1, <2>2 DEF SelInv, Stock
  <2>4. PICK u : u = StockUpdate(s, table[y], ready)
    OBVIOUS
  <2>5. PICK after : after = unseen \ Seen(s, table[y], ready)
    OBVIOUS
  <2>6. StockOK(s, table[y], asked[y], y, unseen) /\ table[y] \in ViewState /\ asked[y] \in ViewState
    BY <2>1, <2>3 DEF SelInv, StockOK
  <2>7. u.view \in ViewState /\ AsSet(u.view, asked[y], y, unseen)
    BY <2>3, <2>4, <2>5, <2>6, StockUpdateOK
  <2>8. Released(stock, table, ready) = [table EXCEPT ![y] = u.view]
    BY <1>2, <2>1, <2>2, <2>4 DEF Released
  <2>9. QED
    BY <2>1, <2>7, <2>8 DEF SelInv
<1>3. QED
  BY <1>1, <1>2

\* stock_update keeps the invariant for the selector it is about.
LEMMA UpdateStep ==
  ASSUME NEW s \in Stock, NEW x \in Selectors, s.selector = x, NEW ready,
         NEW tables \in [Selectors -> ViewState], asked \in [Selectors -> ViewState],
         unseen \in SUBSET Selectors, link.selector \in Selectors \cup {None},
         StockOK(s, tables[x], asked[x], x, unseen),
         \A y \in Selectors \ {x} : AsSet(tables[y], asked[y], y, unseen),
         stock' = StockUpdate(s, tables[x], ready).state,
         table' = [tables EXCEPT ![x] = StockUpdate(s, tables[x], ready).view],
         unseen' = unseen \ Seen(s, tables[x], ready),
         UNCHANGED <<link, asked>>
  PROVE  SelInv'
<1>1. PICK u : u = StockUpdate(s, tables[x], ready)
  OBVIOUS
<1>2. unseen' = unseen \ Seen(s, tables[x], ready)
  OBVIOUS
<1>3. tables[x] \in ViewState /\ asked[x] \in ViewState
  OBVIOUS
<1>4. /\ u.state \in Stock /\ u.view \in ViewState /\ u.state.selector = x
      /\ StockOK(u.state, u.view, asked[x], x, unseen')
  BY <1>1, <1>2, <1>3, StockUpdateOK
<1>5. stock' = u.state /\ table' = [tables EXCEPT ![x] = u.view]
  BY <1>1
<1>6. Seen(s, tables[x], ready) \in {{}, {x}}
  BY DEF Seen
<1>7. /\ unseen' \in SUBSET Selectors
      /\ \A y \in Selectors \ {x} : AsSet(tables[y], asked[y], y, unseen')
  BY <1>2, <1>6 DEF AsSet
<1>8. \A y \in Selectors : table'[y] = IF y = x THEN u.view ELSE tables[y]
  BY <1>5
<1>9. table' \in [Selectors -> ViewState]
  BY <1>4, <1>5
<1>10. \A y \in Selectors :
          IF y = stock'.selector THEN StockOK(stock', table'[y], asked'[y], y, unseen')
          ELSE AsSet(table'[y], asked'[y], y, unseen')
  <2>1. TAKE y \in Selectors
  <2>2. CASE y = x
    BY <1>4, <1>5, <1>7, <1>8, <2>2
  <2>3. CASE y # x
    BY <1>4, <1>5, <1>7, <1>8, <2>3
  <2>4. QED
    BY <2>2, <2>3
<1>11. QED
  BY <1>4, <1>5, <1>7, <1>9, <1>10 DEF SelInv

\* A table that is new to the composer has nothing saved.
LEMMA UntouchedOK ==
  ASSUME NEW x \in Selectors \cup {None}, NEW colon \in BOOLEAN
  PROVE  /\ [[Untouched EXCEPT !.selector = x] EXCEPT !.colon = colon] \in Stock
         /\ [[Untouched EXCEPT !.selector = x] EXCEPT !.colon = colon].selector = x
         /\ ~[[Untouched EXCEPT !.selector = x] EXCEPT !.colon = colon].hidden
         /\ ~[[Untouched EXCEPT !.selector = x] EXCEPT !.colon = colon].heightSaved
BY DEF Untouched, Stock

\* A refresh keeps the invariant of the suggestion table.
LEMMA RefreshSel ==
  ASSUME SelInv, NEW colon \in BOOLEAN, Refresh(colon)
  PROVE  SelInv'
<1>1. PICK x \in Selectors \cup {None} : x = link.selector
  BY DEF SelInv
<1>2. PICK ready : ready = Rebound.ready
  OBVIOUS
<1>3. PICK tables : tables = IF stock.selector # x THEN Released(stock, table, ready) ELSE table
  OBVIOUS
<1>4. PICK s : s = [(IF stock.selector # x THEN [Untouched EXCEPT !.selector = x] ELSE stock)
                      EXCEPT !.colon = colon]
  OBVIOUS
<1>5. /\ x = None => stock' = s /\ table' = tables /\ unseen' = unseen
      /\ x # None => /\ stock' = StockUpdate(s, tables[x], ready).state
                     /\ table' = [tables EXCEPT ![x] = StockUpdate(s, tables[x], ready).view]
                     /\ unseen' = unseen \ Seen(s, tables[x], ready)
      /\ UNCHANGED <<link, asked>>
  BY <1>1, <1>2, <1>3, <1>4 DEF Refresh
<1>6. /\ s \in Stock /\ s.selector = x /\ tables \in [Selectors -> ViewState]
      /\ \A y \in Selectors \ {x} : AsSet(tables[y], asked[y], y, unseen)
      /\ x \in Selectors => StockOK(s, tables[x], asked[x], x, unseen)
  <2>1. CASE stock.selector = x
    <3>1. s = [stock EXCEPT !.colon = colon] /\ tables = table
      BY <1>3, <1>4, <2>1
    <3>2. /\ s \in Stock /\ s.selector = x /\ s.hidden = stock.hidden
          /\ s.heightSaved = stock.heightSaved /\ s.savedHidden = stock.savedHidden
          /\ s.height = stock.height
      BY <2>1, <3>1 DEF SelInv, Stock
    <3>3. x \in Selectors => StockOK(s, tables[x], asked[x], x, unseen)
      BY <2>1, <3>1, <3>2 DEF SelInv, StockOK
    <3>4. QED
      BY <2>1, <3>1, <3>2, <3>3 DEF SelInv
  <2>2. CASE stock.selector # x
    <3>1. /\ s = [[Untouched EXCEPT !.selector = x] EXCEPT !.colon = colon]
          /\ tables = Released(stock, table, ready)
      BY <1>3, <1>4, <2>2
    <3>2. s \in Stock /\ s.selector = x /\ ~s.hidden /\ ~s.heightSaved
      BY <3>1, UntouchedOK
    <3>3. s.heightSaved = s.hidden
      BY <3>2 DEF Stock
    <3>4. QED
      BY <3>1, <3>2, <3>3, ReleasedOK DEF StockOK
  <2>3. QED
    BY <2>1, <2>2
<1>7. CASE x = None
  BY <1>5, <1>6, <1>7, CatalogAssumption DEF SelInv
<1>8. CASE x # None
  <2>1. x \in Selectors
    BY <1>8
  <2>2. QED
    BY <1>5, <1>6, <1>8, <2>1, UpdateStep DEF SelInv
<1>9. QED
  BY <1>7, <1>8

\* Twitch sets a table: what it may not have noticed is what no layout has seen.
LEMMA TwitchSetsSel ==
  ASSUME SelInv, NEW x \in Selectors, NEW hidden \in BOOLEAN, NEW h \in Heights,
         TwitchSets(x, hidden, h)
  PROVE  SelInv'
<1>1. h \in Nat
  BY CatalogAssumption
<1>2. PICK suppressed \in BOOLEAN :
          suppressed = IF x = stock.selector /\ stock.hidden THEN table[x].hidden ELSE hidden
  BY DEF SelInv, ViewState
<1>3. /\ table' = [table EXCEPT ![x] = [hidden |-> suppressed, height |-> h]]
      /\ asked' = [asked EXCEPT ![x] = [hidden |-> hidden, height |-> h]]
      /\ UNCHANGED <<link, stock>>
      /\ x = stock.selector /\ stock.hidden => hidden = asked[x].hidden
      /\ unseen' = IF x = stock.selector /\ stock.hidden THEN unseen \cup {x} ELSE unseen \ {x}
  BY <1>2 DEF TwitchSets
<1>4. /\ table' \in [Selectors -> ViewState] /\ asked' \in [Selectors -> ViewState]
      /\ unseen' \in SUBSET Selectors
  BY <1>1, <1>3 DEF SelInv, ViewState
<1>5. ASSUME NEW y \in Selectors
      PROVE  IF y = stock'.selector THEN StockOK(stock', table'[y], asked'[y], y, unseen')
             ELSE AsSet(table'[y], asked'[y], y, unseen')
  <2>1. CASE y # x
    <3>1. table'[y] = table[y] /\ asked'[y] = asked[y] /\ (y \in unseen <=> y \in unseen')
      BY <1>3, <2>1 DEF SelInv
    <3>2. \A view, asks : AsSet(view, asks, y, unseen) => AsSet(view, asks, y, unseen')
      BY <3>1 DEF AsSet
    <3>3. \A view, asks : StockOK(stock, view, asks, y, unseen)
                              => StockOK(stock, view, asks, y, unseen')
      BY <3>2 DEF StockOK
    <3>4. QED
      BY <1>3, <3>1, <3>2, <3>3 DEF SelInv
  <2>2. CASE y = x
    <3>1. /\ table'[x] = [hidden |-> suppressed, height |-> h]
          /\ asked'[x] = [hidden |-> hidden, height |-> h]
      BY <1>3 DEF SelInv
    <3>2. CASE x = stock.selector /\ stock.hidden
      <4>1. x \in unseen' /\ asked'[x].hidden = stock.savedHidden /\ stock' = stock
        BY <1>3, <3>1, <3>2 DEF SelInv, StockOK, AsSet
      <4>2. stock.heightSaved = stock.hidden
        BY <3>2 DEF SelInv, StockOK
      <4>3. QED
        BY <2>2, <3>2, <4>1, <4>2 DEF StockOK, AsSet
    <3>3. CASE ~(x = stock.selector /\ stock.hidden)
      <4>1. AsSet(table'[x], asked'[x], x, unseen') /\ stock' = stock
        BY <1>2, <1>3, <3>1, <3>3 DEF AsSet
      <4>2. x = stock.selector => stock.heightSaved = stock.hidden
        BY DEF SelInv, StockOK
      <4>3. QED
        BY <2>2, <3>3, <4>1, <4>2 DEF StockOK
    <3>4. QED
      BY <3>2, <3>3
  <2>3. QED
    BY <2>1, <2>2
<1>6. QED
  BY <1>3, <1>4, <1>5 DEF SelInv

\* The invariant of the suggestion table holds in every reachable state.
LEMMA AlwaysSelInv == CatSpec => []SelInv
<1>1. CatInit => SelInv
  BY DEF CatInit, SelInv, Stock, ViewState, Untouched, StockOK, AsSet
<1>2. SelInv /\ [CatNext]_catVars => SelInv'
  <2> SUFFICES ASSUME SelInv, [CatNext]_catVars PROVE SelInv'
    OBVIOUS
  <2>1. CASE Tick
    BY <2>1, RefreshSel DEF Tick
  <2>2. CASE SelectorLayout
    <3>1. PICK x \in Selectors : x = stock.selector
      BY <2>2 DEF SelectorLayout, SelInv, Stock
    <3>2. PICK ready : ready = native.ready
      OBVIOUS
    <3>3. /\ stock' = StockUpdate(stock, table[x], ready).state
          /\ table' = [table EXCEPT ![x] = StockUpdate(stock, table[x], ready).view]
          /\ unseen' = unseen \ Seen(stock, table[x], ready)
          /\ UNCHANGED <<link, asked>>
      BY <2>2, <3>1, <3>2 DEF SelectorLayout
    <3>4. QED
      BY <3>1, <3>3, UpdateStep DEF SelInv
  <2>3. CASE Replace
    <3>1. /\ table' = Released(stock, table, native.ready) /\ stock' = Untouched
          /\ UNCHANGED <<link, asked, unseen>>
      BY <2>3 DEF Replace
    <3>2. Untouched \in Stock /\ Untouched.selector = None
      BY DEF Untouched, Stock
    <3>3. \A x \in Selectors : x # None
      BY CatalogAssumption
    <3>4. QED
      BY <3>1, <3>2, <3>3, ReleasedOK DEF SelInv
  <2>4. ASSUME NEW x \in Selectors, NEW hidden \in BOOLEAN, NEW h \in Heights,
               TwitchSets(x, hidden, h)
        PROVE  SelInv'
    BY <2>4, TwitchSetsSel
  <2>5. CASE \E m \in Managers \cup {None}, x \in Selectors \cup {None} : Switch(m, x)
    <3>1. link'.selector \in Selectors \cup {None} /\ UNCHANGED <<stock, table, asked, unseen>>
      BY <2>5 DEF Switch
    <3>2. QED
      BY <3>1 DEF SelInv
  <2>6. ASSUME UNCHANGED <<link, stock, table, asked, unseen>>
        PROVE  SelInv'
    BY <2>6 DEF SelInv
  <2>7. CASE \/ \E i \in DOMAIN queued : Copy(i)
             \/ Install
             \/ \E m \in Managers, a \in Addresses : Publish(m, a)
             \/ \E m \in Managers : ManagerDies(m)
             \/ UNCHANGED catVars
    BY <2>6, <2>7 DEF Copy, Install, Publish, ManagerDies, catVars
  <2>8. QED
    BY <2>1, <2>2, <2>3, <2>4, <2>5, <2>7 DEF CatNext
<1>3. QED
  BY <1>1, <1>2, PTL DEF CatSpec

\* However chats, views and delegates come and go, a table that is not
\* suppressed is Twitch's.
THEOREM AlwaysSelectorRestored == CatSpec => []SelectorRestored
<1>1. SelInv => SelectorRestored
  <2> SUFFICES ASSUME SelInv,
                      NEW x \in Selectors \ (IF stock.hidden THEN {stock.selector} ELSE {})
               PROVE  AsSet(table[x], asked[x], x, unseen)
    BY DEF SelectorRestored, AsSet
  <2>1. CASE x # stock.selector
    BY <2>1 DEF SelInv
  <2>2. CASE x = stock.selector
    BY <2>2 DEF SelInv, StockOK
  <2>3. QED
    BY <2>1, <2>2
<1>2. QED
  BY <1>1, AlwaysSelInv, PTL

-----------------------------------------------------------------------------
(* The catalogue                                                           *)

Marker == Addresses \cup {None}
Copied == {None} \cup [manager : Managers, version : Nat]
NativeState == [manager : Managers \cup {None}, generation : Nat, marker : Marker,
                ready : BOOLEAN, pending : BOOLEAN, entries : Copied, snapshot : Marker]
Request == [manager : Managers, generation : Nat, previous : Marker]
Return == [generation : Nat, manager : Managers, marker : Marker, catalog : Copied,
           array : Marker]

CatTypeOK ==
    /\ link.manager \in Managers \cup {None}
    /\ buffer \in [Managers -> Marker] /\ version \in [Managers -> Nat]
    /\ native \in NativeState
    /\ queued \in Seq(Request) /\ returns \in Seq(Return)

\* A copy that is still on its way is of this generation only if it is of the
\* manager that is bound.
OfItsManager(j, n) ==
    /\ j.generation <= n.generation
    /\ j.generation = n.generation /\ n.manager # None => j.manager = n.manager

\* Names that were copied from a manager are what it holds for as long as its
\* buffer is at the address they were copied at.
InStep(entries, m, marker, buffers, versions) ==
    /\ entries.manager = m
    /\ marker = buffers[m] => entries.version = versions[m]

\* What a copy brings back retains the array it has read.
ReturnOK(j, buffers, versions) ==
    j.catalog # None =>
        j.array = j.marker /\ j.marker # None
        /\ InStep(j.catalog, j.manager, j.marker, buffers, versions)

\* So does the copy that is installed.
NativeOK(n, buffers, versions) ==
    n.manager # None /\ n.marker # None =>
        n.snapshot = n.marker /\ InStep(n.entries, n.manager, n.marker, buffers, versions)

CatInv ==
    /\ CatTypeOK
    /\ \A j \in Jobs : OfItsManager(j, native)
    /\ \A j \in ToSet(returns) : ReturnOK(j, buffer, version)
    /\ NativeOK(native, buffer, version)

\* What a sequence is made of.
LEMMA ToSetOK ==
  ASSUME NEW S, NEW s \in Seq(S)
  PROVE  ToSet(s) \subseteq S /\ s \in Seq(ToSet(s))
BY DEF ToSet

\* A sequence gets the appended element, and no other.
LEMMA AppendOK ==
  ASSUME NEW S, NEW s \in Seq(S), NEW e \in S
  PROVE  Append(s, e) \in Seq(S) /\ ToSet(Append(s, e)) \subseteq ToSet(s) \cup {e}
<1>1. s \in Seq(ToSet(s) \cup {e})
  BY ToSetOK DEF ToSet
<1>2. Append(s, e) \in Seq(ToSet(s) \cup {e})
  BY <1>1, AppendProperties
<1>3. QED
  BY <1>2, ToSetOK, AppendProperties

\* The head and the tail of a sequence have its elements.
LEMMA HeadTailOK ==
  ASSUME NEW S, NEW s \in Seq(S), s # <<>>
  PROVE  Head(s) \in ToSet(s) /\ Tail(s) \in Seq(S) /\ ToSet(Tail(s)) \subseteq ToSet(s)
<1>1. s \in Seq(ToSet(s))
  BY ToSetOK
<1>2. Head(s) \in ToSet(s) /\ Tail(s) \in Seq(ToSet(s))
  BY <1>1, HeadTailProperties
<1>3. QED
  BY <1>2, ToSetOK, HeadTailProperties

\* So has a sequence without one of its places.
LEMMA RemoveAtOK ==
  ASSUME NEW S, NEW s \in Seq(S), NEW i \in DOMAIN s
  PROVE  RemoveAt(s, i) \in Seq(S) /\ ToSet(RemoveAt(s, i)) \subseteq ToSet(s)
<1>1. ASSUME NEW T, s \in Seq(T)
      PROVE  RemoveAt(s, i) \in Seq(T)
  <2>1. i \in 1..Len(s) /\ \A k \in 1..Len(s) : s[k] \in T
    BY <1>1
  <2>2. SubSeq(s, 1, i - 1) \in Seq(T)
    BY <2>1, SubSeqProperties
  <2>3. SubSeq(s, i + 1, Len(s)) \in Seq(T)
    BY <2>1, SubSeqProperties
  <2>4. QED
    BY <2>2, <2>3, ConcatProperties DEF RemoveAt
<1>2. RemoveAt(s, i) \in Seq(ToSet(s))
  BY <1>1, ToSetOK
<1>3. QED
  BY <1>1, <1>2, ToSetOK

\* What waits in the queues are requests and returns.
LEMMA JobsOK ==
  ASSUME CatInv
  PROVE  /\ ToSet(queued) \subseteq Request /\ ToSet(returns) \subseteq Return
         /\ \A j \in Jobs : j.generation \in Nat /\ j.manager \in Managers
<1>1. ToSet(queued) \subseteq Request /\ ToSet(returns) \subseteq Return
  BY ToSetOK DEF CatInv, CatTypeOK
<1>2. QED
  BY <1>1 DEF Jobs, Request, Return

\* Another manager begins another generation, of which there is no copy.
LEMMA ReboundOK ==
  ASSUME CatInv
  PROVE  /\ Rebound \in NativeState
         /\ \A j \in Jobs : OfItsManager(j, Rebound)
         /\ NativeOK(Rebound, buffer, version)
<1>1. CASE native.manager = link.manager
  BY <1>1 DEF Rebound, CatInv, CatTypeOK
<1>2. CASE native.manager # link.manager
  <2>1. PICK b : b = [Fresh EXCEPT !.manager = link.manager,
                                   !.generation = native.generation + 1]
    OBVIOUS
  <2>2. Rebound = b
    BY <1>2, <2>1 DEF Rebound
  <2>3. /\ b \in NativeState /\ b.generation = native.generation + 1 /\ b.marker = None
    <3>1. Fresh \in NativeState /\ Fresh.marker = None
      BY DEF Fresh, NativeState, Marker, Copied
    <3>2. native.generation + 1 \in Nat /\ link.manager \in Managers \cup {None}
      BY DEF CatInv, CatTypeOK, NativeState
    <3>3. QED
      BY <2>1, <3>1, <3>2 DEF NativeState
  <2>4. \A j \in Jobs : j.generation \in Nat
    BY JobsOK
  <2>5. native.generation \in Nat
    BY DEF CatInv, CatTypeOK, NativeState
  <2>6. \A j \in Jobs : OfItsManager(j, b)
    BY <2>3, <2>4, <2>5 DEF CatInv, OfItsManager
  <2>7. QED
    BY <2>2, <2>3, <2>6 DEF NativeOK
<1>3. QED
  BY <1>1, <1>2

\* A refresh keeps the invariant of the catalogue.
LEMMA RefreshCat ==
  ASSUME CatInv, NEW colon, Refresh(colon)
  PROVE  CatInv'
<1>1. PICK bound : bound = Rebound
  OBVIOUS
<1>2. /\ bound \in NativeState /\ (\A j \in Jobs : OfItsManager(j, bound))
      /\ NativeOK(bound, buffer, version)
  BY <1>1, ReboundOK
<1>3. RequestCatalog(bound) /\ UNCHANGED <<link, buffer, version, returns>>
  BY <1>1 DEF Refresh
<1>4. CASE bound.manager = None \/ bound.pending
  <2>1. native' = bound /\ queued' = queued
    BY <1>3, <1>4 DEF RequestCatalog
  <2>2. QED
    BY <1>2, <1>3, <2>1 DEF CatInv, CatTypeOK, Jobs
<1>5. CASE ~(bound.manager = None \/ bound.pending)
  <2>1. PICK job : job = [manager |-> bound.manager, generation |-> bound.generation,
                          previous |-> bound.marker]
    OBVIOUS
  <2>2. native' = [bound EXCEPT !.pending = TRUE] /\ queued' = Append(queued, job)
    BY <1>3, <1>5, <2>1 DEF RequestCatalog
  <2>3. /\ job \in Request /\ job.manager = bound.manager /\ job.generation = bound.generation
        /\ bound.generation \in Nat
    BY <1>2, <1>5, <2>1 DEF NativeState, Request
  <2>4. /\ native' \in NativeState /\ native'.manager = bound.manager
        /\ native'.generation = bound.generation /\ native'.marker = bound.marker
        /\ native'.entries = bound.entries /\ native'.snapshot = bound.snapshot
    BY <1>2, <2>2 DEF NativeState
  <2>5. queued' \in Seq(Request) /\ ToSet(queued') \subseteq ToSet(queued) \cup {job}
    BY <2>2, <2>3, AppendOK DEF CatInv, CatTypeOK
  <2>6. \A j \in Jobs' : j \in Jobs \/ j = job
    BY <1>3, <2>5 DEF Jobs
  <2>7. OfItsManager(job, bound)
    BY <2>3 DEF OfItsManager
  <2>8. \A j \in Jobs' : OfItsManager(j, native')
    BY <1>2, <2>4, <2>6, <2>7 DEF OfItsManager
  <2>9. NativeOK(native', buffer', version')
    BY <1>2, <1>3, <2>4 DEF NativeOK
  <2>10. CatTypeOK' /\ \A j \in ToSet(returns') : ReturnOK(j, buffer', version')
    BY <1>3, <2>4, <2>5 DEF CatInv, CatTypeOK
  <2>11. QED
    BY <2>8, <2>9, <2>10 DEF CatInv
<1>6. QED
  BY <1>4, <1>5

\* A copy of what the manager holds is in step with it.
LEMMA CopyCat ==
  ASSUME CatInv, NEW i \in DOMAIN queued, Copy(i)
  PROVE  CatInv'
<1>1. PICK job : job = queued[i]
  OBVIOUS
<1>2. job \in ToSet(queued) /\ job \in Request
  BY <1>1, ToSetOK DEF CatInv, CatTypeOK, ToSet
<1>3. PICK made \in BOOLEAN : made = (/\ buffer[job.manager] \notin {None, job.previous}
                                      /\ version[job.manager] \notin Unreadable)
  BY Zenon
<1>4. PICK catalog \in Copied :
          catalog = IF made THEN Catalogue(job.manager, version[job.manager]) ELSE None
  BY <1>2 DEF CatInv, CatTypeOK, Request, Copied, Catalogue
<1>5. PICK array \in Marker : array = IF made THEN buffer[job.manager] ELSE None
  BY <1>2 DEF CatInv, CatTypeOK, Request, Marker
<1>6. PICK r : r = [generation |-> job.generation, manager |-> job.manager,
                    marker |-> buffer[job.manager], catalog |-> catalog, array |-> array]
  OBVIOUS
<1>7. /\ queued' = RemoveAt(queued, i) /\ returns' = Append(returns, r)
      /\ UNCHANGED <<link, buffer, version, native>>
  BY <1>1, <1>3, <1>4, <1>5, <1>6 DEF Copy
<1>8. r \in Return
  BY <1>2, <1>6 DEF CatInv, CatTypeOK, Request, Return
<1>9. /\ queued' \in Seq(Request) /\ ToSet(queued') \subseteq ToSet(queued)
      /\ returns' \in Seq(Return) /\ ToSet(returns') \subseteq ToSet(returns) \cup {r}
  BY <1>7, <1>8, RemoveAtOK, AppendOK DEF CatInv, CatTypeOK
<1>10. ReturnOK(r, buffer, version)
  <2>1. CASE made
    BY <1>3, <1>4, <1>5, <1>6, <2>1 DEF ReturnOK, InStep, Catalogue
  <2>2. CASE ~made
    BY <1>4, <1>6, <2>2 DEF ReturnOK
  <2>3. QED
    BY <2>1, <2>2
<1>11. OfItsManager(r, native)
  BY <1>2, <1>6 DEF CatInv, Jobs, OfItsManager
<1>12. /\ \A j \in Jobs' : OfItsManager(j, native')
       /\ \A j \in ToSet(returns') : ReturnOK(j, buffer', version')
  BY <1>7, <1>9, <1>10, <1>11 DEF CatInv, Jobs
<1>13. QED
  BY <1>7, <1>9, <1>12 DEF CatInv, CatTypeOK

\* What is installed is of the manager that is bound.
LEMMA InstallCat ==
  ASSUME CatInv, Install
  PROVE  CatInv'
<1>1. PICK job : job = Head(returns)
  OBVIOUS
<1>2. /\ native' = Installed(native, job) /\ returns' = Tail(returns) /\ returns # <<>>
      /\ UNCHANGED <<link, buffer, version, queued>>
  BY <1>1 DEF Install
<1>3. /\ job \in ToSet(returns) /\ returns' \in Seq(Return)
      /\ ToSet(returns') \subseteq ToSet(returns)
  BY <1>1, <1>2, HeadTailOK DEF CatInv, CatTypeOK
<1>4. job \in Return /\ OfItsManager(job, native) /\ ReturnOK(job, buffer, version)
  BY <1>3, ToSetOK DEF CatInv, CatTypeOK, Jobs
<1>5. \A j \in Jobs' : j \in Jobs
  BY <1>2, <1>3 DEF Jobs
<1>6. /\ native' \in NativeState /\ native'.manager = native.manager
      /\ native'.generation = native.generation /\ NativeOK(native', buffer, version)
  <2>1. native \in NativeState /\ NativeOK(native, buffer, version)
    BY DEF CatInv, CatTypeOK
  <2>2. CASE native.generation # job.generation
    BY <1>2, <2>1, <2>2 DEF Installed
  <2>3. CASE native.generation = job.generation /\ job.catalog = None
    <3>1. native' = [native EXCEPT !.pending = FALSE]
      BY <1>2, <2>3 DEF Installed
    <3>2. /\ native' \in NativeState /\ native'.manager = native.manager
          /\ native'.generation = native.generation /\ native'.marker = native.marker
          /\ native'.entries = native.entries /\ native'.snapshot = native.snapshot
      BY <2>1, <3>1 DEF NativeState
    <3>3. QED
      BY <2>1, <3>2 DEF NativeOK
  <2>4. CASE native.generation = job.generation /\ job.catalog # None
    <3>1. native' = [native EXCEPT !.pending = FALSE, !.ready = TRUE, !.entries = job.catalog,
                                   !.snapshot = job.array, !.marker = job.marker]
      BY <1>2, <2>4 DEF Installed
    <3>2. /\ native' \in NativeState /\ native'.manager = native.manager
          /\ native'.generation = native.generation /\ native'.marker = job.marker
          /\ native'.entries = job.catalog /\ native'.snapshot = job.array
      BY <1>4, <2>1, <3>1 DEF NativeState, Return
    <3>3. native.manager # None => job.manager = native.manager
      BY <1>4, <2>4 DEF OfItsManager
    <3>4. QED
      BY <1>4, <2>4, <3>2, <3>3 DEF NativeOK, ReturnOK
  <2>5. QED
    BY <2>2, <2>3, <2>4
<1>7. \A j \in Jobs' : OfItsManager(j, native')
  BY <1>5, <1>6 DEF CatInv, OfItsManager
<1>8. CatTypeOK' /\ (\A j \in ToSet(returns') : ReturnOK(j, buffer', version'))
  BY <1>2, <1>3, <1>6 DEF CatInv, CatTypeOK
<1>9. QED
  BY <1>2, <1>6, <1>7, <1>8 DEF CatInv

\* Twitch publishes at no address the composer remembers as a manager's, since
\* it retains what it remembers.
LEMMA PublishCat ==
  ASSUME CatInv, NEW m \in Managers, NEW a \in Addresses, Publish(m, a)
  PROVE  CatInv'
<1>1. PICK n \in Nat : version' = [version EXCEPT ![m] = n]
  <2>1. PICK k \in 0..MaxPublished : version' = [version EXCEPT ![m] = k + 1]
    BY DEF Publish
  <2>2. k + 1 \in Nat
    BY CatalogAssumption
  <2>3. QED
    BY <2>1, <2>2
<1>2. /\ buffer' = [buffer EXCEPT ![m] = a] /\ a \notin Retained
      /\ UNCHANGED <<link, native, queued, returns>>
  BY DEF Publish, InUse
<1>3. CatTypeOK'
  BY <1>1, <1>2 DEF CatInv, CatTypeOK, Marker
<1>4. \A k \in Managers : k # m => buffer'[k] = buffer[k] /\ version'[k] = version[k]
  BY <1>1, <1>2 DEF CatInv, CatTypeOK
<1>5. buffer'[m] = a
  BY <1>2 DEF CatInv, CatTypeOK
<1>6. ASSUME NEW entries, NEW k \in Managers, NEW marker, marker # a,
             InStep(entries, k, marker, buffer, version)
      PROVE  InStep(entries, k, marker, buffer', version')
  BY <1>4, <1>5, <1>6 DEF InStep
<1>7. \A j \in ToSet(returns) : ReturnOK(j, buffer', version')
  <2> SUFFICES ASSUME NEW j \in ToSet(returns), j.catalog # None
               PROVE  ReturnOK(j, buffer', version')
    BY DEF ReturnOK
  <2>1. ReturnOK(j, buffer, version)
    BY DEF CatInv
  <2>2. j.array \in Retained /\ j.marker # a
    BY <1>2, <2>1 DEF ReturnOK, Retained
  <2>3. j.manager \in Managers
    BY JobsOK DEF Jobs
  <2>4. QED
    BY <1>6, <2>1, <2>2, <2>3 DEF ReturnOK
<1>8. NativeOK(native, buffer', version')
  <2> SUFFICES ASSUME native.manager # None, native.marker # None
               PROVE  NativeOK(native, buffer', version')
    BY DEF NativeOK
  <2>1. NativeOK(native, buffer, version)
    BY DEF CatInv
  <2>2. native.snapshot \in Retained /\ native.marker # a
    BY <1>2, <2>1 DEF NativeOK, Retained
  <2>3. native.manager \in Managers
    BY DEF CatInv, CatTypeOK, NativeState
  <2>4. QED
    BY <1>6, <2>1, <2>2, <2>3 DEF NativeOK
<1>9. QED
  BY <1>2, <1>3, <1>7, <1>8 DEF CatInv, Jobs

\* A manager dies when no copy holds it any more.
LEMMA ManagerDiesCat ==
  ASSUME CatInv, NEW m \in Managers, ManagerDies(m)
  PROVE  CatInv'
<1>1. PICK manager \in Managers \cup {None} :
          manager = IF native.manager = m THEN None ELSE native.manager
  BY DEF CatInv, CatTypeOK, NativeState
<1>2. /\ native' = [native EXCEPT !.manager = manager] /\ buffer' = [buffer EXCEPT ![m] = None]
      /\ UNCHANGED <<link, version, queued, returns>> /\ \A j \in Jobs : j.manager # m
  BY <1>1 DEF ManagerDies
<1>3. /\ native' \in NativeState /\ native'.manager = manager
      /\ native'.generation = native.generation /\ native'.marker = native.marker
      /\ native'.entries = native.entries /\ native'.snapshot = native.snapshot
  BY <1>2 DEF CatInv, CatTypeOK, NativeState
<1>4. CatTypeOK'
  BY <1>2, <1>3 DEF CatInv, CatTypeOK, Marker
<1>5. \A k \in Managers : k # m => buffer'[k] = buffer[k]
  BY <1>2 DEF CatInv, CatTypeOK
<1>6. \A j \in Jobs : OfItsManager(j, native')
  BY <1>1, <1>3 DEF CatInv, OfItsManager
<1>7. \A j \in ToSet(returns) : ReturnOK(j, buffer', version')
  <2> SUFFICES ASSUME NEW j \in ToSet(returns)
               PROVE  ReturnOK(j, buffer', version')
    OBVIOUS
  <2>1. j.manager \in Managers /\ j.manager # m
    BY <1>2, JobsOK DEF Jobs
  <2>2. QED
    BY <1>2, <1>5, <2>1 DEF CatInv, ReturnOK, InStep
<1>8. NativeOK(native', buffer', version')
  BY <1>1, <1>2, <1>3, <1>5 DEF CatInv, NativeOK, InStep
<1>9. QED
  BY <1>2, <1>4, <1>6, <1>7, <1>8 DEF CatInv, Jobs

\* The invariant of the catalogue holds in every reachable state.
LEMMA AlwaysCatInv == CatSpec => []CatInv
<1>1. CatInit => CatInv
  <2> SUFFICES ASSUME CatInit PROVE CatInv
    OBVIOUS
  <2>1. ToSet(queued) = {} /\ ToSet(returns) = {}
    BY DEF CatInit, ToSet
  <2>2. Fresh \in NativeState /\ Fresh.marker = None
    BY DEF Fresh, NativeState, Marker, Copied
  <2>3. CatTypeOK
    BY <2>2 DEF CatInit, CatTypeOK, Marker
  <2>4. QED
    BY <2>1, <2>2, <2>3 DEF CatInit, CatInv, Jobs, NativeOK
<1>2. CatInv /\ [CatNext]_catVars => CatInv'
  <2> SUFFICES ASSUME CatInv, [CatNext]_catVars PROVE CatInv'
    OBVIOUS
  <2>1. ASSUME UNCHANGED <<link, buffer, version, native, queued, returns>>
        PROVE  CatInv'
    BY <2>1 DEF CatInv, CatTypeOK, Jobs
  <2>2. CASE Tick
    BY <2>2, RefreshCat DEF Tick
  <2>3. CASE Replace
    <3>1. /\ Jobs = {} /\ native' = Fresh
          /\ UNCHANGED <<link, buffer, version, queued, returns>>
      BY <2>3 DEF Replace
    <3>2. Fresh \in NativeState /\ Fresh.marker = None
      BY DEF Fresh, NativeState, Marker, Copied
    <3>3. Jobs' = {} /\ ToSet(returns') = {}
      BY <3>1 DEF Jobs
    <3>4. CatTypeOK'
      BY <3>1, <3>2 DEF CatInv, CatTypeOK
    <3>5. QED
      BY <3>1, <3>2, <3>3, <3>4 DEF CatInv, NativeOK
  <2>4. CASE \E m \in Managers \cup {None}, x \in Selectors \cup {None} : Switch(m, x)
    <3>1. /\ link'.manager \in Managers \cup {None}
          /\ UNCHANGED <<buffer, version, native, queued, returns>>
      BY <2>4 DEF Switch
    <3>2. QED
      BY <3>1 DEF CatInv, CatTypeOK, Jobs
  <2>5. CASE \/ SelectorLayout \/ UNCHANGED catVars
             \/ \E x \in Selectors, hidden \in BOOLEAN, h \in Heights : TwitchSets(x, hidden, h)
    BY <2>1, <2>5 DEF SelectorLayout, TwitchSets, catVars
  <2>6. QED
    BY <2>2, <2>3, <2>4, <2>5, CopyCat, InstallCat, PublishCat, ManagerDiesCat DEF CatNext
<1>3. QED
  BY <1>1, <1>2, PTL DEF CatSpec

\* The names offered are the bound manager's, and an address that has not
\* changed means names that have not.
THEOREM AlwaysCatalogCurrent == CatSpec => []CatalogCurrent
<1>1. CatInv => CatalogCurrent
  BY DEF CatInv, NativeOK, InStep, CatalogCurrent
<1>2. QED
  BY <1>1, AlwaysCatInv, PTL

-----------------------------------------------------------------------------
(* The clock.  What one tick adds is at most MaxDelta; the first frame takes  *)
(* what was saved up before, and every other at least the shortest delay, so  *)
(* that the animation has caught up before the steps are over.                *)

Position(a) == [index : 1 .. Len(Delays[a]), elapsed : Nat]
DelayOf(a, v) == FrameDelay(a, v.index)
Due(a, v) == v.elapsed <= DelayOf(a, v)

\* No animation is behind its frame by more than the delay of it.
ClockOK ==
    /\ DOMAIN playing \subseteq Animated
    /\ \A a \in DOMAIN playing : playing[a] \in Position(a) /\ Due(a, playing[a])

\* The delays in use.
LEMMA DelayRange ==
    ASSUME NEW a \in Animated, NEW i \in 1 .. Len(Delays[a])
    PROVE  FrameDelay(a, i) \in Nat /\ FrameDelay(a, i) >= 2
<1>1. Delays[a] \in Seq(Nat)
  BY ClockAssumption
<1>2. Delays[a][i] \in Nat
  BY <1>1
<1> QED
  BY <1>2 DEF FrameDelay

\* One step: an animation that has caught up stays so, and one that has not
\* waits for its decoder or spends the frame's delay.
LEMMA ClockStep ==
    ASSUME NEW a \in Animated, NEW v \in Position(a), NEW decoded, NEW w,
           w = Step(a, v, decoded)
    PROVE  /\ w \in Position(a)
           /\ Due(a, w) \/ (w.elapsed = v.elapsed - DelayOf(a, v) /\ ~Due(a, v))
<1> DEFINE n == Len(Delays[a])
           next == (v.index % n) + 1
           delay == FrameDelay(a, v.index)
<1>1. n \in Nat \ {0}
  BY ClockAssumption
<1>2. v.index \in 1 .. n /\ v.elapsed \in Nat
  BY DEF Position
<1>3. next \in 1 .. n
  <2>1. v.index \in Int
    BY <1>1, <1>2
  <2>2. v.index % n \in 0 .. n - 1
    BY <1>1, <2>1, Remainder
  <2> QED
    BY <1>1, <2>2
<1>4. delay \in Nat /\ delay >= 2 /\ FrameDelay(a, next) \in Nat
  BY <1>2, <1>3, DelayRange
<1>5. w = IF v.elapsed < delay THEN v
          ELSE IF <<a, next>> \notin decoded THEN [v EXCEPT !.elapsed = delay]
          ELSE [index |-> next, elapsed |-> v.elapsed - delay]
  BY DEF Step
<1>6. DelayOf(a, v) = delay
  BY DEF DelayOf
<1> HIDE DEF next, delay
<1>7. CASE v.elapsed < delay
  BY <1>2, <1>4, <1>5, <1>6, <1>7 DEF Due
<1>8. CASE ~(v.elapsed < delay) /\ <<a, next>> \notin decoded
  <2>1. w = [v EXCEPT !.elapsed = delay]
    BY <1>5, <1>8
  <2>2. w \in Position(a) /\ w.index = v.index /\ w.elapsed = delay
    BY <1>4, <2>1 DEF Position
  <2>3. DelayOf(a, w) = delay
    BY <1>6, <2>2 DEF DelayOf
  <2> QED
    BY <1>4, <2>2, <2>3 DEF Due
<1>9. CASE ~(v.elapsed < delay) /\ <<a, next>> \in decoded
  <2>1. w = [index |-> next, elapsed |-> v.elapsed - delay]
    BY <1>5, <1>9
  <2>2. v.elapsed - delay \in Nat
    BY <1>2, <1>4, <1>9
  <2>3. w \in Position(a) /\ w.index = next /\ w.elapsed = v.elapsed - delay
    BY <1>3, <2>1, <2>2 DEF Position
  <2>4. DelayOf(a, w) = FrameDelay(a, next)
    BY <2>3 DEF DelayOf
  <2>5. CASE Due(a, v)
    <3>1. w.elapsed = 0
      BY <1>2, <1>4, <1>6, <1>9, <2>3, <2>5 DEF Due
    <3> QED
      BY <1>4, <2>3, <2>4, <3>1 DEF Due
  <2>6. CASE ~Due(a, v)
    BY <1>6, <2>3, <2>6
  <2> QED
    BY <2>5, <2>6
<1> QED
  BY <1>7, <1>8, <1>9

\* The position before, between and after the steps of a tick.
Advancing(a, start, delta, decoded, f) ==
    /\ f \in [0 .. MaxSteps -> Position(a)]
    /\ f[0] = [start EXCEPT !.elapsed = @ + delta]
    /\ \A k \in 1 .. MaxSteps : f[k] = Step(a, f[k - 1], decoded)

\* The fold of a tick has a trace.
LEMMA AdvanceTrace ==
    ASSUME NEW a \in Animated, NEW start, start = playing[a], start \in Position(a),
           NEW delta \in Nat, NEW decoded
    PROVE  \E f : Advancing(a, start, delta, decoded, f)
                  /\ Advance(a, delta, decoded) = f[MaxSteps]
<1> DEFINE n == MaxSteps
           V == Position(a)
           first == [start EXCEPT !.elapsed = @ + delta]
           seq == [i \in 1 .. n |-> i]
           Next1(v) == Step(a, v, decoded)
           step == [t \in (1 .. n) \X V |-> Next1(t[2])]
<1>1. n \in Nat /\ DOMAIN seq = 1 .. n
  BY ClockAssumption
<1>2. \A v \in V : Next1(v) \in V
  BY ClockStep
<1>3. first \in V
  BY DEF Position
<1> HIDE DEF n, V, Next1, first
<1>4. step \in Steps(n, V) /\ \A k \in 1 .. n, v \in V : step[<<k, v>>] = Next1(v)
  BY <1>2 DEF Steps
<1> HIDE DEF step
<1>5. PICK g : g \in Folding(n, V, first, step)
  BY <1>1, <1>3, <1>4, FoldExists
<1>6. /\ g \in [SUBSET (1 .. n) -> V] /\ g[{}] = first
      /\ \A s \in SUBSET (1 .. n) : s # {} => g[s] = step[<<Max(s), g[s \ {Max(s)}]>>]
  BY <1>5 DEF Folding
<1>7. \A s \in SUBSET (1 .. n) : g[s] = IF s = {} THEN first ELSE Next1(g[s \ {Max(s)}])
  <2> TAKE s \in SUBSET (1 .. n)
  <2>1. CASE s = {}
    BY <1>6, <2>1
  <2>2. CASE s # {}
    <3>1. Max(s) \in 1 .. n
      BY <1>1, <2>2, MaxOfIndexes
    <3>2. g[s \ {Max(s)}] \in V
      BY <1>6
    <3> QED
      BY <1>4, <1>6, <2>2, <3>1, <3>2
  <2> QED
    BY <2>1, <2>2
<1>8. g = [s \in SUBSET (1 .. n) |-> IF s = {} THEN first ELSE Next1(g[s \ {Max(s)}])]
  BY <1>6, <1>7
<1> DEFINE iter[s \in SUBSET (1 .. n)] ==
             IF s = {} THEN first ELSE Next1(iter[s \ {Max(s)}])
<1>9. iter = [s \in SUBSET (1 .. n) |->
                IF s = {} THEN first ELSE Next1(iter[s \ {Max(s)}])]
  BY <1>8, Zenon
<1>10. Advance(a, delta, decoded) = iter[1 .. n]
  BY <1>1, Zenon DEF Advance, FoldLeft, MapThenFoldSet, Next1, first, n
<1> HIDE DEF iter
<1>11. iter[{}] = first
  BY <1>9
<1>12. ASSUME NEW s \in SUBSET (1 .. n), s # {} /\ iter[s \ {Max(s)}] \in V
       PROVE  iter[s] = step[<<Max(s), iter[s \ {Max(s)}]>>]
  <2>1. Max(s) \in 1 .. n
    BY <1>1, <1>12, MaxOfIndexes
  <2>2. iter[s] = Next1(iter[s \ {Max(s)}])
    BY <1>9, <1>12
  <2> QED
    BY <1>4, <1>12, <2>1, <2>2
<1> DEFINE f == [k \in 0 .. n |-> iter[1 .. k]]
<1>13. f \in Traces(n, V, first, step)
  BY <1>1, <1>3, <1>4, <1>11, <1>12, FoldTrace
<1>14. f[n] = iter[1 .. n]
  BY <1>1
<1> HIDE DEF f
<1>15. /\ f \in [0 .. n -> V] /\ f[0] = first
       /\ \A k \in 1 .. n : f[k] = step[<<k, f[k - 1]>>]
  BY <1>13 DEF Traces, Trace
<1>16. \A k \in 1 .. n : f[k] = Next1(f[k - 1])
  <2> TAKE k \in 1 .. n
  <2>1. f[k - 1] \in V
    BY <1>1, <1>15
  <2> QED
    BY <1>4, <1>15, <2>1
<1>17. Advancing(a, start, delta, decoded, f)
  BY <1>15, <1>16 DEF Advancing, n, V, Next1, first
<1> QED
  BY <1>10, <1>14, <1>17 DEF n

\* One tick.
LEMMA AdvanceOK ==
    ASSUME NEW a \in Animated, playing[a] \in Position(a), Due(a, playing[a]),
           NEW delta \in Nat, delta <= MaxDelta, NEW decoded
    PROVE  Advance(a, delta, decoded) \in Position(a) /\ Due(a, Advance(a, delta, decoded))
<1>1. PICK start : start = playing[a]
  OBVIOUS
<1>2. start \in Position(a) /\ start.elapsed \in Nat /\ start.index \in 1 .. Len(Delays[a])
      /\ DelayOf(a, start) \in Nat /\ start.elapsed <= DelayOf(a, start)
  BY <1>1, DelayRange DEF Position, Due, DelayOf
<1>3. PICK f : /\ Advancing(a, start, delta, decoded, f)
               /\ Advance(a, delta, decoded) = f[MaxSteps]
  BY <1>1, <1>2, AdvanceTrace
<1>4. /\ f \in [0 .. MaxSteps -> Position(a)]
      /\ f[0] = [start EXCEPT !.elapsed = @ + delta]
      /\ \A k \in 1 .. MaxSteps : f[k] = Step(a, f[k - 1], decoded)
  BY <1>3 DEF Advancing
<1>5. MaxSteps \in Nat /\ MaxDelta \in Nat /\ MaxDelta <= 2 * MaxSteps
  BY ClockAssumption, StepsAssumption
<1>6. ASSUME NEW v \in Position(a)
      PROVE  v.elapsed \in Nat /\ DelayOf(a, v) \in Nat /\ DelayOf(a, v) >= 2
  BY DelayRange DEF Position, DelayOf
<1>7. f[0] \in Position(a) /\ f[0].elapsed = start.elapsed + delta
      /\ DelayOf(a, f[0]) = DelayOf(a, start)
  <2>1. f[0].index = start.index /\ f[0].elapsed = start.elapsed + delta
    BY <1>2, <1>4 DEF Position
  <2> QED
    BY <1>4, <1>5, <2>1 DEF DelayOf
<1>8. CASE MaxSteps = 0
  <2>1. f[0].elapsed = start.elapsed
    BY <1>2, <1>5, <1>7, <1>8
  <2> QED
    BY <1>2, <1>3, <1>7, <1>8, <2>1 DEF Due
<1>9. CASE MaxSteps # 0
  <2> DEFINE Behind == {k \in 0 .. MaxSteps - 1 :
                          Due(a, f[k + 1]) \/ f[k + 1].elapsed <= MaxDelta - 2 * k}
  <2>1. 0 \in Behind
    <3>1. 0 \in 0 .. MaxSteps - 1 /\ 1 \in 1 .. MaxSteps /\ 1 - 1 = 0 /\ 0 + 1 = 1
      BY <1>5, <1>9
    <3>2. f[1] = Step(a, f[0], decoded)
      BY <1>4, <3>1
    <3>3. Due(a, f[1]) \/ f[1].elapsed = f[0].elapsed - DelayOf(a, f[0])
      BY <1>7, <3>2, ClockStep
    <3>4. Due(a, f[1]) \/ f[1].elapsed <= MaxDelta - 2 * 0
      BY <1>2, <1>5, <1>7, <3>3
    <3> QED
      BY <3>1, <3>4
  <2>2. ASSUME NEW k \in 0 .. (MaxSteps - 1) - 1, k \in Behind PROVE k + 1 \in Behind
    <3>1. k + 1 \in 0 .. MaxSteps - 1 /\ (k + 1) + 1 \in 1 .. MaxSteps
          /\ ((k + 1) + 1) - 1 = k + 1 /\ k + 1 \in 0 .. MaxSteps
      BY <1>5
    <3>2. PICK v, w : v = f[k + 1] /\ w = f[(k + 1) + 1]
      OBVIOUS
    <3>3. v \in Position(a) /\ w = Step(a, v, decoded)
      BY <1>4, <3>1, <3>2
    <3>4. Due(a, w) \/ (w.elapsed = v.elapsed - DelayOf(a, v) /\ ~Due(a, v))
      BY <3>3, ClockStep
    <3>5. Due(a, v) \/ v.elapsed <= MaxDelta - 2 * k
      BY <2>2, <3>2
    <3>6. v.elapsed \in Nat /\ DelayOf(a, v) \in Nat /\ DelayOf(a, v) >= 2
      BY <1>6, <3>3
    <3>7. Due(a, w) \/ w.elapsed <= MaxDelta - 2 * (k + 1)
      BY <1>5, <3>4, <3>5, <3>6
    <3> QED
      BY <3>1, <3>2, <3>7
  <2> HIDE DEF Behind
  <2>3. \A k \in 0 .. MaxSteps - 1 : k \in Behind
    <3>1. MaxSteps - 1 \in Nat
      BY <1>5, <1>9
    <3> QED
      BY <2>1, <2>2, <3>1, UpTo
  <2>4. MaxSteps - 1 \in 0 .. MaxSteps - 1 /\ (MaxSteps - 1) + 1 = MaxSteps
        /\ MaxSteps \in 0 .. MaxSteps
    BY <1>5, <1>9
  <2>5. PICK v : v = f[MaxSteps]
    OBVIOUS
  <2>6. Due(a, v) \/ v.elapsed <= MaxDelta - 2 * (MaxSteps - 1)
    BY <2>3, <2>4, <2>5 DEF Behind
  <2>7. v \in Position(a) /\ v.elapsed \in Nat /\ DelayOf(a, v) \in Nat /\ DelayOf(a, v) >= 2
    BY <1>4, <1>6, <2>4, <2>5
  <2>8. Due(a, v)
    BY <1>5, <2>6, <2>7 DEF Due
  <2> QED
    BY <1>3, <2>5, <2>7, <2>8
<1> QED
  BY <1>8, <1>9

\* Every reachable clock is right.
LEMMA ClockAlwaysOK == ClockSpec => []ClockOK
<1>1. ClockInit => ClockOK
  BY DEF ClockInit, ClockOK
<1>2. ClockOK /\ [ClockNext]_clockVars => ClockOK'
  <2> SUFFICES ASSUME ClockOK, [ClockNext]_clockVars PROVE ClockOK'
    OBVIOUS
  <2>1. CASE UNCHANGED playing
    BY <2>1 DEF ClockOK, Due, DelayOf
  <2>2. ASSUME NEW frames \in SUBSET Animated, UpdateFrames(frames) PROVE ClockOK'
    <3>1. playing' = [a \in frames |-> IF a \in DOMAIN playing THEN playing[a] ELSE Begin]
      BY <2>2 DEF UpdateFrames
    <3>2. \A a \in Animated : Begin \in Position(a) /\ Due(a, Begin)
      <4> TAKE a \in Animated
      <4>1. 1 \in 1 .. Len(Delays[a])
        BY ClockAssumption
      <4>2. FrameDelay(a, 1) \in Nat
        BY <4>1, DelayRange
      <4> QED
        BY <4>1, <4>2 DEF Begin, Position, Due, DelayOf
    <3>3. DOMAIN playing' = frames
      BY <3>1
    <3>4. \A a \in frames : playing'[a] \in Position(a) /\ Due(a, playing'[a])
      BY <3>1, <3>2 DEF ClockOK
    <3>5. \A a \in frames : Due(a, playing[a])'
      BY <3>4 DEF Due, DelayOf
    <3> QED
      BY <3>3, <3>4, <3>5 DEF ClockOK
  <2>3. ASSUME NEW elapsing \in Gaps, NEW decoded \in SUBSET Frames, Animate(elapsing, decoded)
        PROVE  ClockOK'
    <3>1. CASE playing' = playing
      BY <2>1, <3>1
    <3>2. CASE playing' # playing
      <4> DEFINE delta == IF elapsing > MaxDelta THEN MaxDelta ELSE elapsing
      <4>1. ~(elapsing <= 0) /\ playing' = [a \in DOMAIN playing |-> Advance(a, delta, decoded)]
        BY <2>3, <3>2 DEF Animate
      <4>2. delta \in Nat /\ delta <= MaxDelta
        <5>1. elapsing \in Int /\ MaxDelta \in Nat
          BY ClockAssumption
        <5> QED
          BY <4>1, <5>1
      <4> HIDE DEF delta
      <4>3. ASSUME NEW a \in DOMAIN playing
            PROVE  playing'[a] \in Position(a) /\ Due(a, playing[a])'
        <5>1. a \in Animated /\ playing[a] \in Position(a) /\ Due(a, playing[a])
          BY DEF ClockOK
        <5>2. Advance(a, delta, decoded) \in Position(a)
              /\ Due(a, Advance(a, delta, decoded))
          BY <4>2, <5>1, AdvanceOK
        <5>3. PICK w : w = Advance(a, delta, decoded)
          OBVIOUS
        <5>4. playing'[a] = w /\ w \in Position(a) /\ Due(a, w)
          BY <4>1, <5>2, <5>3
        <5> QED
          BY <5>4 DEF Due, DelayOf
      <4>4. DOMAIN playing' = DOMAIN playing
        BY <4>1
      <4> QED
        BY <4>3, <4>4 DEF ClockOK
    <3> QED
      BY <3>1, <3>2
  <2> QED
    BY <2>1, <2>2, <2>3
       DEF ClockNext, clockVars, ClockLayout, ScreenChanges, EditingChanges
<1> QED
  BY <1>1, <1>2, PTL DEF ClockSpec

\* After every tick the frame shown is the one that is due, or the one before a
\* frame that is not decoded yet (animate_preview): for any animations, delays
\* and gaps, as long as the cap on the steps is one that cannot bind.
THEOREM AlwaysFrameDue == ClockSpec => []FrameDue
<1>1. ClockOK => FrameDue
  BY DEF ClockOK, FrameDue, Due, DelayOf
<1> QED
  BY <1>1, ClockAlwaysOK, PTL

-----------------------------------------------------------------------------
(* The palette                                                             *)

\* A section of a layout, with the heights of its rows.
Part == [header : Nat, top : Nat, bottom : Nat, cells : Seq(Nat)]

\* The sums before, between and after the heights.
Summing(heights, f) ==
    /\ f \in [0 .. Len(heights) -> Nat]
    /\ f[0] = 0
    /\ \A k \in 1 .. Len(heights) : f[k] = f[k - 1] + heights[k]

\* The fold of a sum has a trace.
LEMMA TotalTrace ==
    ASSUME NEW heights \in Seq(Nat)
    PROVE  \E f : Summing(heights, f) /\ Total(heights) = f[Len(heights)]
<1> DEFINE n == Len(heights)
           V == Nat
           Next1(v, h) == v + h
           step == [t \in (1 .. n) \X V |-> Next1(t[2], heights[t[1]])]
<1>1. n \in Nat /\ DOMAIN heights = 1 .. n /\ \A k \in 1 .. n : heights[k] \in Nat
  OBVIOUS
<1>2. \A v \in V, k \in 1 .. n : Next1(v, heights[k]) \in V
  BY <1>1
<1>3. 0 \in V
  OBVIOUS
<1> HIDE DEF n, V, Next1
<1>4. step \in Steps(n, V) /\ \A k \in 1 .. n, v \in V : step[<<k, v>>] = Next1(v, heights[k])
  BY <1>2 DEF Steps
<1> HIDE DEF step
<1>5. PICK g : g \in Folding(n, V, 0, step)
  BY <1>1, <1>3, <1>4, FoldExists
<1>6. /\ g \in [SUBSET (1 .. n) -> V] /\ g[{}] = 0
      /\ \A s \in SUBSET (1 .. n) : s # {} => g[s] = step[<<Max(s), g[s \ {Max(s)}]>>]
  BY <1>5 DEF Folding
<1>7. \A s \in SUBSET (1 .. n) :
        g[s] = IF s = {} THEN 0 ELSE Next1(g[s \ {Max(s)}], heights[Max(s)])
  <2> TAKE s \in SUBSET (1 .. n)
  <2>1. CASE s = {}
    BY <1>6, <2>1
  <2>2. CASE s # {}
    <3>1. Max(s) \in 1 .. n
      BY <1>1, <2>2, MaxOfIndexes
    <3>2. g[s \ {Max(s)}] \in V
      BY <1>6
    <3> QED
      BY <1>4, <1>6, <2>2, <3>1, <3>2
  <2> QED
    BY <2>1, <2>2
<1>8. g = [s \in SUBSET (1 .. n) |->
             IF s = {} THEN 0 ELSE Next1(g[s \ {Max(s)}], heights[Max(s)])]
  BY <1>6, <1>7
<1> DEFINE iter[s \in SUBSET (1 .. n)] ==
             IF s = {} THEN 0 ELSE Next1(iter[s \ {Max(s)}], heights[Max(s)])
<1>9. iter = [s \in SUBSET (1 .. n) |->
                IF s = {} THEN 0 ELSE Next1(iter[s \ {Max(s)}], heights[Max(s)])]
  BY <1>8, Zenon
<1>10. Total(heights) = iter[1 .. n]
  BY <1>1, Zenon DEF Total, FoldLeft, MapThenFoldSet, Next1
<1> HIDE DEF iter
<1>11. iter[{}] = 0
  BY <1>9
<1>12. ASSUME NEW s \in SUBSET (1 .. n), s # {} /\ iter[s \ {Max(s)}] \in V
       PROVE  iter[s] = step[<<Max(s), iter[s \ {Max(s)}]>>]
  <2>1. Max(s) \in 1 .. n
    BY <1>1, <1>12, MaxOfIndexes
  <2>2. iter[s] = Next1(iter[s \ {Max(s)}], heights[Max(s)])
    BY <1>9, <1>12
  <2> QED
    BY <1>4, <1>12, <2>1, <2>2
<1> DEFINE f == [k \in 0 .. n |-> iter[1 .. k]]
<1>13. f \in Traces(n, V, 0, step)
  BY <1>1, <1>3, <1>4, <1>11, <1>12, FoldTrace
<1>14. f[n] = iter[1 .. n]
  BY <1>1
<1> HIDE DEF f
<1>15. /\ f \in [0 .. n -> V] /\ f[0] = 0
       /\ \A k \in 1 .. n : f[k] = step[<<k, f[k - 1]>>]
  BY <1>13 DEF Traces, Trace
<1>16. \A k \in 1 .. n : f[k] = Next1(f[k - 1], heights[k])
  <2> TAKE k \in 1 .. n
  <2>1. f[k - 1] \in V
    BY <1>1, <1>15
  <2> QED
    BY <1>4, <1>15, <2>1
<1>17. Summing(heights, f)
  BY <1>15, <1>16 DEF Summing, n, V, Next1
<1> QED
  BY <1>10, <1>14, <1>17 DEF n

\* A sum is a natural number, nothing has the sum 0, and one more height is added.
LEMMA TotalOK ==
    ASSUME NEW p \in Seq(Nat)
    PROVE  Total(p) \in Nat /\ (Len(p) = 0 => Total(p) = 0)
<1>1. PICK f : Summing(p, f) /\ Total(p) = f[Len(p)]
  BY TotalTrace
<1>2. Len(p) \in Nat /\ Len(p) \in 0 .. Len(p)
  OBVIOUS
<1> QED
  BY <1>1, <1>2 DEF Summing

\* One more height adds itself to the total.
LEMMA TotalNext ==
    ASSUME NEW p \in Seq(Nat), NEW q \in Seq(Nat), Len(p) = Len(q) + 1,
           \A j \in 1 .. Len(q) : p[j] = q[j]
    PROVE  Total(p) = Total(q) + p[Len(p)]
<1>1. PICK f : Summing(p, f) /\ Total(p) = f[Len(p)]
  BY TotalTrace
<1>2. PICK g : Summing(q, g) /\ Total(q) = g[Len(q)]
  BY TotalTrace
<1>3. Len(p) \in Nat /\ Len(q) \in Nat
  OBVIOUS
<1>4. /\ f[0] = 0 /\ g[0] = 0
      /\ \A k \in 1 .. Len(p) : f[k] = f[k - 1] + p[k]
      /\ \A k \in 1 .. Len(q) : g[k] = g[k - 1] + q[k]
  BY <1>1, <1>2 DEF Summing
<1> DEFINE Same == {k \in 0 .. Len(q) : f[k] = g[k]}
<1>5. 0 \in Same
  BY <1>3, <1>4
<1>6. ASSUME NEW k \in 0 .. Len(q) - 1, k \in Same PROVE k + 1 \in Same
  <2>1. k + 1 \in 1 .. Len(q) /\ k + 1 \in 1 .. Len(p) /\ (k + 1) - 1 = k /\ k + 1 \in 0 .. Len(q)
    BY <1>3
  <2> QED
    BY <1>4, <1>6, <2>1
<1> HIDE DEF Same
<1>7. \A k \in 0 .. Len(q) : k \in Same
  BY <1>3, <1>5, <1>6, UpTo
<1>8. Len(q) \in 0 .. Len(q) /\ Len(p) \in 1 .. Len(p) /\ Len(p) - 1 = Len(q)
  BY <1>3
<1>9. f[Len(q)] = g[Len(q)]
  BY <1>7, <1>8 DEF Same
<1> QED
  BY <1>1, <1>2, <1>4, <1>8, <1>9

\* The sums of the first heights of a sequence, one after the other.
LEMMA TotalOfFirst ==
    ASSUME NEW c \in Seq(Nat), NEW k \in 1 .. Len(c)
    PROVE  /\ Total(SubSeq(c, 1, k - 1)) \in Nat
           /\ Total(SubSeq(c, 1, k)) = Total(SubSeq(c, 1, k - 1)) + c[k]
           /\ Total(SubSeq(c, 1, k)) <= Total(c)
<1>1. Len(c) \in Nat /\ \A j \in 1 .. Len(c) : c[j] \in Nat
  OBVIOUS
<1>2. ASSUME NEW m \in 0 .. Len(c)
      PROVE  /\ SubSeq(c, 1, m) \in Seq(Nat) /\ Len(SubSeq(c, 1, m)) = m
             /\ \A j \in 1 .. m : SubSeq(c, 1, m)[j] = c[j]
  BY <1>1
<1>3. ASSUME NEW m \in 1 .. Len(c)
      PROVE  /\ Total(SubSeq(c, 1, m - 1)) \in Nat
             /\ Total(SubSeq(c, 1, m)) = Total(SubSeq(c, 1, m - 1)) + c[m]
  <2> DEFINE p == SubSeq(c, 1, m)
             q == SubSeq(c, 1, m - 1)
  <2>1. m \in 0 .. Len(c) /\ m - 1 \in 0 .. Len(c) /\ m \in 1 .. m
        /\ \A j \in 1 .. m - 1 : j \in 1 .. m
    BY <1>1
  <2>2. p \in Seq(Nat) /\ Len(p) = m /\ \A j \in 1 .. m : p[j] = c[j]
    BY <1>2, <2>1
  <2>3. q \in Seq(Nat) /\ Len(q) = m - 1 /\ \A j \in 1 .. m - 1 : q[j] = c[j]
    BY <1>2, <2>1
  <2> HIDE DEF p, q
  <2>4. Total(p) = Total(q) + p[Len(p)]
    <3>1. Len(p) = Len(q) + 1
      BY <2>1, <2>2, <2>3
    <3>2. \A j \in 1 .. Len(q) : p[j] = q[j]
      BY <2>1, <2>2, <2>3
    <3> QED
      BY <2>2, <2>3, <3>1, <3>2, TotalNext
  <2>5. Total(q) \in Nat
    BY <2>3, TotalOK
  <2> QED
    BY <2>1, <2>2, <2>4, <2>5 DEF p, q
<1>4. ASSUME NEW m \in 0 .. Len(c) PROVE Total(SubSeq(c, 1, m)) \in Nat
  BY <1>2, TotalOK
<1> DEFINE n == Len(c) - k
           Up == {i \in 0 .. n : Total(SubSeq(c, 1, k)) <= Total(SubSeq(c, 1, k + i))}
<1>5. n \in Nat /\ k \in 0 .. Len(c) /\ k \in Int
  BY <1>1
<1>6. 0 \in Up
  <2>1. k + 0 = k /\ Total(SubSeq(c, 1, k)) \in Nat /\ 0 \in 0 .. n
    BY <1>4, <1>5
  <2> QED
    BY <2>1
<1>7. ASSUME NEW i \in 0 .. n - 1, i \in Up PROVE i + 1 \in Up
  <2>1. k + (i + 1) \in 1 .. Len(c) /\ (k + (i + 1)) - 1 = k + i /\ i + 1 \in 0 .. n
        /\ k + i \in 0 .. Len(c)
    BY <1>1, <1>5
  <2>2. Total(SubSeq(c, 1, k + (i + 1))) = Total(SubSeq(c, 1, k + i)) + c[k + (i + 1)]
    BY <1>3, <2>1
  <2>3. Total(SubSeq(c, 1, k + i)) \in Nat /\ Total(SubSeq(c, 1, k)) \in Nat
        /\ c[k + (i + 1)] \in Nat
    BY <1>1, <1>4, <1>5, <2>1
  <2>4. Total(SubSeq(c, 1, k)) <= Total(SubSeq(c, 1, k + i))
    BY <1>7
  <2>5. Total(SubSeq(c, 1, k)) <= Total(SubSeq(c, 1, k + (i + 1)))
    BY <2>2, <2>3, <2>4
  <2> QED
    BY <2>1, <2>5
<1> HIDE DEF Up
<1>8. \A i \in 0 .. n : i \in Up
  BY <1>5, <1>6, <1>7, UpTo
<1>9. n \in 0 .. n /\ k + n = Len(c)
  BY <1>1, <1>5
<1>10. SubSeq(c, 1, Len(c)) = c
  BY <1>1
<1>11. Total(SubSeq(c, 1, k)) <= Total(SubSeq(c, 1, k + n))
  BY <1>8, <1>9 DEF Up
<1>12. Total(SubSeq(c, 1, k)) <= Total(c)
  BY <1>9, <1>10, <1>11
<1> QED
  BY <1>3, <1>12

\* The sections of a layout lie one below the other.
LEMMA TopNext ==
    ASSUME NEW L \in Seq(Part), NEW i \in 1 .. Len(L)
    PROVE  /\ SectionHeight(L[i]) \in Nat
           /\ Top(L, i) \in Nat
           /\ Top(L, i + 1) = Top(L, i) + SectionHeight(L[i])
<1> DEFINE H == [j \in 1 .. Len(L) |-> SectionHeight(L[j])]
<1>1. Len(L) \in Nat /\ \A j \in 1 .. Len(L) : L[j] \in Part
  OBVIOUS
<1>2. ASSUME NEW j \in 1 .. Len(L) PROVE SectionHeight(L[j]) \in Nat
  <2>1. L[j] \in Part /\ L[j].cells \in Seq(Nat)
    BY <1>1 DEF Part
  <2>2. Total(L[j].cells) \in Nat
    BY <2>1, TotalOK
  <2>3. L[j].header \in Nat /\ L[j].top \in Nat /\ L[j].bottom \in Nat
    BY <2>1 DEF Part
  <2>4. \A w, x, y, z \in Nat : w + x + y + z \in Nat
    OBVIOUS
  <2> QED
    BY <2>2, <2>3, <2>4 DEF SectionHeight
<1>3. PICK p : p = [j \in 1 .. (i + 1) - 1 |-> SectionHeight(L[j])]
  OBVIOUS
<1>4. PICK q : q = [j \in 1 .. i - 1 |-> SectionHeight(L[j])]
  OBVIOUS
<1>5. i \in Nat /\ i >= 1 /\ i <= Len(L) /\ (i + 1) - 1 = i /\ i - 1 \in Nat
  BY <1>1
<1>6. p = [j \in 1 .. i |-> SectionHeight(L[j])]
  BY <1>3, <1>5
<1>7. p \in Seq(Nat) /\ Len(p) = i
  <2>1. \A j \in 1 .. i : SectionHeight(L[j]) \in Nat
    BY <1>2, <1>5
  <2>2. p \in [1 .. i -> Nat]
    BY <1>6, <2>1
  <2> QED
    BY <1>5, <2>2
<1>8. q \in Seq(Nat) /\ Len(q) = i - 1
  <2>1. \A j \in 1 .. i - 1 : SectionHeight(L[j]) \in Nat
    BY <1>2, <1>5
  <2>2. q \in [1 .. i - 1 -> Nat]
    BY <1>4, <2>1
  <2> QED
    BY <1>5, <2>2
<1>9. Len(p) = Len(q) + 1 /\ \A j \in 1 .. Len(q) : p[j] = q[j]
  BY <1>4, <1>5, <1>6, <1>7, <1>8
<1>10. Total(p) = Total(q) + p[Len(p)] /\ Total(q) \in Nat
  BY <1>7, <1>8, <1>9, TotalNext, TotalOK
<1>11. p[Len(p)] = SectionHeight(L[i])
  BY <1>5, <1>6, <1>7
<1>12. Top(L, i + 1) = Total(p) /\ Top(L, i) = Total(q)
  BY <1>3, <1>4 DEF Top
<1> QED
  BY <1>2, <1>10, <1>11, <1>12

\* A layout begins at 0.
LEMMA TopFirst == \A L : Top(L, 1) = 0
<1> SUFFICES ASSUME NEW L PROVE Top(L, 1) = 0
  OBVIOUS
<1>1. PICK q : q = [j \in 1 .. 1 - 1 |-> SectionHeight(L[j])]
  OBVIOUS
<1>2. q = <<>>
  BY <1>1
<1>3. q \in Seq(Nat) /\ Len(q) = 0
  BY <1>2
<1> QED
  BY <1>1, <1>3, TotalOK DEF Top

\* No section begins above one before it.
LEMMA TopUp ==
    ASSUME NEW L \in Seq(Part), NEW i \in 1 .. Len(L) + 1, NEW j \in 1 .. Len(L) + 1, i <= j
    PROVE  Top(L, i) \in Nat /\ Top(L, i) <= Top(L, j)
<1> DEFINE n == Len(L)
           T(k) == Top(L, k + 1)
           Nats == {k \in 0 .. n : T(k) \in Nat}
           a == i - 1
           Up == {m \in 0 .. n - a : T(a) <= T(a + m)}
<1>1. n \in Nat /\ a \in 0 .. n /\ a + 1 = i /\ j - 1 \in 0 .. n /\ (j - 1) + 1 = j
  OBVIOUS
<1>2. ASSUME NEW k \in 0 .. n - 1
      PROVE  \E h \in Nat : T(k) \in Nat /\ T(k + 1) = T(k) + h
  <2>1. k + 1 \in 1 .. n /\ (k + 1) + 1 \in Int
    BY <1>1
  <2> QED
    BY <2>1, TopNext
<1>3. T(0) = 0
  <2>1. 0 + 1 = 1
    OBVIOUS
  <2> QED
    BY <2>1, TopFirst
<1> HIDE DEF T, n, a
<1>4. \A k \in 0 .. n : k \in Nats
  <2>1. 0 \in Nats
    BY <1>1, <1>3
  <2>2. ASSUME NEW k \in 0 .. n - 1, k \in Nats PROVE k + 1 \in Nats
    <3>1. T(k + 1) \in Nat
      BY <1>2
    <3>2. k + 1 \in 0 .. n
      BY <1>1
    <3> QED
      BY <3>1, <3>2
  <2> HIDE DEF Nats
  <2> QED
    BY <1>1, <2>1, <2>2, UpTo
<1>5. \A k \in 0 .. n : T(k) \in Nat
  BY <1>4
<1>6. \A m \in 0 .. n - a : m \in Up
  <2>1. 0 \in Up
    <3>1. a + 0 = a /\ 0 \in 0 .. n - a
      BY <1>1
    <3> QED
      BY <1>1, <1>5, <3>1
  <2>2. ASSUME NEW m \in 0 .. (n - a) - 1, m \in Up PROVE m + 1 \in Up
    <3>1. a + m \in 0 .. n - 1 /\ (a + m) + 1 = a + (m + 1) /\ m + 1 \in 0 .. n - a
          /\ a + m \in 0 .. n
      BY <1>1
    <3>2. PICK h \in Nat : T((a + m) + 1) = T(a + m) + h
      BY <1>2, <3>1
    <3>3. T(a) \in Nat /\ T(a + m) \in Nat /\ T(a) <= T(a + m)
      BY <1>1, <1>5, <2>2, <3>1
    <3>4. T(a) <= T(a + (m + 1))
      BY <3>1, <3>2, <3>3
    <3> QED
      BY <3>1, <3>4
  <2>3. n - a \in Nat
    BY <1>1
  <2> HIDE DEF Up
  <2> QED
    BY <2>1, <2>2, <2>3, UpTo
<1>7. (j - 1) - a \in 0 .. n - a /\ a + ((j - 1) - a) = j - 1
  BY <1>1 DEF a
<1>8. T(a) <= T(j - 1) /\ T(a) \in Nat
  BY <1>1, <1>5, <1>6, <1>7
<1>9. T(a) = Top(L, i) /\ T(j - 1) = Top(L, j)
  BY <1>1 DEF T
<1> QED
  BY <1>8, <1>9

\* The cells of a section lie inside it.
LEMMA CellInside ==
    ASSUME NEW L \in Seq(Part), NEW i \in 1 .. Len(L), NEW k \in DOMAIN L[i].cells
    PROVE  /\ CellTop(L, i, k) \in Nat /\ L[i].cells[k] \in Nat
           /\ Top(L, i) <= CellTop(L, i, k)
           /\ CellTop(L, i, k) + L[i].cells[k] <= Top(L, i + 1)
<1> DEFINE s == L[i]
           c == s.cells
<1>1. s \in Part
  OBVIOUS
<1>2. c \in Seq(Nat) /\ {s.header, s.top, s.bottom} \subseteq Nat
  BY <1>1 DEF Part
<1>3. k \in 1 .. Len(c) /\ c[k] \in Nat /\ c # <<>>
  BY <1>2
<1>4. PICK before, upto, all :
         /\ before = Total(SubSeq(c, 1, k - 1)) /\ upto = Total(SubSeq(c, 1, k))
         /\ all = Total(c)
  OBVIOUS
<1> HIDE DEF c
<1>5. before \in Nat /\ upto = before + c[k] /\ upto <= all /\ all \in Nat
  BY <1>2, <1>3, <1>4, TotalOfFirst, TotalOK
<1>6. SectionHeight(s) = s.header + s.top + all + s.bottom
  BY <1>3, <1>4 DEF SectionHeight, c
<1>7. CellTop(L, i, k) = Top(L, i) + s.header + s.top + before
  BY <1>4 DEF CellTop, c
<1>8. Top(L, i) \in Nat /\ Top(L, i + 1) = Top(L, i) + SectionHeight(s)
  BY TopNext
<1> HIDE DEF s
<1>9. PICK y, below : y = CellTop(L, i, k) /\ below = Top(L, i + 1)
  OBVIOUS
<1>10. PICK t, h, m, b : t = Top(L, i) /\ h = s.header /\ m = s.top /\ b = s.bottom
  OBVIOUS
<1>11. {t, h, m, b} \subseteq Nat /\ y = t + h + m + before /\ below = t + (h + m + all + b)
  BY <1>2, <1>6, <1>7, <1>8, <1>9, <1>10
<1>12. y \in Nat /\ t <= y /\ y + c[k] <= below
  <2>1. PICK w : w = c[k]
    OBVIOUS
  <2>2. w \in Nat /\ before \in Nat /\ all \in Nat /\ before + w <= all
    BY <1>3, <1>5, <2>1
  <2>3. t \in Nat /\ h \in Nat /\ m \in Nat /\ b \in Nat
    BY <1>11
  <2>4. y = t + h + m + before /\ below = t + (h + m + all + b)
    BY <1>11
  <2>5. y \in Nat /\ t <= y /\ y + w <= below
    BY <2>2, <2>3, <2>4
  <2> QED
    BY <2>1, <2>5
<1> QED
  BY <1>3, <1>9, <1>10, <1>12 DEF c, s

\* A gap opens at the top of a section, or at the end.
GapOK(L, g) ==
    /\ L \in Seq(Part)
    /\ g.section \in 1 .. Len(L) + 1
    /\ g.start = Top(L, g.section)
    /\ g.height \in Nat

\* The gap the composer computes is such a gap.
LEMMA GapAtSection ==
    ASSUME NEW L \in Seq(Part), NEW hasRecent, NEW entries, NEW g, g = Gap(L, hasRecent, entries)
    PROVE  GapOK(L, g)
<1> DEFINE sections == {i \in DOMAIN L : L[i].cells # <<>> /\ (hasRecent => i > 1)}
           i == CHOOSE i \in sections : \A j \in sections : i <= j
<1>1. Len(L) \in Nat /\ DOMAIN L = 1 .. Len(L)
  OBVIOUS
<1>2. g.height \in Nat
  BY DEF Gap
<1>3. g.section = IF sections = {} THEN Len(L) + 1 ELSE i
  BY DEF Gap
<1>4. g.start = IF sections = {} THEN Top(L, Len(L) + 1)
                ELSE CellTop(L, i, 1) - L[i].top - L[i].header
  BY DEF Gap
<1>5. CASE sections = {}
  BY <1>1, <1>2, <1>3, <1>4, <1>5 DEF GapOK
<1>6. CASE sections # {}
  <2>1. sections \in SUBSET Nat
    BY <1>1
  <2>2. \E m \in sections : \A j \in sections : m <= j
    BY <1>6, <2>1, Least
  <2>3. i \in sections
    BY <2>2
  <2>4. i \in 1 .. Len(L) /\ L[i] \in Part
    BY <1>1, <2>3
  <2> HIDE DEF i, sections
  <2>5. PICK s : s = L[i]
    OBVIOUS
  <2>6. s.cells \in Seq(Nat) /\ s.header \in Nat /\ s.top \in Nat
    BY <2>4, <2>5 DEF Part
  <2>7. SubSeq(s.cells, 1, 1 - 1) \in Seq(Nat) /\ Len(SubSeq(s.cells, 1, 1 - 1)) = 0
    BY <2>6
  <2>8. Total(SubSeq(s.cells, 1, 1 - 1)) = 0
    BY <2>7, TotalOK
  <2>9. Top(L, i) \in Nat
    BY <2>4, TopNext
  <2>10. CellTop(L, i, 1) = Top(L, i) + s.header + s.top + 0
    BY <2>5, <2>8 DEF CellTop
  <2>11. g.start = Top(L, i)
    <3>1. g.start = CellTop(L, i, 1) - s.top - s.header
      BY <1>4, <1>6, <2>5
    <3>2. PICK t, h, m, y : t = Top(L, i) /\ h = s.header /\ m = s.top /\ y = CellTop(L, i, 1)
      OBVIOUS
    <3>3. y = t + h + m + 0 /\ g.start = y - m - h /\ t \in Nat /\ h \in Nat /\ m \in Nat
      BY <2>6, <2>9, <2>10, <3>1, <3>2
    <3>4. g.start = t
      BY <3>3
    <3> QED
      BY <3>2, <3>4
  <2> QED
    BY <1>1, <1>2, <1>3, <1>6, <2>4, <2>11 DEF GapOK
<1> QED
  BY <1>5, <1>6

\* Twitch's cells lie before the gap or behind where it opens.
LEMMA CellPlace ==
    ASSUME NEW L, NEW g, GapOK(L, g), NEW n \in NativeCells(L)
    PROVE  /\ n.y \in Nat /\ n.h \in Nat /\ n.section \in Nat
           /\ g.section \in Nat /\ g.start \in Nat /\ g.height \in Nat
           /\ n.section < g.section => n.y + n.h <= g.start
           /\ ~(n.section < g.section) => g.start <= n.y
<1>1. L \in Seq(Part) /\ g.section \in 1 .. Len(L) + 1 /\ g.start = Top(L, g.section)
      /\ g.height \in Nat /\ Len(L) \in Nat /\ DOMAIN L = 1 .. Len(L)
  BY DEF GapOK
<1>a. PICK i \in 1 .. Len(L) :
        n \in {[section |-> i, y |-> CellTop(L, i, k), h |-> L[i].cells[k]] :
                 k \in DOMAIN L[i].cells}
  BY <1>1 DEF NativeCells
<1>2. PICK k \in DOMAIN L[i].cells :
        n = [section |-> i, y |-> CellTop(L, i, k), h |-> L[i].cells[k]]
  BY <1>a
<1>3. n.section = i /\ n.y = CellTop(L, i, k) /\ n.h = L[i].cells[k]
  BY <1>2
<1>4. n.y \in Nat /\ n.h \in Nat /\ Top(L, i) <= n.y /\ n.y + n.h <= Top(L, i + 1)
  BY <1>1, <1>3, CellInside
<1>5. i \in 1 .. Len(L) + 1 /\ i + 1 \in 1 .. Len(L) + 1 /\ i \in Nat /\ g.section \in Nat
  BY <1>1
<1>6. g.start \in Nat
  <2>1. g.section <= g.section
    BY <1>5
  <2> QED
    BY <1>1, <2>1, TopUp
<1>7. CASE n.section < g.section
  <2>1. i + 1 <= g.section
    BY <1>3, <1>5, <1>7
  <2>2. Top(L, i + 1) \in Nat /\ Top(L, i + 1) <= g.start
    BY <1>1, <1>5, <2>1, TopUp
  <2> QED
    BY <1>1, <1>3, <1>4, <1>5, <1>6, <1>7, <2>2
<1>8. CASE ~(n.section < g.section)
  <2>1. g.section <= i
    BY <1>3, <1>5, <1>8
  <2>2. Top(L, i) \in Nat /\ g.start <= Top(L, i)
    <3>1. Top(L, g.section) <= Top(L, i)
      BY <1>1, <1>5, <2>1, TopUp
    <3>2. Top(L, i) \in Nat
      BY <1>1, TopNext
    <3> QED
      BY <1>1, <3>1, <3>2
  <2> QED
    BY <1>1, <1>3, <1>4, <1>5, <1>6, <1>8, <2>2
<1> QED
  BY <1>7, <1>8

\* A cell that shows behind the translation is one Twitch's layout was asked for.
LEMMA CellAsked ==
    ASSUME NEW L, NEW g, GapOK(L, g), NEW n \in NativeCells(L), NEW y \in Int, NEW h \in Nat \ {0},
           Intersects(y, h, Inline(g, n))
    PROVE  LET top == NativeY(g, y)
               bottom == NativeY(g, y + h)
           IN  Intersects(top, IF bottom - top < 1 THEN 1 ELSE bottom - top, n)
<1>1. PICK a, b, s, H, c : a = n.y /\ b = n.h /\ s = g.start /\ H = g.height /\ c = Inline(g, n)
  OBVIOUS
<1>2. /\ a \in Nat /\ b \in Nat /\ s \in Nat /\ H \in Nat
      /\ n.section < g.section => a + b <= s
      /\ ~(n.section < g.section) => s <= a
  BY <1>1, CellPlace
<1>3. c.h = b /\ c.y = IF n.section < g.section THEN a ELSE a + H
  <2>1. PICK i, k : n = [section |-> i, y |-> CellTop(L, i, k), h |-> L[i].cells[k]]
    BY DEF NativeCells
  <2>2. CASE n.section < g.section
    BY <1>1, <2>2 DEF Inline
  <2>3. CASE ~(n.section < g.section)
    <3>1. c = [n EXCEPT !.y = @ + g.height]
      BY <1>1, <2>3 DEF Inline
    <3>2. c.y = n.y + g.height /\ c.h = n.h
      BY <2>1, <3>1
    <3> QED
      BY <1>1, <2>3, <3>2
  <2> QED
    BY <2>2, <2>3
<1>4. b > 0 /\ y < c.y + b /\ c.y < y + h
  BY <1>1, <1>3 DEF Intersects
<1>5. PICK top, bottom : top = NativeY(g, y) /\ bottom = NativeY(g, y + h)
  OBVIOUS
<1>6. /\ top = IF y < s THEN y ELSE IF y < s + H THEN s ELSE y - H
      /\ bottom = IF y + h < s THEN y + h ELSE IF y + h < s + H THEN s ELSE y + h - H
  <2>1. PICK z : z = y + h
    OBVIOUS
  <2>2. top = IF y < s THEN y ELSE IF y < s + H THEN s ELSE y - H
    BY <1>1, <1>5 DEF NativeY
  <2>3. bottom = IF z < s THEN z ELSE IF z < s + H THEN s ELSE z - H
    BY <1>1, <1>5, <2>1 DEF NativeY
  <2> QED
    BY <1>2, <2>1, <2>2, <2>3
<1>7. top \in Int /\ bottom \in Int
  BY <1>2, <1>6
<1>8. top < a + b /\ (a < bottom \/ a < top + 1)
  <2>1. CASE n.section < g.section
    BY <1>2, <1>3, <1>4, <1>6, <2>1
  <2>2. CASE ~(n.section < g.section)
    BY <1>2, <1>3, <1>4, <1>6, <2>2
  <2> QED
    BY <2>1, <2>2
<1>9. PICK size : size = IF bottom - top < 1 THEN 1 ELSE bottom - top
  OBVIOUS
<1>10. size > 0 /\ a < top + size
  BY <1>2, <1>7, <1>8, <1>9
<1>11. Intersects(top, size, n)
  BY <1>1, <1>4, <1>8, <1>10 DEF Intersects
<1> QED
  BY <1>5, <1>9, <1>11

\* flow_elements shows what lies in the rectangle, wherever it lies.
LEMMA FlowExact ==
    ASSUME NEW L, NEW g, GapOK(L, g), NEW y \in Int, NEW h \in Nat \ {0}
    PROVE  FlowElements(L, g, y, h)
             = {c \in {Inline(g, n) : n \in NativeCells(L)} : Intersects(y, h, c)}
<1>1. PICK top, size : /\ top = NativeY(g, y)
                       /\ size = IF NativeY(g, y + h) - top < 1 THEN 1
                                 ELSE NativeY(g, y + h) - top
  OBVIOUS
<1>2. FlowElements(L, g, y, h) =
        {c \in {Inline(g, n) : n \in {n \in NativeCells(L) : Intersects(top, size, n)}} :
           Intersects(y, h, c)}
  BY <1>1 DEF FlowElements
<1>3. ASSUME NEW n \in NativeCells(L), Intersects(y, h, Inline(g, n))
      PROVE  Intersects(top, size, n)
  BY <1>1, <1>3, CellAsked
<1> QED
  BY <1>2, <1>3

\* The gap holds no cell of Twitch's.
LEMMA GapClear ==
    ASSUME NEW L, NEW g, GapOK(L, g), NEW n \in NativeCells(L)
    PROVE  ~Intersects(g.start, g.height, Inline(g, n))
<1>1. PICK a, b, s, H, c : a = n.y /\ b = n.h /\ s = g.start /\ H = g.height /\ c = Inline(g, n)
  OBVIOUS
<1>2. /\ a \in Nat /\ b \in Nat /\ s \in Nat /\ H \in Nat
      /\ n.section < g.section => a + b <= s
      /\ ~(n.section < g.section) => s <= a
  BY <1>1, CellPlace
<1>3. CASE n.section < g.section
  <2>1. c.y = a /\ c.h = b
    BY <1>1, <1>3 DEF Inline
  <2> QED
    BY <1>1, <1>2, <1>3, <2>1 DEF Intersects
<1>4. CASE ~(n.section < g.section)
  <2>1. PICK i, k : n = [section |-> i, y |-> CellTop(L, i, k), h |-> L[i].cells[k]]
    BY DEF NativeCells
  <2>2. c = [n EXCEPT !.y = @ + g.height]
    BY <1>1, <1>4 DEF Inline
  <2>3. c.y = a + H
    BY <1>1, <2>1, <2>2
  <2> QED
    BY <1>1, <1>2, <1>4, <2>3 DEF Intersects
<1> QED
  BY <1>3, <1>4

\* What the palettes were lent, and where the gap is.
LentOK ==
    /\ palette \in Palettes \cup {Absent} /\ height \in Nat
    /\ inset \in [Palettes -> Nat]
    /\ \A p \in Palettes : inset[p] = IF p = palette THEN height ELSE 0
    /\ gap = NoGap \/ GapOK(layout, gap)

\* Every rebinding gives back what the palette before was lent.
LEMMA LentAlwaysOK == PickSpec => []LentOK
<1>1. PickInit => LentOK
  BY PickerAssumption DEF PickInit, LentOK
<1>2. LentOK /\ [PickNext]_pickVars => LentOK'
  <2> SUFFICES ASSUME LentOK, [PickNext]_pickVars PROVE LentOK'
    OBVIOUS
  <2>1. palette \in Palettes \cup {Absent} /\ height \in Nat /\ inset \in [Palettes -> Nat]
        /\ (\A q \in Palettes : inset[q] = IF q = palette THEN height ELSE 0)
        /\ (gap = NoGap \/ GapOK(layout, gap)) /\ Absent \notin Palettes
    BY PickerAssumption DEF LentOK
  <2>2. CASE UNCHANGED placeVars
    <3>1. UNCHANGED <<palette, height, inset, gap, layout>>
      BY <2>2 DEF placeVars
    <3>2. PICK L, g : L = layout /\ g = gap
      OBVIOUS
    <3>3. g = NoGap \/ GapOK(L, g)
      BY <2>1, <3>2
    <3>4. (gap = NoGap \/ GapOK(layout, gap))'
      BY <3>1, <3>2, <3>3 DEF GapOK, NoGap
    <3> QED
      BY <2>1, <3>1, <3>4 DEF LentOK
  <2>3. ASSUME NEW visible \in BOOLEAN, NEW entries \in BOOLEAN, NEW p \in Palettes \cup {Absent},
               NEW n \in {0, 2}, NEW L \in Layouts, PickerLayout(visible, p, n, L, entries)
        PROVE  LentOK'
    <3> DEFINE rebound == p # palette
               base == IF rebound THEN Detached ELSE inset
               had == IF rebound THEN 0 ELSE height
    <3>1. /\ palette' = p /\ height' \in {0, RowHeight} /\ (p = Absent => height' = 0)
          /\ inset' = IF p = Absent THEN base ELSE [base EXCEPT ![p] = @ + height' - had]
          /\ layout' = L
      BY <2>3 DEF PickerLayout
    <3>2. base \in [Palettes -> Nat] /\ \A q \in Palettes : base[q] = IF q = p THEN had ELSE 0
      <4>1. CASE rebound /\ palette # Absent
        <5>1. base = [inset EXCEPT ![palette] = @ - height] /\ palette \in Palettes
          BY <2>1, <4>1 DEF Detached
        <5>2. inset[palette] = height /\ height - height = 0
          BY <2>1, <5>1
        <5>3. base = [inset EXCEPT ![palette] = 0]
          BY <5>1, <5>2
        <5> HIDE DEF base
        <5>4. base \in [Palettes -> Nat] /\ \A q \in Palettes : base[q] = 0
          BY <2>1, <5>1, <5>3
        <5> QED
          BY <4>1, <5>4
      <4>2. CASE ~(rebound /\ palette # Absent)
        BY <2>1, <4>2 DEF Detached
      <4> QED
        BY <4>1, <4>2
    <3>3. had \in Nat /\ height' \in Nat
      BY <2>1, <3>1, PickerAssumption
    <3> HIDE DEF base, had
    <3>4. inset' \in [Palettes -> Nat]
          /\ \A q \in Palettes : inset'[q] = IF q = p THEN height' ELSE 0
      <4>1. CASE p = Absent
        BY <2>1, <3>1, <3>2, <4>1
      <4>2. CASE p # Absent
        <5>1. p \in Palettes /\ inset' = [base EXCEPT ![p] = @ + height' - had] /\ base[p] = had
          BY <3>1, <3>2, <4>2
        <5>2. inset' = [base EXCEPT ![p] = height']
          <6>1. PICK m, d : m = height' /\ d = had
            OBVIOUS
          <6>2. m \in Nat /\ d \in Nat
            BY <3>3, <6>1
          <6>3. d + m - d = m
            BY <6>2
          <6> QED
            BY <5>1, <6>1, <6>3
        <5> QED
          BY <3>2, <3>3, <5>1, <5>2
      <4> QED
        BY <4>1, <4>2
    <3>5. L \in Seq(Part)
      BY PickerAssumption DEF Part
    <3>6. gap' = NoGap \/ gap' = Gap(L, Len(L) > 0 /\ L[1].header > 1, entries)
      BY <2>3 DEF PickerLayout
    <3>7. PICK g : g = gap'
      OBVIOUS
    <3>8. g = NoGap \/ GapOK(L, g)
      BY <3>5, <3>6, <3>7, GapAtSection
    <3>9. (gap = NoGap \/ GapOK(layout, gap))'
      BY <3>1, <3>7, <3>8 DEF GapOK, NoGap
    <3> QED
      BY <3>1, <3>3, <3>4, <3>9 DEF LentOK
  <2>4. CASE PaletteDies
    <3>1. /\ palette # Absent /\ palette' = Absent /\ inset' = [inset EXCEPT ![palette] = 0]
          /\ UNCHANGED <<height, gap, layout>>
      BY <2>4 DEF PaletteDies
    <3>2. PICK L, g : L = layout /\ g = gap
      OBVIOUS
    <3>3. g = NoGap \/ GapOK(L, g)
      BY <2>1, <3>2
    <3>4. (gap = NoGap \/ GapOK(layout, gap))'
      BY <3>1, <3>2, <3>3 DEF GapOK, NoGap
    <3>5. inset' \in [Palettes -> Nat] /\ \A q \in Palettes : inset'[q] = 0
      BY <2>1, <3>1
    <3> QED
      BY <2>1, <3>1, <3>4, <3>5 DEF LentOK
  <2>5. CASE \/ Change \/ CatalogChanged \/ ResetRoom \/ RoomEmptied \/ UpdateImageAspect
             \/ CopyLibrary \/ TakeLibrary \/ FooterMoved
    <3>1. CASE Change \/ CatalogChanged \/ ResetRoom \/ RoomEmptied
      BY <2>2, <3>1 DEF Change, CatalogChanged, ResetRoom, RoomEmptied, Changed, Raised
    <3>2. CASE UpdateImageAspect \/ CopyLibrary \/ TakeLibrary \/ FooterMoved
      BY <2>2, <3>2 DEF UpdateImageAspect, CopyLibrary, TakeLibrary, FooterMoved
    <3>3. QED
      BY <2>5, <3>1, <3>2
  <2>6. CASE Ask
    BY <2>2, <2>6 DEF Ask, RefreshLibrary
  <2>7. CASE UNCHANGED pickVars
    BY <2>2, <2>7 DEF pickVars
  <2> QED
    BY <2>3, <2>4, <2>5, <2>6, <2>7 DEF PickNext
<1> QED
  BY <1>1, <1>2, PTL DEF PickSpec

\* Every palette has the inset Twitch gave it, the bound one room for the row
\* besides; scrolled anywhere it shows every cell of Twitch's that is there to be
\* seen, and none in the gap (place_recent_strip, place_library_panel and
\* flow_elements): for any layout, row and number of palettes.
THEOREM AlwaysLent == PickSpec => []PaletteLent
<1>1. LentOK => PaletteLent
  <2> SUFFICES ASSUME LentOK PROVE PaletteLent
    OBVIOUS
  <2>1. ASSUME gap.height > 0 PROVE GapOK(layout, gap)
    BY <2>1 DEF LentOK, NoGap
  <2>2. ASSUME gap.height > 0, NEW y \in 0 .. 12, NEW h \in {1, 4}
        PROVE  FlowElements(layout, gap, y, h) =
                 {c \in {Inline(gap, n) : n \in NativeCells(layout)} : Intersects(y, h, c)}
    <3>1. y \in Int /\ h \in Nat \ {0}
      OBVIOUS
    <3> QED
      BY <2>1, <2>2, <3>1, FlowExact
  <2>3. ASSUME gap.height > 0, NEW n \in NativeCells(layout)
        PROVE  ~Intersects(gap.start, gap.height, Inline(gap, n))
    BY <2>1, <2>3, GapClear
  <2> QED
    BY <2>2, <2>3 DEF LentOK, PaletteLent
<1> QED
  BY <1>1, LentAlwaysOK, PTL

-----------------------------------------------------------------------------
(* The composer's text.  Cells, what they stand for, and how wide that is.   *)

Cell == {c \in [code : Seq(Units), own : BOOLEAN] :
            IF c.own THEN Len(c.code) >= 1 ELSE Len(c.code) = 1}
CodeOf == [c \in Cell |-> c.code]
OwnOf == [c \in Cell |-> IF c.own THEN <<c>> ELSE <<>>]
Attached(cells) == Spread(OwnOf, cells)
Width(cells, n) == Len(Codes(SubSeq(cells, 1, n)))

\* A cell stands for one unit at least.
LEMMA CellOK ==
    ASSUME NEW c \in Cell
    PROVE  /\ c.code \in Seq(Units) /\ Len(c.code) \in Nat /\ Len(c.code) >= 1
           /\ c.own \in BOOLEAN /\ (~c.own => Len(c.code) = 1)
           /\ CodeOf \in [Cell -> Seq(Units)] /\ OwnOf \in [Cell -> Seq(Cell)]
           /\ CodeOf[c] = c.code /\ OwnOf[c] = IF c.own THEN <<c>> ELSE <<>>
<1>1. c \in [code : Seq(Units), own : BOOLEAN]
      /\ IF c.own THEN Len(c.code) >= 1 ELSE Len(c.code) = 1
  BY DEF Cell
<1>2. c.code \in Seq(Units) /\ Len(c.code) \in Nat /\ Len(c.code) >= 1
  BY <1>1
<1>3. CodeOf \in [Cell -> Seq(Units)]
  <2>1. \A d \in Cell : d.code \in Seq(Units)
    BY DEF Cell
  <2> QED
    BY <2>1 DEF CodeOf
<1>4. OwnOf \in [Cell -> Seq(Cell)]
  <2>1. \A d \in Cell : (IF d.own THEN <<d>> ELSE <<>>) \in Seq(Cell)
    OBVIOUS
  <2> QED
    BY <2>1 DEF OwnOf
<1> QED
  BY <1>1, <1>2, <1>3, <1>4 DEF CodeOf, OwnOf

\* What cells stand for.
LEMMA CodesSpread ==
    ASSUME NEW cells \in Seq(Cell)
    PROVE  /\ Codes(cells) = Spread(CodeOf, cells)
           /\ Codes(cells) \in Seq(Units) /\ Attached(cells) \in Seq(Cell)
           /\ CodeOf \in [Cell -> Seq(Units)] /\ OwnOf \in [Cell -> Seq(Cell)]
<1>1. CodeOf \in [Cell -> Seq(Units)] /\ OwnOf \in [Cell -> Seq(Cell)]
  <2>1. \A d \in Cell : d.code \in Seq(Units) /\ (IF d.own THEN <<d>> ELSE <<>>) \in Seq(Cell)
    BY CellOK, Zenon
  <2> QED
    BY <2>1 DEF CodeOf, OwnOf
<1>2. \A i \in DOMAIN cells : cells[i] \in Cell
  OBVIOUS
<1>3. Mapped(CodeOf, cells) = [i \in DOMAIN cells |-> cells[i].code]
  BY <1>2 DEF Mapped, CodeOf
<1>4. Codes(cells) = Spread(CodeOf, cells)
  BY <1>3 DEF Spread, Codes
<1>5. Together(Units, CodeOf, cells, cells) /\ Together(Cell, OwnOf, cells, cells)
  BY <1>1, SpreadConcat
<1> QED
  BY <1>1, <1>4, <1>5 DEF Together, Attached

\* What cells stand for, joined.
LEMMA CodesConcat ==
    ASSUME NEW p \in Seq(Cell), NEW q \in Seq(Cell)
    PROVE  /\ p \o q \in Seq(Cell)
           /\ Codes(p \o q) = Codes(p) \o Codes(q)
           /\ Len(Codes(p \o q)) = Len(Codes(p)) + Len(Codes(q))
           /\ Attached(p \o q) = Attached(p) \o Attached(q)
           /\ Len(Attached(p \o q)) = Len(Attached(p)) + Len(Attached(q))
<1>1. PICK all : all = p \o q
  OBVIOUS
<1>2. all \in Seq(Cell)
  BY <1>1, ConcatProperties
<1>3. /\ Codes(p) = Spread(CodeOf, p) /\ Codes(q) = Spread(CodeOf, q) /\ Codes(all) = Spread(CodeOf, all)
      /\ CodeOf \in [Cell -> Seq(Units)] /\ OwnOf \in [Cell -> Seq(Cell)]
      /\ Codes(p) \in Seq(Units) /\ Codes(q) \in Seq(Units)
      /\ Attached(p) \in Seq(Cell) /\ Attached(q) \in Seq(Cell)
  BY <1>2, CodesSpread
<1>4. Together(Units, CodeOf, p, q) /\ Together(Cell, OwnOf, p, q)
  BY <1>3, SpreadConcat
<1>5. Codes(all) = Codes(p) \o Codes(q) /\ Attached(all) = Attached(p) \o Attached(q)
  BY <1>1, <1>3, <1>4 DEF Together, Attached
<1>6. Len(Codes(p) \o Codes(q)) = Len(Codes(p)) + Len(Codes(q))
      /\ Len(Attached(p) \o Attached(q)) = Len(Attached(p)) + Len(Attached(q))
  BY <1>3, ConcatProperties
<1> QED
  BY <1>1, <1>2, <1>5, <1>6

\* What one cell stands for.
LEMMA CodesOne ==
    ASSUME NEW c \in Cell
    PROVE  /\ Codes(<<c>>) = c.code /\ Codes(<<>>) = <<>>
           /\ Attached(<<c>>) = (IF c.own THEN <<c>> ELSE <<>>) /\ Attached(<<>>) = <<>>
<1>1. <<c>> \in Seq(Cell) /\ <<>> \in Seq(Cell)
  OBVIOUS
<1>2. Codes(<<c>>) = Spread(CodeOf, <<c>>) /\ Codes(<<>>) = Spread(CodeOf, <<>>)
      /\ CodeOf \in [Cell -> Seq(Units)] /\ OwnOf \in [Cell -> Seq(Cell)]
  BY <1>1, CodesSpread
<1>3. Spread(CodeOf, <<c>>) = CodeOf[c] /\ Spread(CodeOf, <<>>) = <<>>
      /\ Spread(OwnOf, <<c>>) = OwnOf[c] /\ Spread(OwnOf, <<>>) = <<>>
  BY <1>2, SpreadOne
<1> QED
  BY <1>2, <1>3, CellOK DEF Attached

\* A part of a sequence.
LEMMA PartOf ==
    ASSUME NEW S, NEW s \in Seq(S), NEW i \in Nat, NEW j \in i .. Len(s)
    PROVE  /\ SubSeq(s, i + 1, j) \in Seq(S) /\ Len(SubSeq(s, i + 1, j)) = j - i
           /\ \A t \in 1 .. j - i : SubSeq(s, i + 1, j)[t] = s[i + t]
<1>1. PICK k : k = i + 1
  OBVIOUS
<1>2. Len(s) \in Nat /\ j \in Nat /\ i <= j /\ j <= Len(s) /\ k \in Int /\ j \in Int /\ k = i + 1
  BY <1>1
<1>3. \A t \in k .. j : s[t] \in S
  BY <1>2
<1>4. PICK p : p = SubSeq(s, k, j)
  OBVIOUS
<1>5. /\ p \in Seq(S) /\ Len(p) = (IF k <= j THEN j - k + 1 ELSE 0)
      /\ \A t \in 1 .. j - k + 1 : p[t] = s[k + t - 1]
  BY <1>2, <1>3, <1>4, SubSeqProperties
<1>6. j - k + 1 = j - i /\ (IF k <= j THEN j - k + 1 ELSE 0) = j - i
  BY <1>2
<1>7. \A t \in 1 .. j - i : k + t - 1 = i + t
  BY <1>2
<1>8. \A t \in 1 .. j - i : p[t] = s[i + t]
  BY <1>5, <1>6, <1>7
<1> QED
  BY <1>1, <1>4, <1>5, <1>6, <1>8

\* Three parts of a sequence.
LEMMA ThreeParts ==
    ASSUME NEW S, NEW x \in Seq(S), NEW y \in Seq(S), NEW z \in Seq(S), NEW all, all = (x \o y) \o z
    PROVE  /\ all \in Seq(S) /\ Len(all) = Len(x) + Len(y) + Len(z)
           /\ Len(x) \in Nat /\ Len(y) \in Nat /\ Len(z) \in Nat
           /\ \A t \in 1 .. Len(x) : all[t] = x[t]
           /\ \A t \in 1 .. Len(y) : all[Len(x) + t] = y[t]
           /\ \A t \in 1 .. Len(z) : all[Len(x) + Len(y) + t] = z[t]
           /\ SubSeq(all, 1, Len(x)) = x
           /\ SubSeq(all, Len(x) + 1, Len(x) + Len(y)) = y
           /\ SubSeq(all, Len(x) + Len(y) + 1, Len(all)) = z
<1>1. PICK xy : xy = x \o y
  OBVIOUS
<1>2. /\ xy \in Seq(S) /\ Len(xy) = Len(x) + Len(y) /\ Len(x) \in Nat /\ Len(y) \in Nat
      /\ \A i \in 1 .. Len(x) + Len(y) : xy[i] = IF i <= Len(x) THEN x[i] ELSE y[i - Len(x)]
  BY <1>1, ConcatParts
<1>3. /\ all \in Seq(S) /\ Len(all) = Len(xy) + Len(z) /\ Len(z) \in Nat
      /\ \A i \in 1 .. Len(xy) + Len(z) : all[i] = IF i <= Len(xy) THEN xy[i] ELSE z[i - Len(xy)]
  BY <1>1, <1>2, ConcatParts
<1>4. PICK n : n = Len(x)
  OBVIOUS
<1>5. PICK m : m = Len(y)
  OBVIOUS
<1>6. PICK l : l = Len(z)
  OBVIOUS
<1>7. n \in Nat /\ m \in Nat /\ l \in Nat /\ Len(all) = n + m + l
  BY <1>2, <1>3, <1>4, <1>5, <1>6
<1>8. ASSUME NEW t \in 1 .. n PROVE all[t] = x[t]
  <2>1. t \in 1 .. n + m /\ t \in 1 .. n + m + l /\ t <= n /\ t <= n + m
    BY <1>7
  <2> QED
    BY <1>2, <1>3, <1>4, <1>5, <1>6, <2>1
<1>9. ASSUME NEW t \in 1 .. m PROVE all[n + t] = y[t]
  <2>1. n + t \in 1 .. n + m /\ n + t \in 1 .. n + m + l /\ ~(n + t <= n) /\ n + t <= n + m /\ (n + t) - n = t
    BY <1>7
  <2> QED
    BY <1>2, <1>3, <1>4, <1>5, <1>6, <2>1
<1>10. ASSUME NEW t \in 1 .. l PROVE all[n + m + t] = z[t]
  <2>1. n + m + t \in 1 .. n + m + l /\ ~(n + m + t <= n + m) /\ (n + m + t) - (n + m) = t
    BY <1>7
  <2> QED
    BY <1>2, <1>3, <1>4, <1>5, <1>6, <2>1
<1>11. SubSeq(all, 0 + 1, n) = x
  <2>1. PICK s : s = SubSeq(all, 0 + 1, n)
    OBVIOUS
  <2>2. 0 \in Nat /\ n \in 0 .. Len(all) /\ (n) - (0) = n
    BY <1>7
  <2>3. s \in Seq(S) /\ Len(s) = (n) - (0) /\ \A t \in 1 .. (n) - (0) : s[t] = all[0 + t]
    BY <1>3, <2>1, <2>2, PartOf
  <2>4. Len(s) = n /\ \A t \in 1 .. n : s[t] = x[t]
    <3>1. n - 0 = n /\ \A t \in 1 .. n : 0 + t = t
      BY <1>7
    <3>2. \A t \in 1 .. n : s[t] = all[t]
      BY <2>3, <3>1
    <3> QED
      BY <2>2, <2>3, <1>8, <3>2
  <2> QED
    BY <1>4, <2>1, <2>3, <2>4, SeqEqual
<1>12. SubSeq(all, n + 1, n + m) = y
  <2>1. PICK s : s = SubSeq(all, n + 1, n + m)
    OBVIOUS
  <2>2. n \in Nat /\ n + m \in n .. Len(all) /\ (n + m) - (n) = m
    BY <1>7
  <2>3. s \in Seq(S) /\ Len(s) = (n + m) - (n) /\ \A t \in 1 .. (n + m) - (n) : s[t] = all[n + t]
    BY <1>3, <2>1, <2>2, PartOf
  <2>4. Len(s) = m /\ \A t \in 1 .. m : s[t] = y[t]
    BY <2>2, <2>3, <1>9
  <2> QED
    BY <1>5, <2>1, <2>3, <2>4, SeqEqual
<1>13. SubSeq(all, n + m + 1, n + m + l) = z
  <2>1. PICK s : s = SubSeq(all, n + m + 1, n + m + l)
    OBVIOUS
  <2>2. n + m \in Nat /\ n + m + l \in n + m .. Len(all) /\ (n + m + l) - (n + m) = l
    BY <1>7
  <2>3. s \in Seq(S) /\ Len(s) = (n + m + l) - (n + m) /\ \A t \in 1 .. (n + m + l) - (n + m) : s[t] = all[n + m + t]
    BY <1>3, <2>1, <2>2, PartOf
  <2>4. Len(s) = l /\ \A t \in 1 .. l : s[t] = z[t]
    BY <2>2, <2>3, <1>10
  <2> QED
    BY <1>6, <2>1, <2>3, <2>4, SeqEqual
<1>14. 0 + 1 = 1 /\ n + m + l = Len(all)
  BY <1>7
<1>15. SubSeq(all, 1, n) = x /\ SubSeq(all, n + m + 1, Len(all)) = z
  BY <1>11, <1>13, <1>14
<1> QED
  BY <1>3, <1>4, <1>5, <1>6, <1>7, <1>8, <1>9, <1>10, <1>12, <1>15

\* The width of one cell more.
LEMMA WidthNext ==
    ASSUME NEW cells \in Seq(Cell), NEW n \in 1 .. Len(cells)
    PROVE  /\ Width(cells, n - 1) \in Nat
           /\ Width(cells, n) = Width(cells, n - 1) + Len(cells[n].code)
           /\ Len(cells[n].code) \in Nat /\ Len(cells[n].code) >= 1
<1>1. n - 1 \in Nat /\ n \in Nat /\ 1 \in 1 .. Len(cells) /\ n \in 1 .. Len(cells) /\ n - 1 \in 0 .. Len(cells)
      /\ Len(cells) \in Nat /\ cells[n] \in Cell
  OBVIOUS
<1>2. PICK p : p = SubSeq(cells, 1, n - 1)
  OBVIOUS
<1>3. PICK q : q = SubSeq(cells, 1, n)
  OBVIOUS
<1>4. p \in Seq(Cell)
  <2>1. 0 + 1 = 1 /\ 0 \in Nat /\ n - 1 \in 0 .. Len(cells)
    BY <1>1
  <2>2. SubSeq(cells, 0 + 1, n - 1) \in Seq(Cell)
    BY <2>1, PartOf
  <2> QED
    BY <1>2, <2>1, <2>2
<1>5. q = p \o <<cells[n]>>
  <2>1. n \in 1 .. Len(cells)
    OBVIOUS
  <2>2. SubSeq(cells, 1, n) = SubSeq(cells, 1, n - 1) \o <<cells[n]>>
    BY <1>1, <2>1, SubSeqRecursiveSecond
  <2> QED
    BY <1>2, <1>3, <2>2
<1>6. <<cells[n]>> \in Seq(Cell)
  BY <1>1
<1>7. Len(Codes(q)) = Len(Codes(p)) + Len(Codes(<<cells[n]>>))
  BY <1>4, <1>5, <1>6, CodesConcat
<1>8. Codes(<<cells[n]>>) = cells[n].code
  BY <1>1, CodesOne
<1>9. Len(Codes(p)) \in Nat
  BY <1>4, CodesSpread
<1>10. Len(cells[n].code) \in Nat /\ Len(cells[n].code) >= 1
  BY <1>1, CellOK
<1> QED
  BY <1>2, <1>3, <1>7, <1>8, <1>9, <1>10 DEF Width

\* No cells are no units wide.
LEMMA WidthZero == \A cells : Width(cells, 0) = 0
<1> TAKE cells
<1>1. SubSeq(cells, 1, 0) = <<>>
  <2>1. 1 \in Int /\ 0 \in Int /\ 0 < 1
    OBVIOUS
  <2> QED
    BY <2>1, SubSeqEmpty
<1>2. Codes(<<>>) = <<>>
  <2>1. <<>> \in Seq(Units)
    OBVIOUS
  <2>2. FlattenSeq(<<>>) = <<>>
    BY <2>1, FlattenOne
  <2>3. [i \in DOMAIN <<>> |-> <<>>[i].code] = <<>>
    OBVIOUS
  <2> QED
    BY <2>2, <2>3 DEF Codes
<1>3. PICK p : p = SubSeq(cells, 1, 0)
  OBVIOUS
<1>4. PICK n : n = Len(Codes(p))
  OBVIOUS
<1>5. p = <<>> /\ Codes(p) = <<>>
  BY <1>1, <1>2, <1>3
<1>6. n = 0
  BY <1>4, <1>5
<1> QED
  BY <1>3, <1>4, <1>6 DEF Width

\* Widths are naturals that grow with every cell.
LEMMA WidthGrows ==
    ASSUME NEW cells \in Seq(Cell), NEW i \in 0 .. Len(cells), NEW j \in i .. Len(cells)
    PROVE  /\ Width(cells, i) \in Nat /\ Width(cells, j) \in Nat
           /\ Width(cells, j) - Width(cells, i) >= j - i
<1>1. PICK n : n = Len(cells)
  OBVIOUS
<1>2. n \in Nat
  BY <1>1
<1>3. PICK w : w = [k \in 0 .. n |-> Width(cells, k)]
  OBVIOUS
<1>4. w[0] = 0 /\ \A k \in 1 .. n : w[k - 1] \in Nat /\ w[k] \in Nat /\ w[k] >= w[k - 1] + 1
  <2>1. w[0] = 0
    BY <1>2, <1>3, WidthZero
  <2>2. ASSUME NEW k \in 1 .. n PROVE w[k - 1] \in Nat /\ w[k] \in Nat /\ w[k] >= w[k - 1] + 1
    <3>1. k \in 1 .. Len(cells) /\ k \in 0 .. n /\ k - 1 \in 0 .. n
      BY <1>1, <1>2
    <3>2. /\ Width(cells, k - 1) \in Nat
          /\ Width(cells, k) = Width(cells, k - 1) + Len(cells[k].code)
          /\ Len(cells[k].code) \in Nat /\ Len(cells[k].code) >= 1
      BY <3>1, WidthNext
    <3>3. w[k] = Width(cells, k) /\ w[k - 1] = Width(cells, k - 1)
      BY <1>3, <3>1
    <3> QED
      BY <3>2, <3>3
  <2> QED
    BY <2>1, <2>2
<1>5. \A k \in 0 .. n : w[k] \in Nat
  <2> TAKE k \in 0 .. n
  <2>1. CASE k = 0
    BY <1>4, <2>1
  <2>2. CASE k # 0
    <3>1. k \in 1 .. n
      BY <1>2, <2>2
    <3> QED
      BY <1>4, <3>1
  <2> QED
    BY <2>1, <2>2
<1> DEFINE Right == {d \in 0 .. n - i : w[i + d] - w[i] >= d}
<1>6. n - i \in Nat /\ i \in 0 .. n /\ i + 0 = i
  BY <1>1, <1>2
<1>7. 0 \in Right
  BY <1>5, <1>6
<1>8. ASSUME NEW d \in 0 .. n - i - 1, d \in Right PROVE d + 1 \in Right
  <2>1. d + 1 \in 0 .. n - i /\ i + (d + 1) \in 1 .. n /\ (i + (d + 1)) - 1 = i + d /\ i + d \in 0 .. n
        /\ i + (d + 1) \in 0 .. n
    BY <1>1, <1>2
  <2>2. w[i + (d + 1)] >= w[i + d] + 1
    <3>1. w[i + (d + 1)] >= w[(i + (d + 1)) - 1] + 1
      BY <1>4, <2>1
    <3> QED
      BY <2>1, <3>1
  <2>3. w[i + d] \in Nat /\ w[i + (d + 1)] \in Nat /\ w[i] \in Nat /\ w[i + d] - w[i] >= d
    BY <1>5, <1>6, <1>8, <2>1
  <2>4. w[i + (d + 1)] - w[i] >= d + 1
    BY <2>2, <2>3
  <2> QED
    BY <2>1, <2>4
<1> HIDE DEF Right
<1>9. \A d \in 0 .. n - i : d \in Right
  BY <1>6, <1>7, <1>8, UpTo
<1>10. j - i \in 0 .. n - i /\ i + (j - i) = j /\ j \in 0 .. n
  BY <1>1, <1>2
<1>11. w[j] - w[i] >= j - i
  BY <1>9, <1>10 DEF Right
<1> QED
  BY <1>3, <1>5, <1>6, <1>10, <1>11

\* The same cells stand in p behind i and in q behind j.
Agree(p, i, q, j, m) == \A t \in 1 .. m : p[i + t] = q[j + t]

\* The same cells are as wide elsewhere.
LEMMA WidthSame ==
    ASSUME NEW p \in Seq(Cell), NEW q \in Seq(Cell), NEW i \in Nat, NEW j \in Nat, NEW m \in Nat,
           i + m <= Len(p), j + m <= Len(q),
           Agree(p, i, q, j, m)
    PROVE  Width(p, i + m) - Width(p, i) = Width(q, j + m) - Width(q, j)
<1> DEFINE Right == {d \in 0 .. m : Width(p, i + d) - Width(p, i) = Width(q, j + d) - Width(q, j)}
<1>1. Len(p) \in Nat /\ Len(q) \in Nat
  OBVIOUS
<1>2. \A d \in 0 .. m : Width(p, i + d) \in Nat /\ Width(q, j + d) \in Nat
  <2> TAKE d \in 0 .. m
  <2>1. i + d \in 0 .. Len(p) /\ i + d \in i + d .. Len(p) /\ j + d \in 0 .. Len(q) /\ j + d \in j + d .. Len(q)
    BY <1>1
  <2>2. \A k \in 0 .. Len(p) : Width(p, k) \in Nat
    <3> TAKE k \in 0 .. Len(p)
    <3>1. k \in k .. Len(p)
      BY <1>1
    <3> QED
      BY <3>1, WidthGrows
  <2>3. \A k \in 0 .. Len(q) : Width(q, k) \in Nat
    <3> TAKE k \in 0 .. Len(q)
    <3>1. k \in k .. Len(q)
      BY <1>1
    <3> QED
      BY <3>1, WidthGrows
  <2> QED
    BY <2>1, <2>2, <2>3
<1>3. 0 \in Right
  <2>1. i + 0 = i /\ j + 0 = j /\ 0 \in 0 .. m
    OBVIOUS
  <2>2. Width(p, i + 0) \in Nat /\ Width(q, j + 0) \in Nat
    BY <1>2, <2>1
  <2>3. Width(p, i) - Width(p, i) = Width(q, j) - Width(q, j)
    BY <2>1, <2>2
  <2> QED
    BY <2>1, <2>3
<1>4. ASSUME NEW d \in 0 .. m - 1, d \in Right PROVE d + 1 \in Right
  <2>1. PICK k : k = i + (d + 1)
    OBVIOUS
  <2>2. PICK l : l = j + (d + 1)
    OBVIOUS
  <2>3. k \in 1 .. Len(p) /\ l \in 1 .. Len(q) /\ d + 1 \in 1 .. m /\ d + 1 \in 0 .. m /\ d \in 0 .. m
        /\ k - 1 = i + d /\ l - 1 = j + d
    BY <1>1, <2>1, <2>2
  <2>4. Width(p, k) = Width(p, k - 1) + Len(p[k].code) /\ Width(q, l) = Width(q, l - 1) + Len(q[l].code)
        /\ Len(p[k].code) \in Nat
    BY <2>3, WidthNext
  <2>5. p[k] = q[l]
    BY <2>1, <2>2, <2>3 DEF Agree
  <2>6. Width(p, i + d) - Width(p, i) = Width(q, j + d) - Width(q, j)
    BY <1>4
  <2>7. Width(p, i) \in Nat /\ Width(q, j) \in Nat /\ Width(p, i + d) \in Nat /\ Width(q, j + d) \in Nat
    <3>1. i + 0 = i /\ j + 0 = j /\ 0 \in 0 .. m
      OBVIOUS
    <3> QED
      BY <1>2, <2>3, <3>1
  <2>8. Width(p, k) - Width(p, i) = Width(q, l) - Width(q, j)
    <3>1. PICK a : a = Width(p, i)
      OBVIOUS
    <3>2. PICK b : b = Width(q, j)
      OBVIOUS
    <3>3. PICK e : e = Width(p, i + d)
      OBVIOUS
    <3>4. PICK h : h = Width(q, j + d)
      OBVIOUS
    <3>5. PICK z : z = Len(p[k].code)
      OBVIOUS
    <3>6. a \in Nat /\ b \in Nat /\ e \in Nat /\ h \in Nat /\ z \in Nat /\ e - a = h - b
      BY <2>4, <2>6, <2>7, <3>1, <3>2, <3>3, <3>4, <3>5
    <3>7. Width(p, k) = e + z /\ Width(q, l) = h + z
      BY <2>3, <2>4, <2>5, <3>3, <3>4, <3>5
    <3>8. (e + z) - a = (h + z) - b
      BY <3>6
    <3> QED
      BY <3>1, <3>2, <3>7, <3>8
  <2> QED
    BY <2>1, <2>2, <2>3, <2>8
<1> HIDE DEF Right
<1>5. m \in 0 .. m
  OBVIOUS
<1>6. \A d \in 0 .. m : d \in Right
  BY <1>3, <1>4, UpTo
<1> QED
  BY <1>5, <1>6 DEF Right

\* Cells cut at two places are cut there in what they stand for.
CutAt(cells, at, to) ==
    /\ SubSeq(cells, 1, at) \in Seq(Cell)
    /\ SubSeq(cells, at + 1, to) \in Seq(Cell)
    /\ SubSeq(cells, to + 1, Len(cells)) \in Seq(Cell)
    /\ Len(SubSeq(cells, 1, at)) = at /\ Len(SubSeq(cells, at + 1, to)) = to - at
    /\ Len(SubSeq(cells, to + 1, Len(cells))) = Len(cells) - to
    /\ Width(cells, at) \in Nat /\ Width(cells, to) \in Nat /\ Len(Codes(cells)) \in Nat
    /\ Width(cells, at) <= Width(cells, to) /\ Width(cells, to) <= Len(Codes(cells))
    /\ Width(cells, to) = Width(cells, at) + Len(Codes(SubSeq(cells, at + 1, to)))
    /\ SubSeq(Codes(cells), 1, Width(cells, at)) = Codes(SubSeq(cells, 1, at))
    /\ SubSeq(Codes(cells), Width(cells, at) + 1, Width(cells, to)) = Codes(SubSeq(cells, at + 1, to))
    /\ SubSeq(Codes(cells), Width(cells, to) + 1, Len(Codes(cells)))
         = Codes(SubSeq(cells, to + 1, Len(cells)))
    /\ Len(Attached(SubSeq(cells, 1, at))) + Len(Attached(SubSeq(cells, to + 1, Len(cells))))
         <= Len(Attached(cells))

\* Such places cut the cells.
LEMMA Cuts ==
    ASSUME NEW cells \in Seq(Cell), NEW at \in 0 .. Len(cells), NEW to \in at .. Len(cells)
    PROVE  CutAt(cells, at, to)
<1>1. PICK n : n = Len(cells)
  OBVIOUS
<1>2. n \in Nat /\ at \in Nat /\ to \in Nat /\ at <= to /\ to <= n /\ at \in 0 .. n /\ to \in at .. n
      /\ to \in 0 .. n /\ n \in to .. n /\ 0 \in Nat /\ at - 0 = at /\ 0 + 1 = 1 /\ to - 0 = to
      /\ n \in 0 .. n /\ n - 0 = n
  BY <1>1
<1>3. PICK a : a = SubSeq(cells, 1, at)
  OBVIOUS
<1>4. PICK b : b = SubSeq(cells, at + 1, to)
  OBVIOUS
<1>5. PICK d : d = SubSeq(cells, to + 1, n)
  OBVIOUS
<1>6. a \in Seq(Cell) /\ Len(a) = at
  <2>1. SubSeq(cells, 0 + 1, at) \in Seq(Cell) /\ Len(SubSeq(cells, 0 + 1, at)) = at - 0
    BY <1>1, <1>2, PartOf
  <2> QED
    BY <1>2, <1>3, <2>1
<1>7. b \in Seq(Cell) /\ Len(b) = to - at
  BY <1>1, <1>2, <1>4, PartOf
<1>8. d \in Seq(Cell) /\ Len(d) = n - to
  BY <1>1, <1>2, <1>5, PartOf
<1>9. PICK ab : ab = a \o b
  OBVIOUS
<1>10. ab \in Seq(Cell) /\ Len(ab) = to
  <2>1. ab \in Seq(Cell) /\ Len(ab) = Len(a) + Len(b)
    BY <1>6, <1>7, <1>9, ConcatParts
  <2> QED
    BY <1>2, <1>6, <1>7, <2>1
<1>11. SubSeq(cells, 1, to) = ab
  <2>1. PICK s : s = SubSeq(cells, 0 + 1, to)
    OBVIOUS
  <2>2. s \in Seq(Cell) /\ Len(s) = to - 0 /\ \A t \in 1 .. to - 0 : s[t] = cells[0 + t]
    BY <1>1, <1>2, <2>1, PartOf
  <2>3. \A t \in 1 .. at : a[t] = cells[t]
    <3>1. \A t \in 1 .. at - 0 : SubSeq(cells, 0 + 1, at)[t] = cells[0 + t]
      BY <1>1, <1>2, PartOf
    <3>2. \A t \in 1 .. at : 0 + t = t
      BY <1>2
    <3> QED
      BY <1>2, <1>3, <3>1, <3>2
  <2>4. \A t \in 1 .. to - at : b[t] = cells[at + t]
    BY <1>1, <1>2, <1>4, PartOf
  <2>5. \A i \in 1 .. Len(a) + Len(b) : ab[i] = IF i <= Len(a) THEN a[i] ELSE b[i - Len(a)]
    BY <1>6, <1>7, <1>9, ConcatParts
  <2>6. ASSUME NEW t \in 1 .. to PROVE s[t] = ab[t]
    <3>1. s[t] = cells[t]
      <4>1. t \in 1 .. to - 0 /\ 0 + t = t
        BY <1>2
      <4> QED
        BY <2>2, <4>1
    <3>2. Len(a) + Len(b) = to /\ t \in 1 .. Len(a) + Len(b) /\ t \in Nat
      BY <1>2, <1>6, <1>7
    <3>3. CASE t <= at
      <4>1. t \in 1 .. at /\ t <= Len(a)
        BY <1>2, <1>6, <3>3
      <4> QED
        BY <2>3, <2>5, <3>1, <3>2, <4>1
    <3>4. CASE ~(t <= at)
      <4>1. t - at \in 1 .. to - at /\ at + (t - at) = t /\ ~(t <= Len(a)) /\ Len(a) = at
        BY <1>2, <1>6, <3>4
      <4> QED
        BY <2>4, <2>5, <3>1, <3>2, <4>1
    <3> QED
      BY <3>3, <3>4
  <2>7. Len(s) = to
    BY <1>2, <2>2
  <2>8. s = ab
    BY <1>10, <2>2, <2>6, <2>7, SeqEqual
  <2> QED
    BY <1>2, <2>1, <2>8
<1>12. cells = ab \o d
  <2>1. \A i \in 1 .. Len(ab) + Len(d) : (ab \o d)[i] = IF i <= Len(ab) THEN ab[i] ELSE d[i - Len(ab)]
    BY <1>8, <1>10, ConcatParts
  <2>2. ab \o d \in Seq(Cell) /\ Len(ab \o d) = Len(ab) + Len(d)
    BY <1>8, <1>10, ConcatParts
  <2>3. Len(ab) + Len(d) = n
    BY <1>2, <1>8, <1>10
  <2>4. \A t \in 1 .. to : ab[t] = cells[t]
    <3>1. \A t \in 1 .. to - 0 : SubSeq(cells, 0 + 1, to)[t] = cells[0 + t]
      BY <1>1, <1>2, PartOf
    <3>2. \A t \in 1 .. to : 0 + t = t
      BY <1>2
    <3> QED
      BY <1>2, <1>11, <3>1, <3>2
  <2>5. \A t \in 1 .. n - to : d[t] = cells[to + t]
    BY <1>1, <1>2, <1>5, PartOf
  <2>6. ASSUME NEW t \in 1 .. n PROVE cells[t] = (ab \o d)[t]
    <3>1. t \in 1 .. Len(ab) + Len(d) /\ t \in Nat
      BY <2>3
    <3>2. CASE t <= to
      <4>1. t \in 1 .. to /\ t <= Len(ab)
        BY <1>2, <1>10, <3>2
      <4> QED
        BY <2>1, <2>4, <3>1, <4>1
    <3>3. CASE ~(t <= to)
      <4>1. t - to \in 1 .. n - to /\ to + (t - to) = t /\ ~(t <= Len(ab)) /\ Len(ab) = to
        BY <1>2, <1>10, <3>3
      <4> QED
        BY <2>1, <2>5, <3>1, <4>1
    <3> QED
      BY <3>2, <3>3
  <2>7. Len(ab \o d) = n
    BY <2>2, <2>3
  <2> QED
    BY <1>1, <2>2, <2>6, <2>7, SeqEqual
<1>13. PICK x : x = Codes(a)
  OBVIOUS
<1>14. PICK y : y = Codes(b)
  OBVIOUS
<1>15. PICK z : z = Codes(d)
  OBVIOUS
<1>16. x \in Seq(Units) /\ y \in Seq(Units) /\ z \in Seq(Units)
  BY <1>6, <1>7, <1>8, <1>13, <1>14, <1>15, CodesSpread
<1>17. Codes(ab) = x \o y /\ Len(Codes(ab)) = Len(x) + Len(y)
       /\ Len(Attached(ab)) = Len(Attached(a)) + Len(Attached(b))
  BY <1>6, <1>7, <1>9, <1>13, <1>14, CodesConcat
<1>18. Codes(cells) = (x \o y) \o z /\ Len(Attached(cells)) = Len(Attached(ab)) + Len(Attached(d))
  BY <1>8, <1>10, <1>12, <1>15, <1>17, CodesConcat
<1>19. Width(cells, at) = Len(x) /\ Width(cells, to) = Len(x) + Len(y)
  BY <1>3, <1>11, <1>13, <1>17 DEF Width
<1>20. PICK all : all = Codes(cells)
  OBVIOUS
<1>21. /\ Len(all) = Len(x) + Len(y) + Len(z)
       /\ Len(x) \in Nat /\ Len(y) \in Nat /\ Len(z) \in Nat
       /\ SubSeq(all, 1, Len(x)) = x
       /\ SubSeq(all, Len(x) + 1, Len(x) + Len(y)) = y
       /\ SubSeq(all, Len(x) + Len(y) + 1, Len(all)) = z
  <2>1. all = (x \o y) \o z
    BY <1>18, <1>20
  <2> QED
    BY <1>16, <2>1, ThreeParts
<1>22. Len(Attached(a)) + Len(Attached(d)) <= Len(Attached(cells))
  <2>1. Len(Attached(a)) \in Nat /\ Len(Attached(b)) \in Nat /\ Len(Attached(d)) \in Nat
    <3>1. Attached(a) \in Seq(Cell) /\ Attached(b) \in Seq(Cell) /\ Attached(d) \in Seq(Cell)
      BY <1>6, <1>7, <1>8, CodesSpread
    <3> QED
      BY <3>1
  <2> QED
    BY <1>17, <1>18, <2>1
<1>23. /\ Len(x) <= Len(x) + Len(y) /\ Len(x) + Len(y) <= Len(all) /\ Len(x) + Len(y) \in Nat
       /\ Len(all) \in Nat
  BY <1>21
<1>24. CutAt(cells, at, to) <=>
       /\ a \in Seq(Cell) /\ b \in Seq(Cell) /\ d \in Seq(Cell)
       /\ Len(a) = at /\ Len(b) = to - at /\ Len(d) = n - to
       /\ Len(x) \in Nat /\ Len(x) + Len(y) \in Nat /\ Len(all) \in Nat
       /\ Len(x) <= Len(x) + Len(y) /\ Len(x) + Len(y) <= Len(all)
       /\ Len(x) + Len(y) = Len(x) + Len(y)
       /\ SubSeq(all, 1, Len(x)) = x
       /\ SubSeq(all, Len(x) + 1, Len(x) + Len(y)) = y
       /\ SubSeq(all, Len(x) + Len(y) + 1, Len(all)) = z
       /\ Len(Attached(a)) + Len(Attached(d)) <= Len(Attached(cells))
  BY <1>1, <1>3, <1>4, <1>5, <1>13, <1>14, <1>15, <1>19, <1>20, Zenon DEF CutAt
<1> QED
  BY <1>6, <1>7, <1>8, <1>21, <1>22, <1>23, <1>24

\* All the cells are as wide as what they stand for.
LEMMA WidthAll ==
    ASSUME NEW cells \in Seq(Cell)
    PROVE  Width(cells, Len(cells)) = Len(Codes(cells))
<1>1. SubSeq(cells, 1, Len(cells)) = cells
  BY SubSeqFull
<1> QED
  BY <1>1 DEF Width

\* Cells y are x with the cells from at to to replaced by new ones.
Replaced(x, at, to, new, y) ==
    /\ y \in Seq(Cell) /\ Len(y) = Len(x) - (to - at) + Len(new)
    /\ Codes(y) = Splice(Codes(x), Width(x, at), Width(x, to) - Width(x, at), Codes(new))
    /\ Codes(y) = (SubSeq(Codes(x), 1, Width(x, at)) \o Codes(new))
                    \o SubSeq(Codes(x), Width(x, to) + 1, Len(Codes(x)))
    /\ Len(Attached(y)) <= Len(Attached(x)) + Len(Attached(new))
    /\ \A p \in 0 .. at : Width(y, p) = Width(x, p)
    /\ Width(y, at + Len(new)) = Width(x, at) + Len(Codes(new))
    /\ \A p \in to .. Len(x) :
          Width(y, (p - to) + (at + Len(new))) - Width(y, at + Len(new)) = Width(x, p) - Width(x, to)

\* Replacing cells replaces what they stand for.
LEMMA SpliceOK ==
    ASSUME NEW x \in Seq(Cell), NEW at \in 0 .. Len(x), NEW to \in at .. Len(x),
           NEW new \in Seq(Cell)
    PROVE  Replaced(x, at, to, new, Splice(x, at, to - at, new))
<1>1. PICK n : n = Len(x)
  OBVIOUS
<1>2. PICK l : l = Len(new)
  OBVIOUS
<1>3. n \in Nat /\ l \in Nat /\ at \in Nat /\ to \in Nat /\ at <= to /\ to <= n
      /\ at + (to - at) + 1 = to + 1 /\ at \in 0 .. n /\ to \in at .. n
  BY <1>1, <1>2
<1>4. PICK a : a = SubSeq(x, 1, at)
  OBVIOUS
<1>5. PICK d : d = SubSeq(x, to + 1, n)
  OBVIOUS
<1>6. CutAt(x, at, to)
  BY <1>1, <1>3, Cuts
<1>7. a \in Seq(Cell) /\ Len(a) = at /\ d \in Seq(Cell) /\ Len(d) = n - to
  BY <1>1, <1>4, <1>5, <1>6 DEF CutAt
<1>8. PICK y : y = (a \o new) \o d
  OBVIOUS
<1>9. Splice(x, at, to - at, new) = y
  <2>1. Splice(x, at, to - at, new) = (SubSeq(x, 1, at) \o new) \o SubSeq(x, at + (to - at) + 1, Len(x))
    BY Zenon DEF Splice
  <2> QED
    BY <1>1, <1>3, <1>4, <1>5, <1>8, <2>1
<1>10. /\ y \in Seq(Cell) /\ Len(y) = Len(a) + Len(new) + Len(d)
       /\ \A t \in 1 .. Len(a) : y[t] = a[t]
       /\ \A t \in 1 .. Len(d) : y[Len(a) + Len(new) + t] = d[t]
       /\ SubSeq(y, Len(a) + 1, Len(a) + Len(new)) = new
  <2>1. a \in Seq(Cell) /\ new \in Seq(Cell) /\ d \in Seq(Cell)
    BY <1>7
  <2> QED
    BY <1>8, <2>1, ThreeParts
<1>11. Len(y) = at + l + (n - to)
  BY <1>2, <1>7, <1>10
<1>12. Len(y) = n - (to - at) + l
  BY <1>3, <1>11
<1>13. \A t \in 1 .. at : y[t] = x[t]
  <2>1. \A t \in 1 .. at - 0 : SubSeq(x, 0 + 1, at)[t] = x[0 + t]
    <3>1. 0 \in Nat /\ at \in 0 .. Len(x)
      BY <1>1, <1>3
    <3> QED
      BY <3>1, PartOf
  <2>2. 0 + 1 = 1 /\ at - 0 = at /\ \A t \in 1 .. at : 0 + t = t
    BY <1>3
  <2>3. \A t \in 1 .. at : a[t] = x[t]
    BY <1>4, <2>1, <2>2
  <2> QED
    BY <1>7, <1>10, <2>3
<1>14. \A t \in 1 .. n - to : y[at + l + t] = x[to + t]
  <2>1. \A t \in 1 .. n - to : d[t] = x[to + t]
    <3>1. to \in Nat /\ n \in to .. Len(x)
      BY <1>1, <1>3
    <3> QED
      BY <1>5, <3>1, PartOf
  <2> QED
    BY <1>2, <1>7, <1>10, <2>1
<1>15. PICK u : u = Codes(x)
  OBVIOUS
<1>16. Codes(a) = SubSeq(u, 1, Width(x, at)) /\ Codes(d) = SubSeq(u, Width(x, to) + 1, Len(u))
       /\ Width(x, at) \in Nat /\ Width(x, to) \in Nat /\ Width(x, at) <= Width(x, to)
       /\ Width(x, to) <= Len(u) /\ Len(u) \in Nat
       /\ Len(Attached(a)) + Len(Attached(d)) <= Len(Attached(x))
  BY <1>1, <1>4, <1>5, <1>6, <1>15 DEF CutAt
<1>17. PICK an : an = a \o new
  OBVIOUS
<1>18. an \in Seq(Cell) /\ Codes(an) = Codes(a) \o Codes(new)
       /\ Len(Attached(an)) = Len(Attached(a)) + Len(Attached(new))
  BY <1>7, <1>17, CodesConcat
<1>19. Codes(y) = Codes(an) \o Codes(d) /\ Len(Attached(y)) = Len(Attached(an)) + Len(Attached(d))
  <2>1. y = an \o d
    BY <1>8, <1>17
  <2> QED
    BY <1>7, <1>18, <2>1, CodesConcat
<1>20. Codes(y) = (SubSeq(u, 1, Width(x, at)) \o Codes(new)) \o SubSeq(u, Width(x, to) + 1, Len(u))
  BY <1>16, <1>18, <1>19
<1>21. Codes(y) = Splice(u, Width(x, at), Width(x, to) - Width(x, at), Codes(new))
  <2>1. PICK w : w = Width(x, at)
    OBVIOUS
  <2>2. PICK v : v = Width(x, to)
    OBVIOUS
  <2>3. w + (v - w) + 1 = v + 1
    BY <1>16, <2>1, <2>2
  <2>4. Splice(u, w, v - w, Codes(new)) = (SubSeq(u, 1, w) \o Codes(new)) \o SubSeq(u, w + (v - w) + 1, Len(u))
    BY Zenon DEF Splice
  <2> QED
    BY <1>20, <2>1, <2>2, <2>3, <2>4
<1>22. Len(Attached(y)) <= Len(Attached(x)) + Len(Attached(new))
  <2>1. Attached(a) \in Seq(Cell) /\ Attached(d) \in Seq(Cell) /\ Attached(x) \in Seq(Cell)
        /\ Attached(new) \in Seq(Cell)
    BY <1>7, CodesSpread
  <2>2. Len(Attached(a)) \in Nat /\ Len(Attached(d)) \in Nat /\ Len(Attached(x)) \in Nat
        /\ Len(Attached(new)) \in Nat
    BY <2>1
  <2> QED
    BY <1>16, <1>18, <1>19, <2>2
<1>23. \A p \in 0 .. at : Width(y, p) = Width(x, p)
  <2> TAKE p \in 0 .. at
  <2>1. 0 \in Nat /\ p \in Nat /\ 0 + p <= Len(y) /\ 0 + p <= Len(x) /\ 0 + p = p
        /\ \A t \in 1 .. p : t \in 1 .. at /\ 0 + t = t
    BY <1>1, <1>3, <1>11
  <2>2. \A t \in 1 .. p : y[0 + t] = x[0 + t]
    BY <1>13, <2>1
  <2>3. Width(y, 0 + p) - Width(y, 0) = Width(x, 0 + p) - Width(x, 0)
    <3>1. Agree(y, 0, x, 0, p)
      BY <2>2 DEF Agree
    <3> QED
      BY <1>10, <2>1, <3>1, WidthSame
  <2>4. Width(y, p) \in Nat /\ Width(x, p) \in Nat
    <3>1. p \in 0 .. Len(y) /\ p \in p .. Len(y) /\ p \in 0 .. Len(x) /\ p \in p .. Len(x)
      BY <2>1
    <3>2. Width(y, p) \in Nat
      BY <1>10, <3>1, WidthGrows
    <3>3. Width(x, p) \in Nat
      BY <3>1, WidthGrows
    <3> QED
      BY <3>2, <3>3
  <2>5. Width(y, 0) = 0 /\ Width(x, 0) = 0
    BY WidthZero
  <2> QED
    BY <2>1, <2>3, <2>4, <2>5
<1>24. Width(y, at + l) = Width(x, at) + Len(Codes(new))
  <2>1. at \in 0 .. Len(y) /\ at + l \in at .. Len(y) /\ at \in 0 .. at
    BY <1>3, <1>11
  <2>2. CutAt(y, at, at + l)
    BY <1>10, <2>1, Cuts
  <2>3. Width(y, at + l) = Width(y, at) + Len(Codes(SubSeq(y, at + 1, at + l)))
    BY <2>2 DEF CutAt
  <2>4. SubSeq(y, at + 1, at + l) = new
    BY <1>2, <1>7, <1>10
  <2> QED
    BY <1>23, <2>1, <2>3, <2>4
<1>25. \A p \in to .. n : Width(y, (p - to) + (at + l)) - Width(y, at + l) = Width(x, p) - Width(x, to)
  <2> TAKE p \in to .. n
  <2>1. PICK m : m = p - to
    OBVIOUS
  <2>2. m \in Nat /\ at + l \in Nat /\ (at + l) + m <= Len(y) /\ to + m <= Len(x) /\ to + m = p
        /\ (p - to) + (at + l) = (at + l) + m /\ \A t \in 1 .. m : t \in 1 .. n - to
    BY <1>1, <1>3, <1>11, <2>1
  <2>3. \A t \in 1 .. m : y[(at + l) + t] = x[to + t]
    BY <1>14, <2>2
  <2>4. Width(y, (at + l) + m) - Width(y, at + l) = Width(x, to + m) - Width(x, to)
    <3>1. PICK e : e = at + l
      OBVIOUS
    <3>2. y \in Seq(Cell) /\ x \in Seq(Cell) /\ e \in Nat /\ to \in Nat /\ m \in Nat
          /\ e + m <= Len(y) /\ to + m <= Len(x) /\ Agree(y, e, x, to, m)
      BY <1>3, <1>10, <2>2, <2>3, <3>1 DEF Agree
    <3>3. Width(y, e + m) - Width(y, e) = Width(x, to + m) - Width(x, to)
      BY <3>2, WidthSame
    <3> QED
      BY <3>1, <3>3
  <2> QED
    BY <2>2, <2>4
<1> QED
  BY <1>1, <1>2, <1>9, <1>10, <1>12, <1>15, <1>20, <1>21, <1>22, <1>23, <1>24, <1>25, Zenon DEF Replaced

\* Our attachments among the first k cells.
Own(cells, k) == Len(Attached(SubSeq(cells, 1, k)))

\* One cell more.
LEMMA OwnNext ==
    ASSUME NEW cells \in Seq(Cell), NEW n \in 1 .. Len(cells)
    PROVE  /\ Own(cells, n - 1) \in Nat /\ Own(cells, n) \in Nat
           /\ Own(cells, n) = Own(cells, n - 1) + (IF cells[n].own THEN 1 ELSE 0)
<1>1. n - 1 \in Nat /\ n \in Nat /\ n - 1 \in 0 .. Len(cells) /\ 0 + 1 = 1 /\ 0 \in Nat
      /\ Len(cells) \in Nat /\ cells[n] \in Cell
  OBVIOUS
<1>2. PICK p : p = SubSeq(cells, 1, n - 1)
  OBVIOUS
<1>3. PICK q : q = SubSeq(cells, 1, n)
  OBVIOUS
<1>4. p \in Seq(Cell)
  <2>1. SubSeq(cells, 0 + 1, n - 1) \in Seq(Cell)
    BY <1>1, PartOf
  <2> QED
    BY <1>1, <1>2, <2>1
<1>5. q = p \o <<cells[n]>>
  <2>1. n \in 1 .. Len(cells)
    OBVIOUS
  <2>2. SubSeq(cells, 1, n) = SubSeq(cells, 1, n - 1) \o <<cells[n]>>
    BY <1>1, <2>1, SubSeqRecursiveSecond
  <2> QED
    BY <1>2, <1>3, <2>2
<1>6. <<cells[n]>> \in Seq(Cell)
  BY <1>1
<1>7. Len(Attached(q)) = Len(Attached(p)) + Len(Attached(<<cells[n]>>))
  BY <1>4, <1>5, <1>6, CodesConcat
<1>8. Len(Attached(<<cells[n]>>)) = IF cells[n].own THEN 1 ELSE 0
  <2>1. Attached(<<cells[n]>>) = IF cells[n].own THEN <<cells[n]>> ELSE <<>>
    BY <1>1, CodesOne
  <2> QED
    BY <2>1
<1>9. Len(Attached(p)) \in Nat
  BY <1>4, CodesSpread
<1> QED
  BY <1>2, <1>3, <1>7, <1>8, <1>9 DEF Own

\* The attachments of a part are among those of the whole.
LEMMA OwnWithin ==
    ASSUME NEW cells \in Seq(Cell), NEW k \in 0 .. Len(cells)
    PROVE  /\ Own(cells, k) \in Nat /\ Own(cells, k) <= Len(Attached(cells))
           /\ Len(Attached(cells)) \in Nat /\ Own(cells, 0) = 0
<1>1. k \in k .. Len(cells)
  OBVIOUS
<1>2. PICK p : p = SubSeq(cells, 1, k)
  OBVIOUS
<1>3. PICK q : q = SubSeq(cells, k + 1, Len(cells))
  OBVIOUS
<1>4. p \in Seq(Cell) /\ q \in Seq(Cell) /\ Len(Attached(p)) + Len(Attached(q)) <= Len(Attached(cells))
  <2>1. CutAt(cells, k, k)
    BY <1>1, Cuts
  <2> QED
    BY <1>2, <1>3, <2>1 DEF CutAt
<1>5. Attached(p) \in Seq(Cell) /\ Attached(q) \in Seq(Cell) /\ Attached(cells) \in Seq(Cell)
  BY <1>4, CodesSpread
<1>6. Len(Attached(p)) \in Nat /\ Len(Attached(q)) \in Nat /\ Len(Attached(cells)) \in Nat
  BY <1>5
<1>7. Own(cells, 0) = 0
  <2>1. SubSeq(cells, 1, 0) = <<>>
    <3>1. 1 \in Int /\ 0 \in Int /\ 0 < 1
      OBVIOUS
    <3> QED
      BY <3>1, SubSeqEmpty
  <2>2. PICK e : e = SubSeq(cells, 1, 0)
    OBVIOUS
  <2>3. Attached(e) = <<>>
    <3>1. \E c : c \in Cell
      <4>1. [code |-> <<Space>>, own |-> FALSE] \in Cell
        <5>1. Space \in Units
          BY DEF Units
        <5>2. <<Space>> \in Seq(Units) /\ Len(<<Space>>) = 1
          BY <5>1
        <5> QED
          BY <5>2 DEF Cell
      <4> QED
        BY <4>1
    <3>2. Attached(<<>>) = <<>>
      BY <3>1, CodesOne
    <3> QED
      BY <2>1, <2>2, <3>2
  <2>4. PICK z : z = Len(Attached(e))
    OBVIOUS
  <2>5. z = 0
    BY <2>3, <2>4
  <2> QED
    BY <2>2, <2>4, <2>5 DEF Own
<1> QED
  BY <1>2, <1>4, <1>6, <1>7 DEF Own

\* Cells without an attachment of ours are as wide as they are many.
LEMMA NoneOwn ==
    ASSUME NEW cells \in Seq(Cell), \A i \in 1 .. Len(cells) : ~cells[i].own
    PROVE  /\ Len(Attached(cells)) = 0
           /\ \A k \in 0 .. Len(cells) : Width(cells, k) = k
<1>1. PICK n : n = Len(cells)
  OBVIOUS
<1>2. n \in Nat /\ n \in 0 .. n
  BY <1>1
<1> DEFINE Right == {k \in 0 .. n : Width(cells, k) = k /\ Own(cells, k) = 0}
<1>3. 0 \in Right
  <2>1. 0 \in 0 .. n /\ 0 \in 0 .. Len(cells)
    BY <1>1, <1>2
  <2>2. Own(cells, 0) = 0
    BY <2>1, OwnWithin
  <2>3. Width(cells, 0) = 0
    BY WidthZero
  <2> QED
    BY <2>1, <2>2, <2>3
<1>4. ASSUME NEW k \in 0 .. n - 1, k \in Right PROVE k + 1 \in Right
  <2>1. k + 1 \in 1 .. Len(cells) /\ (k + 1) - 1 = k /\ k + 1 \in 0 .. n
    BY <1>1, <1>2
  <2>2. Width(cells, k) = k /\ Own(cells, k) = 0
    BY <1>4
  <2>3. Own(cells, k + 1) = Own(cells, (k + 1) - 1) + (IF cells[k + 1].own THEN 1 ELSE 0)
    BY <2>1, OwnNext
  <2>4. Width(cells, k + 1) = Width(cells, (k + 1) - 1) + Len(cells[k + 1].code)
    BY <2>1, WidthNext
  <2>5. ~cells[k + 1].own /\ Len(cells[k + 1].code) = 1
    <3>1. ~cells[k + 1].own /\ cells[k + 1] \in Cell
      BY <2>1
    <3> QED
      BY <3>1, CellOK
  <2>6. Width(cells, k + 1) = k + 1 /\ Own(cells, k + 1) = 0
    BY <2>1, <2>2, <2>3, <2>4, <2>5
  <2> QED
    BY <2>1, <2>6
<1> HIDE DEF Right
<1>5. \A k \in 0 .. n : k \in Right
  BY <1>2, <1>3, <1>4, UpTo
<1>6. \A k \in 0 .. n : Width(cells, k) = k /\ Own(cells, k) = 0
  BY <1>5 DEF Right
<1>7. Own(cells, n) = Len(Attached(cells))
  <2>1. SubSeq(cells, 1, Len(cells)) = cells
    BY SubSeqFull
  <2> QED
    BY <1>1, <2>1 DEF Own
<1> QED
  BY <1>1, <1>2, <1>6, <1>7

\* Plain text as cells.
IsPlain(t) ==
    /\ Cells(t) \in Seq(Cell) /\ Len(Cells(t)) = Len(t) /\ Len(t) \in Nat
    /\ String(Cells(t)) = t /\ Codes(Cells(t)) = t
    /\ Len(Attached(Cells(t))) = 0
    /\ \A k \in 0 .. Len(t) : Width(Cells(t), k) = k

\* The cells of a plain text stand for it.
LEMMA PlainOK ==
    ASSUME NEW t \in Seq(Units)
    PROVE  IsPlain(t)
<1>1. PICK n : n = Len(t)
  OBVIOUS
<1>2. n \in Nat /\ DOMAIN t = 1 .. n /\ \A i \in 1 .. n : t[i] \in Units
  BY <1>1
<1>3. PICK c : c = Cells(t)
  OBVIOUS
<1>4. \A i \in 1 .. n : UnitCell(t[i]) \in Cell /\ ~UnitCell(t[i]).own /\ UnitCell(t[i]).code = <<t[i]>>
  <2> TAKE i \in 1 .. n
  <2>1. <<t[i]>> \in Seq(Units) /\ Len(<<t[i]>>) = 1
    BY <1>2
  <2> QED
    BY <2>1 DEF UnitCell, Cell
<1>5. c = [i \in 1 .. n |-> UnitCell(t[i])]
  BY <1>2, <1>3 DEF Cells
<1>6. c \in Seq(Cell) /\ Len(c) = n /\ DOMAIN c = 1 .. n
  BY <1>2, <1>4, <1>5
<1>7. \A i \in 1 .. n : c[i] \in Cell /\ ~c[i].own /\ c[i].code = <<t[i]>>
  BY <1>4, <1>5
<1>8. Len(Attached(c)) = 0 /\ \A k \in 0 .. n : Width(c, k) = k
  BY <1>6, <1>7, NoneOwn
<1>9. String(c) = t
  <2>1. \A i \in 1 .. n : Unit(c[i]) = t[i]
    BY <1>2, <1>7 DEF Unit
  <2>2. String(c) = [i \in 1 .. n |-> Unit(c[i])]
    BY <1>6 DEF String
  <2>3. String(c) = [i \in 1 .. n |-> t[i]]
    BY <2>1, <2>2
  <2>4. t = [i \in 1 .. n |-> t[i]]
    BY <1>2
  <2> QED
    BY <2>3, <2>4
<1>10. PICK u : u = Codes(c)
  OBVIOUS
<1>11. u \in Seq(Units) /\ Len(u) = n
  <2>1. Codes(c) \in Seq(Units) /\ Width(c, Len(c)) = Len(Codes(c))
    BY <1>6, CodesSpread, WidthAll
  <2>2. Width(c, n) = n
    BY <1>2, <1>8
  <2> QED
    BY <1>6, <1>10, <2>1, <2>2
<1>12. ASSUME NEW k \in 1 .. n PROVE u[k] = t[k]
  <2>1. PICK i : i = k - 1
    OBVIOUS
  <2>2. i \in 0 .. Len(c) /\ k \in i .. Len(c) /\ i + 1 = k /\ i \in 0 .. n /\ k \in 0 .. n /\ k \in 1 .. Len(c)
        /\ i \in Nat /\ k - i = 1 /\ k \in i .. Len(u) /\ i + 1 \in Int /\ 1 \in 1 .. 1
    BY <1>2, <1>6, <1>11, <2>1
  <2>3. CutAt(c, i, k)
    BY <1>6, <2>2, Cuts
  <2>4. SubSeq(u, Width(c, i) + 1, Width(c, k)) = Codes(SubSeq(c, i + 1, k))
    BY <1>10, <2>3 DEF CutAt
  <2>5. Width(c, i) = i /\ Width(c, k) = k
    BY <1>8, <2>2
  <2>6. SubSeq(u, i + 1, k) = Codes(SubSeq(c, i + 1, k))
    BY <2>4, <2>5
  <2>7. SubSeq(c, i + 1, k) = <<c[k]>>
    <3>1. PICK s : s = SubSeq(c, i + 1, k)
      OBVIOUS
    <3>2. s \in Seq(Cell) /\ Len(s) = k - i /\ \A j \in 1 .. k - i : s[j] = c[i + j]
      BY <1>6, <2>2, <3>1, PartOf
    <3>3. Len(s) = 1 /\ s[1] = c[k]
      BY <2>2, <3>2
    <3>4. PICK e : e = <<c[k]>>
      OBVIOUS
    <3>5. e \in Seq(Cell) /\ Len(e) = 1 /\ e[1] = c[k]
      <4>1. c[k] \in Cell
        BY <1>7
      <4> QED
        BY <3>4, <4>1
    <3>6. \A j \in 1 .. 1 : s[j] = e[j]
      BY <3>3, <3>5
    <3>7. s = e
      BY <3>2, <3>3, <3>5, <3>6, SeqEqual
    <3> QED
      BY <3>1, <3>4, <3>7
  <2>8. Codes(<<c[k]>>) = <<t[k]>>
    BY <1>7, CodesOne
  <2>9. SubSeq(u, i + 1, k) = <<t[k]>>
    BY <2>6, <2>7, <2>8
  <2>10. SubSeq(u, i + 1, k)[1] = u[i + 1]
    <3>1. \A j \in 1 .. k - i : SubSeq(u, i + 1, k)[j] = u[i + j]
      BY <1>11, <2>2, PartOf
    <3> QED
      BY <2>2, <3>1
  <2>11. PICK e : e = SubSeq(u, i + 1, k)
    OBVIOUS
  <2>12. e[1] = t[k]
    <3>1. e = <<t[k]>>
      BY <2>9, <2>11
    <3> QED
      BY <3>1
  <2>13. e[1] = u[k]
    <3>1. e[1] = u[i + 1]
      BY <2>10, <2>11
    <3> QED
      BY <2>2, <3>1
  <2> QED
    BY <2>12, <2>13
<1>13. u = t
  BY <1>1, <1>11, <1>12, SeqEqual
<1> QED
  BY <1>1, <1>2, <1>3, <1>6, <1>8, <1>9, <1>10, <1>13, Zenon DEF IsPlain

\* Cells without an attachment of ours are plain text.
LEMMA NoneOwnPlain ==
    ASSUME NEW cells \in Seq(Cell), \A i \in 1 .. Len(cells) : ~cells[i].own
    PROVE  cells = Cells(Codes(cells))
<1>1. PICK n : n = Len(cells)
  OBVIOUS
<1>2. n \in Nat /\ DOMAIN cells = 1 .. n
  BY <1>1
<1>3. \A i \in 1 .. n : cells[i].code[1] \in Units /\ cells[i] = UnitCell(cells[i].code[1])
  <2> TAKE i \in 1 .. n
  <2>1. cells[i] \in Cell /\ ~cells[i].own
    BY <1>1
  <2>2. cells[i].code \in Seq(Units) /\ Len(cells[i].code) = 1
    BY <2>1, CellOK
  <2>3. cells[i].code[1] \in Units /\ cells[i].code = <<cells[i].code[1]>>
    BY <2>2
  <2>4. cells[i] = [code |-> cells[i].code, own |-> FALSE]
    <3>1. cells[i] \in [code : Seq(Units), own : BOOLEAN]
      BY <2>1 DEF Cell
    <3> QED
      BY <2>1, <3>1
  <2> QED
    BY <2>3, <2>4 DEF UnitCell
<1>4. PICK t : t = [i \in 1 .. n |-> cells[i].code[1]]
  OBVIOUS
<1>5. t \in Seq(Units) /\ DOMAIN t = 1 .. n /\ \A i \in 1 .. n : t[i] = cells[i].code[1]
  BY <1>2, <1>3, <1>4
<1>6. Cells(t) = cells
  <2>1. Cells(t) = [i \in 1 .. n |-> UnitCell(t[i])]
    BY <1>5 DEF Cells
  <2>2. \A i \in 1 .. n : UnitCell(t[i]) = cells[i]
    BY <1>3, <1>5
  <2>3. Cells(t) = [i \in 1 .. n |-> cells[i]]
    BY <2>1, <2>2
  <2>4. cells = [i \in 1 .. n |-> cells[i]]
    BY <1>2
  <2> QED
    BY <2>3, <2>4
<1>7. Codes(Cells(t)) = t
  BY <1>5, PlainOK DEF IsPlain
<1> QED
  BY <1>6, <1>7

-----------------------------------------------------------------------------
(* The spans of the attachments, and positions with and without them.        *)

CodeSpan == [start : Nat, length : Nat \ {0}]

\* What the spans hold beyond one unit each, summed.
Summed(spans, f) ==
    /\ f \in [0 .. Len(spans) -> Nat] /\ f[0] = 0
    /\ \A k \in 1 .. Len(spans) : f[k] = f[k - 1] + spans[k].length - 1
    /\ FoldLeft(LAMBDA sum, s : sum + s.length - 1, 0, spans) = f[Len(spans)]

\* The sum has a trace.
LEMMA SummedTrace ==
    ASSUME NEW spans \in Seq(CodeSpan)
    PROVE  \E f : Summed(spans, f)
<1> DEFINE n == Len(spans)
           V == Nat
           Next1(v, h) == v + h.length - 1
           step == [t \in (1 .. n) \X V |-> Next1(t[2], spans[t[1]])]
<1>1. n \in Nat /\ DOMAIN spans = 1 .. n /\ \A k \in 1 .. n : spans[k].length \in Nat \ {0}
  <2>1. \A k \in 1 .. n : spans[k] \in CodeSpan
    OBVIOUS
  <2> QED
    BY <2>1 DEF CodeSpan
<1>2. \A v \in V, k \in 1 .. n : Next1(v, spans[k]) \in V
  BY <1>1
<1>3. 0 \in V
  OBVIOUS
<1> HIDE DEF n, V, Next1
<1>4. step \in Steps(n, V) /\ \A k \in 1 .. n, v \in V : step[<<k, v>>] = Next1(v, spans[k])
  BY <1>2 DEF Steps
<1> HIDE DEF step
<1>5. PICK g : g \in Folding(n, V, 0, step)
  BY <1>1, <1>3, <1>4, FoldExists
<1>6. /\ g \in [SUBSET (1 .. n) -> V] /\ g[{}] = 0
      /\ \A s \in SUBSET (1 .. n) : s # {} => g[s] = step[<<Max(s), g[s \ {Max(s)}]>>]
  BY <1>5 DEF Folding
<1>7. \A s \in SUBSET (1 .. n) :
        g[s] = IF s = {} THEN 0 ELSE Next1(g[s \ {Max(s)}], spans[Max(s)])
  <2> TAKE s \in SUBSET (1 .. n)
  <2>1. CASE s = {}
    BY <1>6, <2>1
  <2>2. CASE s # {}
    <3>1. Max(s) \in 1 .. n
      BY <1>1, <2>2, MaxOfIndexes
    <3>2. g[s \ {Max(s)}] \in V
      BY <1>6
    <3> QED
      BY <1>4, <1>6, <2>2, <3>1, <3>2
  <2> QED
    BY <2>1, <2>2
<1>8. g = [s \in SUBSET (1 .. n) |->
             IF s = {} THEN 0 ELSE Next1(g[s \ {Max(s)}], spans[Max(s)])]
  BY <1>6, <1>7
<1> DEFINE iter[s \in SUBSET (1 .. n)] ==
             IF s = {} THEN 0 ELSE Next1(iter[s \ {Max(s)}], spans[Max(s)])
<1>9. iter = [s \in SUBSET (1 .. n) |->
                IF s = {} THEN 0 ELSE Next1(iter[s \ {Max(s)}], spans[Max(s)])]
  BY <1>8, Zenon
<1>10. FoldLeft(LAMBDA sum, s : sum + s.length - 1, 0, spans) = iter[1 .. n]
  BY <1>1, Zenon DEF FoldLeft, MapThenFoldSet, Next1
<1> HIDE DEF iter
<1>11. iter[{}] = 0
  BY <1>9
<1>12. ASSUME NEW s \in SUBSET (1 .. n), s # {} /\ iter[s \ {Max(s)}] \in V
       PROVE  iter[s] = step[<<Max(s), iter[s \ {Max(s)}]>>]
  <2>1. Max(s) \in 1 .. n
    BY <1>1, <1>12, MaxOfIndexes
  <2>2. iter[s] = Next1(iter[s \ {Max(s)}], spans[Max(s)])
    BY <1>9, <1>12
  <2> QED
    BY <1>4, <1>12, <2>1, <2>2
<1> DEFINE f == [k \in 0 .. n |-> iter[1 .. k]]
<1>13. f \in Traces(n, V, 0, step)
  BY <1>1, <1>3, <1>4, <1>11, <1>12, FoldTrace
<1>14. f[n] = iter[1 .. n]
  BY <1>1
<1> HIDE DEF f
<1>15. /\ f \in [0 .. n -> V] /\ f[0] = 0
       /\ \A k \in 1 .. n : f[k] = step[<<k, f[k - 1]>>]
  BY <1>13 DEF Traces, Trace
<1>16. \A k \in 1 .. n : f[k] = Next1(f[k - 1], spans[k])
  <2> TAKE k \in 1 .. n
  <2>1. f[k - 1] \in V
    BY <1>1, <1>15
  <2> QED
    BY <1>4, <1>15, <2>1
<1>17. Summed(spans, f)
  BY <1>10, <1>14, <1>15, <1>16 DEF Summed, n, V, Next1
<1> QED
  BY <1>17


\* The first spans of a sequence, summed.
LEMMA RemovedNext ==
    ASSUME NEW spans \in Seq(CodeSpan), NEW i \in 1 .. Len(spans)
    PROVE  /\ Removed(spans, i - 1) \in Nat /\ Removed(spans, i) \in Nat
           /\ Removed(spans, i) = Removed(spans, i - 1) + spans[i].length - 1
<1>1. i - 1 \in Nat /\ i \in Nat /\ i - 1 \in 0 .. Len(spans) /\ i \in 0 .. Len(spans) /\ 0 + 1 = 1
      /\ 0 \in Nat /\ (i - 1) - 0 = i - 1 /\ i - 0 = i /\ Len(spans) \in Nat
  OBVIOUS
<1>2. PICK p : p = SubSeq(spans, 1, i - 1)
  OBVIOUS
<1>3. PICK q : q = SubSeq(spans, 1, i)
  OBVIOUS
<1>4. p \in Seq(CodeSpan) /\ Len(p) = i - 1 /\ \A t \in 1 .. i - 1 : p[t] = spans[t]
  <2>1. /\ SubSeq(spans, 0 + 1, i - 1) \in Seq(CodeSpan)
        /\ Len(SubSeq(spans, 0 + 1, i - 1)) = (i - 1) - 0
        /\ \A t \in 1 .. (i - 1) - 0 : SubSeq(spans, 0 + 1, i - 1)[t] = spans[0 + t]
    BY <1>1, PartOf
  <2>2. \A t \in 1 .. i - 1 : 0 + t = t
    BY <1>1
  <2> QED
    BY <1>1, <1>2, <2>1, <2>2
<1>5. q \in Seq(CodeSpan) /\ Len(q) = i /\ \A t \in 1 .. i : q[t] = spans[t]
  <2>1. /\ SubSeq(spans, 0 + 1, i) \in Seq(CodeSpan)
        /\ Len(SubSeq(spans, 0 + 1, i)) = i - 0
        /\ \A t \in 1 .. i - 0 : SubSeq(spans, 0 + 1, i)[t] = spans[0 + t]
    BY <1>1, PartOf
  <2>2. \A t \in 1 .. i : 0 + t = t
    BY <1>1
  <2> QED
    BY <1>1, <1>3, <2>1, <2>2
<1>6. PICK f : Summed(p, f)
  BY <1>4, SummedTrace
<1>7. PICK g : Summed(q, g)
  BY <1>5, SummedTrace
<1>8. /\ f \in [0 .. i - 1 -> Nat] /\ f[0] = 0 /\ \A k \in 1 .. i - 1 : f[k] = f[k - 1] + p[k].length - 1
      /\ Removed(spans, i - 1) = f[i - 1]
  BY <1>2, <1>4, <1>6 DEF Summed, Removed
<1>9. /\ g \in [0 .. i -> Nat] /\ g[0] = 0 /\ \A k \in 1 .. i : g[k] = g[k - 1] + q[k].length - 1
      /\ Removed(spans, i) = g[i]
  BY <1>3, <1>5, <1>7 DEF Summed, Removed
<1> DEFINE Same == {k \in 0 .. i - 1 : f[k] = g[k]}
<1>10. 0 \in Same
  BY <1>1, <1>8, <1>9
<1>11. ASSUME NEW k \in 0 .. (i - 1) - 1, k \in Same PROVE k + 1 \in Same
  <2>1. k + 1 \in 1 .. i - 1 /\ k + 1 \in 1 .. i /\ (k + 1) - 1 = k /\ k + 1 \in 0 .. i - 1
    BY <1>1
  <2>2. f[k + 1] = f[(k + 1) - 1] + p[k + 1].length - 1 /\ g[k + 1] = g[(k + 1) - 1] + q[k + 1].length - 1
    BY <1>8, <1>9, <2>1
  <2>3. p[k + 1] = q[k + 1] /\ f[k] = g[k]
    BY <1>4, <1>5, <1>11, <2>1
  <2>4. f[k + 1] = g[k + 1]
    BY <2>1, <2>2, <2>3
  <2> QED
    BY <2>1, <2>4
<1> HIDE DEF Same
<1>12. \A k \in 0 .. i - 1 : k \in Same
  BY <1>1, <1>10, <1>11, UpTo
<1>13. i - 1 \in 0 .. i - 1 /\ i \in 1 .. i /\ i \in 0 .. i
  BY <1>1
<1>14. f[i - 1] = g[i - 1]
  BY <1>12, <1>13 DEF Same
<1>15. g[i] = g[i - 1] + spans[i].length - 1
  BY <1>5, <1>9, <1>13
<1>16. f[i - 1] \in Nat /\ g[i] \in Nat
  BY <1>8, <1>9, <1>13
<1> QED
  BY <1>8, <1>9, <1>14, <1>15, <1>16

\* No spans hold nothing.
LEMMA RemovedZero ==
    ASSUME NEW spans \in Seq(CodeSpan)
    PROVE  Removed(spans, 0) = 0
<1>1. SubSeq(spans, 1, 0) = <<>>
  <2>1. 1 \in Int /\ 0 \in Int /\ 0 < 1
    OBVIOUS
  <2> QED
    BY <2>1, SubSeqEmpty
<1>2. PICK p : p = SubSeq(spans, 1, 0)
  OBVIOUS
<1>3. p = <<>> /\ p \in Seq(CodeSpan) /\ Len(p) = 0
  BY <1>1, <1>2
<1>4. PICK f : Summed(p, f)
  BY <1>3, SummedTrace
<1>5. Removed(spans, 0) = f[0] /\ f[0] = 0
  BY <1>2, <1>3, <1>4 DEF Summed, Removed
<1> QED
  BY <1>5

\* The spans s begin with those of r.
Begins(r, s) == Len(r) <= Len(s) /\ \A i \in 1 .. Len(r) : r[i] = s[i]

\* The first spans hold the same wherever they stand.
LEMMA RemovedSame ==
    ASSUME NEW r \in Seq(CodeSpan), NEW s \in Seq(CodeSpan), Begins(r, s)
    PROVE  \A i \in 0 .. Len(r) : Removed(r, i) = Removed(s, i) /\ Removed(r, i) \in Nat
<1>1. Len(r) \in Nat /\ Len(s) \in Nat /\ Len(r) <= Len(s)
  BY DEF Begins
<1> DEFINE Same == {i \in 0 .. Len(r) : Removed(r, i) = Removed(s, i) /\ Removed(r, i) \in Nat}
<1>2. 0 \in Same
  <2>1. Removed(r, 0) = 0 /\ Removed(s, 0) = 0
    BY RemovedZero
  <2> QED
    BY <1>1, <2>1
<1>3. ASSUME NEW k \in 0 .. Len(r) - 1, k \in Same PROVE k + 1 \in Same
  <2>1. k + 1 \in 1 .. Len(r) /\ k + 1 \in 1 .. Len(s) /\ (k + 1) - 1 = k /\ k + 1 \in 0 .. Len(r)
    BY <1>1
  <2>2. Removed(r, k + 1) = Removed(r, (k + 1) - 1) + r[k + 1].length - 1 /\ Removed(r, k + 1) \in Nat
    BY <2>1, RemovedNext
  <2>3. Removed(s, k + 1) = Removed(s, (k + 1) - 1) + s[k + 1].length - 1
    BY <2>1, RemovedNext
  <2>4. r[k + 1] = s[k + 1]
    BY <2>1 DEF Begins
  <2>5. Removed(r, k) = Removed(s, k)
    BY <1>3
  <2>6. Removed(r, k + 1) = Removed(s, k + 1)
    BY <2>1, <2>2, <2>3, <2>4, <2>5
  <2> QED
    BY <2>1, <2>2, <2>6
<1> HIDE DEF Same
<1>4. \A k \in 0 .. Len(r) : k \in Same
  BY <1>1, <1>2, <1>3, UpTo
<1> QED
  BY <1>4 DEF Same

\* What the scan of expanded_copy has found after each cell.
Found == [at : Nat, spans : Seq(CodeSpan)]
SpanStep(v, c) ==
    IF c.own /\ Len(v.spans) < MaxTokens
    THEN [at |-> v.at + Len(c.code),
          spans |-> Append(v.spans, [start |-> v.at, length |-> Len(c.code)])]
    ELSE [v EXCEPT !.at = @ + 1]
SpanTrace(cells, f) ==
    /\ f \in [0 .. Len(cells) -> Found] /\ f[0] = [at |-> 0, spans |-> <<>>]
    /\ \A k \in 1 .. Len(cells) : f[k] = SpanStep(f[k - 1], cells[k])
    /\ SpansOf(cells) = f[Len(cells)].spans

\* A step finds a span or passes a cell.
LEMMA SpanStepOK ==
    ASSUME NEW v \in Found, NEW c \in Cell
    PROVE  SpanStep(v, c) \in Found
<1>1. v.at \in Nat /\ v.spans \in Seq(CodeSpan) /\ v = [at |-> v.at, spans |-> v.spans]
  BY DEF Found
<1>2. c.code \in Seq(Units) /\ Len(c.code) \in Nat /\ Len(c.code) >= 1
  BY CellOK
<1>3. PICK s : s = [start |-> v.at, length |-> Len(c.code)]
  OBVIOUS
<1>4. s \in CodeSpan
  <2>1. Len(c.code) \in Nat \ {0}
    BY <1>2
  <2> QED
    BY <1>1, <1>3, <2>1 DEF CodeSpan
<1>5. Append(v.spans, s) \in Seq(CodeSpan)
  BY <1>1, <1>4, AppendProperties
<1>6. [at |-> v.at + Len(c.code), spans |-> Append(v.spans, s)] \in Found
  <2>1. v.at + Len(c.code) \in Nat
    BY <1>1, <1>2
  <2> QED
    BY <1>5, <2>1 DEF Found
<1>7. [v EXCEPT !.at = @ + 1] \in Found
  <2>1. v.at + 1 \in Nat
    BY <1>1
  <2>2. [v EXCEPT !.at = @ + 1] = [at |-> v.at + 1, spans |-> v.spans]
    BY <1>1
  <2> QED
    BY <1>1, <2>1, <2>2 DEF Found
<1> QED
  BY <1>3, <1>6, <1>7 DEF SpanStep

\* The scan has a trace.
LEMMA SpanTraceExists ==
    ASSUME NEW cells \in Seq(Cell)
    PROVE  \E f : SpanTrace(cells, f)
<1> DEFINE n == Len(cells)
           V == Found
           Next1(v, c) == SpanStep(v, c)
           step == [t \in (1 .. n) \X V |-> Next1(t[2], cells[t[1]])]
<1>1. n \in Nat /\ DOMAIN cells = 1 .. n /\ \A k \in 1 .. n : cells[k] \in Cell
  OBVIOUS
<1>2. \A v \in V, k \in 1 .. n : Next1(v, cells[k]) \in V
  BY <1>1, SpanStepOK
<1>3. [at |-> 0, spans |-> <<>>] \in V
  BY DEF Found
<1> HIDE DEF n, V, Next1
<1>4. step \in Steps(n, V) /\ \A k \in 1 .. n, v \in V : step[<<k, v>>] = Next1(v, cells[k])
  BY <1>2 DEF Steps
<1> HIDE DEF step
<1>5. PICK g : g \in Folding(n, V, [at |-> 0, spans |-> <<>>], step)
  BY <1>1, <1>3, <1>4, FoldExists
<1>6. /\ g \in [SUBSET (1 .. n) -> V] /\ g[{}] = [at |-> 0, spans |-> <<>>]
      /\ \A s \in SUBSET (1 .. n) : s # {} => g[s] = step[<<Max(s), g[s \ {Max(s)}]>>]
  BY <1>5 DEF Folding
<1>7. \A s \in SUBSET (1 .. n) :
        g[s] = IF s = {} THEN [at |-> 0, spans |-> <<>>] ELSE Next1(g[s \ {Max(s)}], cells[Max(s)])
  <2> TAKE s \in SUBSET (1 .. n)
  <2>1. CASE s = {}
    BY <1>6, <2>1
  <2>2. CASE s # {}
    <3>1. Max(s) \in 1 .. n
      BY <1>1, <2>2, MaxOfIndexes
    <3>2. g[s \ {Max(s)}] \in V
      BY <1>6
    <3> QED
      BY <1>4, <1>6, <2>2, <3>1, <3>2
  <2> QED
    BY <2>1, <2>2
<1>8. g = [s \in SUBSET (1 .. n) |->
             IF s = {} THEN [at |-> 0, spans |-> <<>>] ELSE Next1(g[s \ {Max(s)}], cells[Max(s)])]
  BY <1>6, <1>7
<1> DEFINE iter[s \in SUBSET (1 .. n)] ==
             IF s = {} THEN [at |-> 0, spans |-> <<>>] ELSE Next1(iter[s \ {Max(s)}], cells[Max(s)])
<1>9. iter = [s \in SUBSET (1 .. n) |->
                IF s = {} THEN [at |-> 0, spans |-> <<>>] ELSE Next1(iter[s \ {Max(s)}], cells[Max(s)])]
  BY <1>8, Zenon
<1>10. SpansOf(cells) = iter[1 .. n].spans
  BY <1>1, Zenon DEF SpansOf, FoldLeft, MapThenFoldSet, Next1, SpanStep
<1> HIDE DEF iter
<1>11. iter[{}] = [at |-> 0, spans |-> <<>>]
  BY <1>9
<1>12. ASSUME NEW s \in SUBSET (1 .. n), s # {} /\ iter[s \ {Max(s)}] \in V
       PROVE  iter[s] = step[<<Max(s), iter[s \ {Max(s)}]>>]
  <2>1. Max(s) \in 1 .. n
    BY <1>1, <1>12, MaxOfIndexes
  <2>2. iter[s] = Next1(iter[s \ {Max(s)}], cells[Max(s)])
    BY <1>9, <1>12
  <2> QED
    BY <1>4, <1>12, <2>1, <2>2
<1> DEFINE f == [k \in 0 .. n |-> iter[1 .. k]]
<1>13. f \in Traces(n, V, [at |-> 0, spans |-> <<>>], step)
  BY <1>1, <1>3, <1>4, <1>11, <1>12, FoldTrace
<1>14. f[n] = iter[1 .. n]
  BY <1>1
<1> HIDE DEF f
<1>15. /\ f \in [0 .. n -> V] /\ f[0] = [at |-> 0, spans |-> <<>>]
       /\ \A k \in 1 .. n : f[k] = step[<<k, f[k - 1]>>]
  BY <1>13 DEF Traces, Trace
<1>16. \A k \in 1 .. n : f[k] = Next1(f[k - 1], cells[k])
  <2> TAKE k \in 1 .. n
  <2>1. f[k - 1] \in V
    BY <1>1, <1>15
  <2> QED
    BY <1>4, <1>15, <2>1
<1>17. SpanTrace(cells, f)
  BY <1>10, <1>14, <1>15, <1>16 DEF SpanTrace, n, V, Next1
<1> QED
  BY <1>17


\* The position j of the cells is found in the spans s.
At(cells, j, s) ==
    /\ Own(cells, j) <= Len(s)
    /\ Removed(s, Own(cells, j)) = Width(cells, j) - j
    /\ \A i \in 1 .. Len(s) : s[i].start - Removed(s, i - 1) < j <=> i <= Own(cells, j)

\* The span of one cell.
IsCell(cells, d, span) ==
    span.start = Width(cells, d - 1) /\ span.start + span.length = Width(cells, d)

\* What the scan knows after k cells.
Scanned(cells, k, v) ==
    /\ v \in Found /\ v.at = Width(cells, k) /\ Len(v.spans) = Own(cells, k)
    /\ \A j \in 0 .. k : At(cells, j, v.spans)
    /\ \A i \in 1 .. Len(v.spans) : \E d \in 1 .. k : IsCell(cells, d, v.spans[i])

\* A cell that is not ours moves the scan one on.
LEMMA ScannedPlain ==
    ASSUME NEW cells \in Seq(Cell), NEW k \in 0 .. Len(cells) - 1, NEW v, Scanned(cells, k, v),
           ~cells[k + 1].own
    PROVE  Scanned(cells, k + 1, [v EXCEPT !.at = @ + 1])
<1>1. k + 1 \in 1 .. Len(cells) /\ (k + 1) - 1 = k /\ k \in Nat /\ cells[k + 1] \in Cell
  OBVIOUS
<1>2. PICK s : s = v.spans
  OBVIOUS
<1>3. /\ v \in Found /\ v.at = Width(cells, k) /\ Len(s) = Own(cells, k)
      /\ \A j \in 0 .. k : At(cells, j, s)
      /\ \A i \in 1 .. Len(s) : \E d \in 1 .. k : IsCell(cells, d, s[i])
  BY <1>2, Zenon DEF Scanned
<1>4. v.at \in Nat /\ s \in Seq(CodeSpan) /\ v = [at |-> v.at, spans |-> s]
  BY <1>2, <1>3 DEF Found
<1>5. PICK w : w = [v EXCEPT !.at = @ + 1]
  OBVIOUS
<1>6. w = [at |-> v.at + 1, spans |-> s] /\ w \in Found /\ w.at = v.at + 1 /\ w.spans = s
  <2>1. w = [at |-> v.at + 1, spans |-> s]
    BY <1>4, <1>5
  <2>2. v.at + 1 \in Nat
    BY <1>4
  <2> QED
    BY <1>4, <2>1, <2>2 DEF Found
<1>7. Width(cells, k + 1) = Width(cells, k) + 1 /\ Width(cells, k) \in Nat
  <2>1. Width(cells, k + 1) = Width(cells, (k + 1) - 1) + Len(cells[k + 1].code)
        /\ Width(cells, (k + 1) - 1) \in Nat
    BY <1>1, WidthNext
  <2>2. Len(cells[k + 1].code) = 1
    BY <1>1, CellOK
  <2> QED
    BY <1>1, <2>1, <2>2
<1>8. Own(cells, k + 1) = Own(cells, k) /\ Own(cells, k) \in Nat
  <2>1. Own(cells, k + 1) = Own(cells, (k + 1) - 1) + (IF cells[k + 1].own THEN 1 ELSE 0)
        /\ Own(cells, (k + 1) - 1) \in Nat
    BY <1>1, OwnNext
  <2> QED
    BY <1>1, <2>1
<1>9. At(cells, k + 1, s)
  <2>1. At(cells, k, s)
    BY <1>1, <1>3
  <2>2. \A i \in 1 .. Len(s) : s[i].start - Removed(s, i - 1) < k /\ i <= Own(cells, k)
    <3>1. \A i \in 1 .. Len(s) : i <= Own(cells, k)
      BY <1>3
    <3> QED
      BY <2>1, <3>1 DEF At
  <2>3. \A i \in 1 .. Len(s) : s[i].start - Removed(s, i - 1) \in Int
    <3> TAKE i \in 1 .. Len(s)
    <3>1. Removed(s, i - 1) \in Nat
      BY <1>4, RemovedNext
    <3>2. s[i] \in CodeSpan
      BY <1>4
    <3> QED
      BY <3>1, <3>2 DEF CodeSpan
  <2>4. \A i \in 1 .. Len(s) : s[i].start - Removed(s, i - 1) < k + 1
    <3> TAKE i \in 1 .. Len(s)
    <3>1. PICK e : e = s[i].start - Removed(s, i - 1)
      OBVIOUS
    <3>2. e \in Int /\ e < k
      BY <2>2, <2>3, <3>1
    <3>3. e < k + 1
      BY <1>1, <3>2
    <3> QED
      BY <3>1, <3>3
  <2>5. Removed(s, Own(cells, k + 1)) = Width(cells, k + 1) - (k + 1)
    <3>1. Removed(s, Own(cells, k)) = Width(cells, k) - k
      BY <2>1 DEF At
    <3>2. PICK e : e = Width(cells, k)
      OBVIOUS
    <3>3. e - k = (e + 1) - (k + 1)
      BY <1>1, <1>7, <3>2
    <3> QED
      BY <1>7, <1>8, <3>1, <3>2, <3>3
  <2>6. Own(cells, k + 1) <= Len(s)
    BY <1>8, <2>1 DEF At
  <2> QED
    BY <1>8, <2>2, <2>4, <2>5, <2>6 DEF At
<1>10. \A j \in 0 .. k + 1 : At(cells, j, s)
  <2> TAKE j \in 0 .. k + 1
  <2>1. CASE j = k + 1
    BY <1>9, <2>1
  <2>2. CASE j # k + 1
    <3>1. j \in 0 .. k
      BY <1>1, <2>2
    <3> QED
      BY <1>3, <3>1
  <2> QED
    BY <2>1, <2>2
<1>11. \A i \in 1 .. Len(s) : \E d \in 1 .. k + 1 : IsCell(cells, d, s[i])
  <2> TAKE i \in 1 .. Len(s)
  <2>1. PICK d \in 1 .. k : IsCell(cells, d, s[i])
    BY <1>3
  <2>2. d \in 1 .. k + 1
    BY <1>1
  <2> QED
    BY <2>1, <2>2
<1>12. w.at = Width(cells, k + 1) /\ Len(s) = Own(cells, k + 1)
  BY <1>3, <1>6, <1>7, <1>8
<1>13. Scanned(cells, k + 1, w)
  BY <1>6, <1>10, <1>11, <1>12, Zenon DEF Scanned
<1> QED
  BY <1>5, <1>13

\* One of ours gives a span.
LEMMA ScannedOwn ==
    ASSUME NEW cells \in Seq(Cell), NEW k \in 0 .. Len(cells) - 1, NEW v, Scanned(cells, k, v),
           cells[k + 1].own
    PROVE  Scanned(cells, k + 1,
              [at |-> v.at + Len(cells[k + 1].code),
               spans |-> Append(v.spans, [start |-> v.at, length |-> Len(cells[k + 1].code)])])
<1>1. k + 1 \in 1 .. Len(cells) /\ (k + 1) - 1 = k /\ k \in Nat /\ cells[k + 1] \in Cell
  OBVIOUS
<1>2. PICK s : s = v.spans
  OBVIOUS
<1>3. /\ v \in Found /\ v.at = Width(cells, k) /\ Len(s) = Own(cells, k)
      /\ \A j \in 0 .. k : At(cells, j, s)
      /\ \A i \in 1 .. Len(s) : \E d \in 1 .. k : IsCell(cells, d, s[i])
  BY <1>2, Zenon DEF Scanned
<1>4. v.at \in Nat /\ s \in Seq(CodeSpan)
  BY <1>2, <1>3 DEF Found
<1>5. PICK l : l = Len(cells[k + 1].code)
  OBVIOUS
<1>6. l \in Nat /\ l >= 1 /\ l \in Nat \ {0}
  <2>1. l \in Nat /\ l >= 1
    BY <1>1, <1>5, CellOK
  <2> QED
    BY <2>1
<1>7. PICK span : span = [start |-> v.at, length |-> l]
  OBVIOUS
<1>8. span \in CodeSpan /\ span.start = v.at /\ span.length = l
  BY <1>4, <1>6, <1>7 DEF CodeSpan
<1>9. PICK n : n = Len(s)
  OBVIOUS
<1>10. PICK q : q = Append(s, span)
  OBVIOUS
<1>11. n \in Nat /\ q \in Seq(CodeSpan) /\ Len(q) = n + 1 /\ q[n + 1] = span
       /\ \A i \in 1 .. n : q[i] = s[i]
  <2>1. n \in Nat
    BY <1>4, <1>9
  <2> QED
    BY <1>4, <1>8, <1>9, <1>10, <2>1, AppendProperties
<1>12. Begins(s, q)
  <2>1. n <= n + 1
    BY <1>11
  <2> QED
    BY <1>9, <1>11, <2>1 DEF Begins
<1>13. \A i \in 0 .. n : Removed(s, i) = Removed(q, i) /\ Removed(s, i) \in Nat
  BY <1>4, <1>9, <1>11, <1>12, RemovedSame
<1>14. PICK w : w = [at |-> v.at + l, spans |-> q]
  OBVIOUS
<1>15. w \in Found /\ w.at = v.at + l /\ w.spans = q
  <2>1. v.at + l \in Nat
    BY <1>4, <1>6
  <2> QED
    BY <1>11, <1>14, <2>1 DEF Found
<1>16. Width(cells, k + 1) = Width(cells, k) + l /\ Width(cells, k) \in Nat
  BY <1>1, <1>5, WidthNext
<1>17. Own(cells, k + 1) = n + 1 /\ Own(cells, k) = n
  <2>1. Own(cells, k + 1) = Own(cells, (k + 1) - 1) + (IF cells[k + 1].own THEN 1 ELSE 0)
    BY <1>1, OwnNext
  <2> QED
    BY <1>1, <1>3, <1>9, <2>1
<1>18. Removed(q, n) = Width(cells, k) - k
  <2>1. At(cells, k, s)
    BY <1>1, <1>3
  <2>2. Removed(s, n) = Width(cells, k) - k
    BY <1>17, <2>1 DEF At
  <2>3. n \in 0 .. n
    BY <1>11
  <2> QED
    BY <1>13, <2>2, <2>3
<1>19. q[n + 1].start - Removed(q, (n + 1) - 1) = k /\ (n + 1) - 1 = n
  <2>1. (n + 1) - 1 = n
    BY <1>11
  <2>2. PICK e : e = Width(cells, k)
    OBVIOUS
  <2>3. e - (e - k) = k
    BY <1>1, <1>16, <2>2
  <2> QED
    BY <1>3, <1>8, <1>11, <1>18, <2>1, <2>2, <2>3
<1>20. \A i \in 1 .. n : q[i].start - Removed(q, i - 1) = s[i].start - Removed(s, i - 1)
  <2> TAKE i \in 1 .. n
  <2>1. i - 1 \in 0 .. n
    BY <1>11
  <2> QED
    BY <1>11, <1>13, <2>1
<1>21. ASSUME NEW j \in 0 .. k PROVE At(cells, j, q)
  <2>1. At(cells, j, s)
    BY <1>3
  <2>2. Own(cells, j) \in Nat /\ Own(cells, j) <= n
    <3>1. j \in 0 .. Len(cells)
      BY <1>1
    <3>2. Own(cells, j) \in Nat
      BY <3>1, OwnWithin
    <3> QED
      BY <1>9, <2>1, <3>2 DEF At
  <2>3. Own(cells, j) \in 0 .. n
    BY <1>11, <2>2
  <2>4. Removed(q, Own(cells, j)) = Width(cells, j) - j
    BY <1>13, <2>1, <2>3 DEF At
  <2>5. ASSUME NEW i \in 1 .. Len(q) PROVE q[i].start - Removed(q, i - 1) < j <=> i <= Own(cells, j)
    <3>1. CASE i = n + 1
      <4>1. ~(n + 1 <= Own(cells, j)) /\ ~(k < j)
        BY <1>1, <1>11, <2>2
      <4> QED
        BY <1>19, <3>1, <4>1
    <3>2. CASE i # n + 1
      <4>1. i \in 1 .. n /\ i \in 1 .. Len(s)
        BY <1>9, <1>11, <3>2
      <4>2. s[i].start - Removed(s, i - 1) < j <=> i <= Own(cells, j)
        BY <2>1, <4>1 DEF At
      <4> QED
        BY <1>20, <4>1, <4>2
    <3> QED
      BY <3>1, <3>2
  <2>6. Own(cells, j) <= Len(q)
    BY <1>11, <2>2
  <2> QED
    BY <2>4, <2>5, <2>6 DEF At
<1>22. At(cells, k + 1, q)
  <2>1. n + 1 \in 1 .. Len(q)
    BY <1>11
  <2>2. Removed(q, n + 1) = Removed(q, (n + 1) - 1) + q[n + 1].length - 1
    BY <1>11, <2>1, RemovedNext
  <2>3. Removed(q, n + 1) = Width(cells, k + 1) - (k + 1)
    <3>1. PICK e : e = Width(cells, k)
      OBVIOUS
    <3>2. (e - k) + l - 1 = (e + l) - (k + 1)
      BY <1>1, <1>6, <1>16, <3>1
    <3> QED
      BY <1>8, <1>11, <1>16, <1>18, <1>19, <2>2, <3>1, <3>2
  <2>4. ASSUME NEW i \in 1 .. Len(q)
        PROVE  q[i].start - Removed(q, i - 1) < k + 1 /\ i <= n + 1
    <3>1. CASE i = n + 1
      <4>1. k < k + 1 /\ n + 1 <= n + 1
        BY <1>1, <1>11
      <4> QED
        BY <1>19, <3>1, <4>1
    <3>2. CASE i # n + 1
      <4>1. i \in 1 .. n /\ i \in 1 .. Len(s) /\ i <= n /\ i <= n + 1
        BY <1>9, <1>11, <3>2
      <4>2. At(cells, k, s)
        BY <1>1, <1>3
      <4>3. PICK e : e = s[i].start - Removed(s, i - 1)
        OBVIOUS
      <4>4. e < k
        BY <1>17, <4>1, <4>2, <4>3 DEF At
      <4>5. e \in Int
        <5>1. Removed(s, i - 1) \in Nat
          BY <1>4, <4>1, RemovedNext
        <5>2. s[i] \in CodeSpan
          BY <1>4, <4>1
        <5> QED
          BY <4>3, <5>1, <5>2 DEF CodeSpan
      <4>6. e < k + 1
        BY <1>1, <4>4, <4>5
      <4> QED
        BY <1>20, <4>1, <4>3, <4>6
    <3> QED
      BY <3>1, <3>2
  <2>5. n + 1 <= Len(q)
    BY <1>11
  <2> QED
    BY <1>17, <2>3, <2>4, <2>5 DEF At
<1>23. \A j \in 0 .. k + 1 : At(cells, j, q)
  <2> TAKE j \in 0 .. k + 1
  <2>1. CASE j = k + 1
    BY <1>22, <2>1
  <2>2. CASE j # k + 1
    <3>1. j \in 0 .. k
      BY <1>1, <2>2
    <3> QED
      BY <1>21, <3>1
  <2> QED
    BY <2>1, <2>2
<1>24. \A i \in 1 .. Len(q) : \E d \in 1 .. k + 1 : IsCell(cells, d, q[i])
  <2> TAKE i \in 1 .. Len(q)
  <2>1. CASE i = n + 1
    <3>1. IsCell(cells, k + 1, span)
      BY <1>1, <1>3, <1>8, <1>16 DEF IsCell
    <3>2. k + 1 \in 1 .. k + 1
      BY <1>1
    <3> QED
      BY <1>11, <2>1, <3>1, <3>2
  <2>2. CASE i # n + 1
    <3>1. i \in 1 .. n /\ i \in 1 .. Len(s)
      BY <1>9, <1>11, <2>2
    <3>2. PICK d \in 1 .. k : IsCell(cells, d, s[i])
      BY <1>3, <3>1
    <3>3. d \in 1 .. k + 1
      BY <1>1
    <3> QED
      BY <1>11, <3>1, <3>2, <3>3
  <2> QED
    BY <2>1, <2>2
<1>25. w.at = Width(cells, k + 1) /\ Len(q) = Own(cells, k + 1)
  BY <1>3, <1>11, <1>15, <1>16, <1>17
<1>26. Scanned(cells, k + 1, w)
  BY <1>15, <1>23, <1>24, <1>25, Zenon DEF Scanned
<1> QED
  BY <1>2, <1>5, <1>7, <1>10, <1>14, <1>26

\* What the spans of a text say of its positions and cells.
Locates(cells, spans) ==
    /\ spans \in Seq(CodeSpan)
    /\ \A k \in 0 .. Len(cells) : PlainPosition(k, spans) = Width(cells, k)
    /\ \A i \in 1 .. Len(spans) : \E d \in 1 .. Len(cells) : IsCell(cells, d, spans[i])
    /\ spans = <<>> => \A i \in 1 .. Len(cells) : ~cells[i].own

\* With no more attachments than there is room for, the spans locate them.
LEMMA SpansLocate ==
    ASSUME NEW cells \in Seq(Cell), Len(Attached(cells)) <= MaxTokens
    PROVE  Locates(cells, SpansOf(cells))
<1>1. PICK n : n = Len(cells)
  OBVIOUS
<1>2. n \in Nat /\ n \in 0 .. n
  BY <1>1
<1>3. PICK f : SpanTrace(cells, f)
  BY SpanTraceExists
<1>4. /\ f \in [0 .. n -> Found] /\ f[0] = [at |-> 0, spans |-> <<>>]
      /\ \A k \in 1 .. n : f[k] = SpanStep(f[k - 1], cells[k])
      /\ SpansOf(cells) = f[n].spans
  BY <1>1, <1>3 DEF SpanTrace
<1> DEFINE Right == {k \in 0 .. n : Scanned(cells, k, f[k])}
<1>5. 0 \in Right
  <2>1. PICK v : v = [at |-> 0, spans |-> <<>>]
    OBVIOUS
  <2>2. v.at = 0 /\ v.spans = <<>> /\ v.spans \in Seq(CodeSpan) /\ Len(v.spans) = 0 /\ v \in Found
    BY <2>1 DEF Found
  <2>3. Own(cells, 0) = 0 /\ Width(cells, 0) = 0
    <3>1. 0 \in 0 .. Len(cells)
      BY <1>1, <1>2
    <3> QED
      BY <3>1, OwnWithin, WidthZero
  <2>4. Removed(v.spans, 0) = 0
    BY <2>2, RemovedZero
  <2>5. At(cells, 0, v.spans)
    BY <2>2, <2>3, <2>4 DEF At
  <2>6. \A j \in 0 .. 0 : At(cells, j, v.spans)
    BY <2>5
  <2>7. Scanned(cells, 0, v)
    BY <2>2, <2>3, <2>6 DEF Scanned
  <2> QED
    BY <1>2, <1>4, <2>1, <2>7
<1>6. ASSUME NEW k \in 0 .. n - 1, k \in Right PROVE k + 1 \in Right
  <2>1. k + 1 \in 1 .. n /\ (k + 1) - 1 = k /\ k + 1 \in 0 .. n /\ k \in 0 .. Len(cells) - 1
        /\ k + 1 \in 1 .. Len(cells) /\ k \in 0 .. Len(cells) /\ k + 1 \in 0 .. Len(cells)
    BY <1>1, <1>2
  <2>2. PICK v : v = f[k]
    OBVIOUS
  <2>3. Scanned(cells, k, v)
    BY <1>6, <2>2
  <2>4. f[k + 1] = SpanStep(v, cells[k + 1])
    <3>1. f[k + 1] = SpanStep(f[(k + 1) - 1], cells[k + 1])
      BY <1>4, <2>1
    <3> QED
      BY <2>1, <2>2, <3>1
  <2>5. CASE cells[k + 1].own
    <3>1. Own(cells, k + 1) = Own(cells, (k + 1) - 1) + (IF cells[k + 1].own THEN 1 ELSE 0)
          /\ Own(cells, (k + 1) - 1) \in Nat
      BY <2>1, OwnNext
    <3>2. Own(cells, k + 1) <= Len(Attached(cells)) /\ Len(Attached(cells)) \in Nat
      BY <2>1, OwnWithin
    <3>3. Len(v.spans) = Own(cells, k)
      BY <2>3 DEF Scanned
    <3>4. Len(v.spans) < MaxTokens
      BY <2>1, <2>5, <3>1, <3>2, <3>3, CatalogsAssumption
    <3>5. f[k + 1] = [at |-> v.at + Len(cells[k + 1].code),
                      spans |-> Append(v.spans, [start |-> v.at, length |-> Len(cells[k + 1].code)])]
      BY <2>4, <2>5, <3>4, Zenon DEF SpanStep
    <3>6. Scanned(cells, k + 1, f[k + 1])
      BY <2>1, <2>3, <2>5, <3>5, ScannedOwn
    <3> QED
      BY <2>1, <3>6
  <2>6. CASE ~cells[k + 1].own
    <3>1. f[k + 1] = [v EXCEPT !.at = @ + 1]
      BY <2>4, <2>6, Zenon DEF SpanStep
    <3>2. Scanned(cells, k + 1, f[k + 1])
      BY <2>1, <2>3, <2>6, <3>1, ScannedPlain
    <3> QED
      BY <2>1, <3>2
  <2> QED
    BY <2>5, <2>6
<1> HIDE DEF Right
<1>7. n \in Right
  <2>1. \A k \in 0 .. n : k \in Right
    BY <1>2, <1>5, <1>6, UpTo
  <2> QED
    BY <1>2, <2>1
<1>8. PICK s : s = SpansOf(cells)
  OBVIOUS
<1>9. /\ s \in Seq(CodeSpan) /\ Len(s) = Own(cells, n)
      /\ \A j \in 0 .. n : At(cells, j, s)
      /\ \A i \in 1 .. Len(s) : \E d \in 1 .. n : IsCell(cells, d, s[i])
  <2>1. Scanned(cells, n, f[n]) /\ s = f[n].spans
    BY <1>4, <1>7, <1>8 DEF Right
  <2>2. /\ f[n] \in Found /\ Len(s) = Own(cells, n)
        /\ \A j \in 0 .. n : At(cells, j, s)
        /\ \A i \in 1 .. Len(s) : \E d \in 1 .. n : IsCell(cells, d, s[i])
    BY <2>1 DEF Scanned
  <2>3. s \in Seq(CodeSpan)
    BY <2>1, <2>2 DEF Found
  <2> QED
    BY <2>2, <2>3
<1>10. ASSUME NEW k \in 0 .. n PROVE PlainPosition(k, s) = Width(cells, k)
  <2>1. At(cells, k, s)
    BY <1>9
  <2>2. PICK c : c = Own(cells, k)
    OBVIOUS
  <2>3. c \in Nat
    <3>1. k \in 0 .. Len(cells)
      BY <1>1
    <3> QED
      BY <2>2, <3>1, OwnWithin
  <2>4. c <= Len(s) /\ Removed(s, c) = Width(cells, k) - k
        /\ \A i \in 1 .. Len(s) : s[i].start - Removed(s, i - 1) < k <=> i <= c
    BY <2>1, <2>2 DEF At
  <2>5. DOMAIN s = 1 .. Len(s) /\ Len(s) \in Nat
    BY <1>9
  <2>6. PICK b : b = {i \in DOMAIN s : s[i].start - Removed(s, i - 1) < k}
    OBVIOUS
  <2>7. b = 1 .. c
    <3>1. \A i \in 1 .. Len(s) : i \in b <=> i <= c
      BY <2>4, <2>5, <2>6
    <3>2. b \subseteq 1 .. Len(s)
      BY <2>5, <2>6
    <3>3. \A i \in b : i \in 1 .. c
      BY <2>3, <2>5, <3>1, <3>2
    <3>4. \A i \in 1 .. c : i \in 1 .. Len(s) /\ i <= c
      BY <2>3, <2>4, <2>5
    <3> QED
      BY <3>1, <3>3, <3>4
  <2>8. Cardinality(b) = c
    <3>1. 1 \in Int /\ c \in Int
      BY <2>3
    <3>2. Cardinality(1 .. c) = IF 1 > c THEN 0 ELSE c - 1 + 1
      BY <3>1, FS_Interval
    <3> QED
      BY <2>3, <2>7, <3>2
  <2>9. PlainPosition(k, s) = k + Removed(s, c)
    <3>1. PlainPosition(k, s)
            = k + Removed(s, Cardinality({i \in DOMAIN s : s[i].start - Removed(s, i - 1) < k}))
      BY Zenon DEF PlainPosition
    <3> QED
      BY <2>6, <2>8, <3>1
  <2>10. Width(cells, k) \in Nat
    <3>1. k \in 0 .. Len(cells) /\ k \in k .. Len(cells)
      BY <1>1, <1>2
    <3> QED
      BY <3>1, WidthGrows
  <2>11. PICK w : w = Width(cells, k)
    OBVIOUS
  <2>12. k + (w - k) = w
    BY <2>10, <2>11
  <2> QED
    BY <2>4, <2>9, <2>11, <2>12
<1>11. ASSUME s = <<>> PROVE \A i \in 1 .. n : ~cells[i].own
  <2>1. Len(s) = 0
    BY <1>11
  <2> TAKE i \in 1 .. n
  <2>2. Own(cells, n) = Len(Attached(cells))
    <3>1. SubSeq(cells, 1, Len(cells)) = cells
      BY SubSeqFull
    <3> QED
      BY <1>1, <3>1 DEF Own
  <2>3. i \in 1 .. Len(cells) /\ i \in 0 .. Len(cells)
    BY <1>1, <1>2
  <2>4. Own(cells, i) = Own(cells, i - 1) + (IF cells[i].own THEN 1 ELSE 0)
        /\ Own(cells, i - 1) \in Nat
    BY <2>3, OwnNext
  <2>5. Own(cells, i) <= Len(Attached(cells))
    BY <2>3, OwnWithin
  <2>6. cells[i].own \in BOOLEAN
    <3>1. cells[i] \in Cell
      BY <2>3
    <3> QED
      BY <3>1, CellOK
  <2>7. Own(cells, i) <= 0
    BY <1>9, <2>1, <2>2, <2>5
  <2>8. ~cells[i].own
    <3>1. SUFFICES ASSUME cells[i].own PROVE FALSE
      OBVIOUS
    <3>2. Own(cells, i) = Own(cells, i - 1) + 1
      BY <2>4, <3>1
    <3> QED
      BY <2>4, <2>7, <3>2
  <2> QED
    BY <2>8
<1> QED
  BY <1>1, <1>8, <1>9, <1>10, <1>11, Zenon DEF Locates

\* Plain texts joined, as cells.
LEMMA CellsConcat ==
    ASSUME NEW a \in Seq(Units), NEW b \in Seq(Units)
    PROVE  Cells(a \o b) = Cells(a) \o Cells(b) /\ a \o b \in Seq(Units)
<1>1. PICK c : c = a \o b
  OBVIOUS
<1>2. /\ c \in Seq(Units) /\ Len(a) \in Nat /\ Len(b) \in Nat /\ Len(c) = Len(a) + Len(b)
      /\ \A i \in 1 .. Len(a) + Len(b) : c[i] = IF i <= Len(a) THEN a[i] ELSE b[i - Len(a)]
  BY <1>1, ConcatParts
<1>3. \A t \in Seq(Units) : /\ Cells(t) \in Seq(Cell) /\ Len(Cells(t)) = Len(t)
                            /\ \A i \in 1 .. Len(t) : Cells(t)[i] = UnitCell(t[i])
  <2> TAKE t \in Seq(Units)
  <2>1. Cells(t) \in Seq(Cell) /\ Len(Cells(t)) = Len(t)
    BY PlainOK DEF IsPlain
  <2>2. DOMAIN t = 1 .. Len(t)
    OBVIOUS
  <2>3. \A i \in 1 .. Len(t) : Cells(t)[i] = UnitCell(t[i])
    BY <2>2 DEF Cells
  <2> QED
    BY <2>1, <2>3
<1>4. PICK p : p = Cells(a)
  OBVIOUS
<1>5. PICK q : q = Cells(b)
  OBVIOUS
<1>6. PICK r : r = Cells(c)
  OBVIOUS
<1>7. p \in Seq(Cell) /\ Len(p) = Len(a) /\ \A i \in 1 .. Len(a) : p[i] = UnitCell(a[i])
  BY <1>3, <1>4
<1>8. q \in Seq(Cell) /\ Len(q) = Len(b) /\ \A i \in 1 .. Len(b) : q[i] = UnitCell(b[i])
  BY <1>3, <1>5
<1>9. r \in Seq(Cell) /\ Len(r) = Len(c) /\ \A i \in 1 .. Len(c) : r[i] = UnitCell(c[i])
  BY <1>2, <1>3, <1>6
<1>10. PICK s : s = p \o q
  OBVIOUS
<1>11. /\ s \in Seq(Cell) /\ Len(s) = Len(a) + Len(b)
       /\ \A i \in 1 .. Len(a) + Len(b) : s[i] = IF i <= Len(a) THEN p[i] ELSE q[i - Len(a)]
  <2>1. /\ s \in Seq(Cell) /\ Len(s) = Len(p) + Len(q)
        /\ \A i \in 1 .. Len(p) + Len(q) : s[i] = IF i <= Len(p) THEN p[i] ELSE q[i - Len(p)]
    BY <1>7, <1>8, <1>10, ConcatParts
  <2> QED
    BY <1>7, <1>8, <2>1
<1>12. ASSUME NEW i \in 1 .. Len(a) + Len(b) PROVE r[i] = s[i]
  <2>1. r[i] = UnitCell(c[i])
    BY <1>2, <1>9
  <2>2. CASE i <= Len(a)
    <3>1. i \in 1 .. Len(a)
      BY <1>2, <2>2
    <3>2. c[i] = a[i] /\ s[i] = p[i]
      BY <1>2, <1>11, <2>2
    <3> QED
      BY <1>7, <2>1, <3>1, <3>2
  <2>3. CASE ~(i <= Len(a))
    <3>1. i - Len(a) \in 1 .. Len(b)
      BY <1>2, <2>3
    <3>2. c[i] = b[i - Len(a)] /\ s[i] = q[i - Len(a)]
      BY <1>2, <1>11, <2>3
    <3> QED
      BY <1>8, <2>1, <3>1, <3>2
  <2> QED
    BY <2>2, <2>3
<1>13. Len(r) = Len(a) + Len(b)
  BY <1>2, <1>9
<1>14. r = s
  BY <1>9, <1>11, <1>12, <1>13, SeqEqual
<1> QED
  BY <1>1, <1>2, <1>4, <1>5, <1>6, <1>10, <1>14

\* What the second loop of expanded_copy has written after each cell.
Expansion == [n : Nat, out : Seq(Cell)]
ExpandStep(v, c) ==
    IF c.own /\ v.n < MaxTokens
    THEN [n |-> v.n + 1, out |-> v.out \o Cells(c.code)]
    ELSE [v EXCEPT !.out = Append(@, c)]
ExpandTrace(cells, f) ==
    /\ f \in [0 .. Len(cells) -> Expansion] /\ f[0] = [n |-> 0, out |-> <<>>]
    /\ \A k \in 1 .. Len(cells) : f[k] = ExpandStep(f[k - 1], cells[k])
    /\ Expanded(cells) = f[Len(cells)].out

\* A step writes a code or copies a cell.
LEMMA ExpandStepOK ==
    ASSUME NEW v \in Expansion, NEW c \in Cell
    PROVE  ExpandStep(v, c) \in Expansion
<1>1. v.n \in Nat /\ v.out \in Seq(Cell) /\ v = [n |-> v.n, out |-> v.out]
  BY DEF Expansion
<1>2. Cells(c.code) \in Seq(Cell)
  <2>1. c.code \in Seq(Units)
    BY CellOK
  <2> QED
    BY <2>1, PlainOK DEF IsPlain
<1>3. PICK a : a = v.out \o Cells(c.code)
  OBVIOUS
<1>4. PICK b : b = Append(v.out, c)
  OBVIOUS
<1>5. a \in Seq(Cell) /\ b \in Seq(Cell)
  <2>1. a \in Seq(Cell)
    BY <1>1, <1>2, <1>3, ConcatProperties
  <2>2. b \in Seq(Cell)
    BY <1>1, <1>4, AppendProperties
  <2> QED
    BY <2>1, <2>2
<1>6. [n |-> v.n + 1, out |-> a] \in Expansion
  <2>1. v.n + 1 \in Nat
    BY <1>1
  <2> QED
    BY <1>5, <2>1 DEF Expansion
<1>7. [v EXCEPT !.out = Append(@, c)] \in Expansion
  <2>1. [v EXCEPT !.out = Append(@, c)] = [n |-> v.n, out |-> b]
    BY <1>1, <1>4
  <2> QED
    BY <1>1, <1>5, <2>1 DEF Expansion
<1> QED
  BY <1>3, <1>6, <1>7 DEF ExpandStep

\* The loop has a trace.
LEMMA ExpandTraceExists ==
    ASSUME NEW cells \in Seq(Cell)
    PROVE  \E f : ExpandTrace(cells, f)
<1> DEFINE n == Len(cells)
           V == Expansion
           Next1(v, c) == ExpandStep(v, c)
           step == [t \in (1 .. n) \X V |-> Next1(t[2], cells[t[1]])]
<1>1. n \in Nat /\ DOMAIN cells = 1 .. n /\ \A k \in 1 .. n : cells[k] \in Cell
  OBVIOUS
<1>2. \A v \in V, k \in 1 .. n : Next1(v, cells[k]) \in V
  BY <1>1, ExpandStepOK
<1>3. [n |-> 0, out |-> <<>>] \in V
  BY DEF Expansion
<1> HIDE DEF n, V, Next1
<1>4. step \in Steps(n, V) /\ \A k \in 1 .. n, v \in V : step[<<k, v>>] = Next1(v, cells[k])
  BY <1>2 DEF Steps
<1> HIDE DEF step
<1>5. PICK g : g \in Folding(n, V, [n |-> 0, out |-> <<>>], step)
  BY <1>1, <1>3, <1>4, FoldExists
<1>6. /\ g \in [SUBSET (1 .. n) -> V] /\ g[{}] = [n |-> 0, out |-> <<>>]
      /\ \A s \in SUBSET (1 .. n) : s # {} => g[s] = step[<<Max(s), g[s \ {Max(s)}]>>]
  BY <1>5 DEF Folding
<1>7. \A s \in SUBSET (1 .. n) :
        g[s] = IF s = {} THEN [n |-> 0, out |-> <<>>] ELSE Next1(g[s \ {Max(s)}], cells[Max(s)])
  <2> TAKE s \in SUBSET (1 .. n)
  <2>1. CASE s = {}
    BY <1>6, <2>1
  <2>2. CASE s # {}
    <3>1. Max(s) \in 1 .. n
      BY <1>1, <2>2, MaxOfIndexes
    <3>2. g[s \ {Max(s)}] \in V
      BY <1>6
    <3> QED
      BY <1>4, <1>6, <2>2, <3>1, <3>2
  <2> QED
    BY <2>1, <2>2
<1>8. g = [s \in SUBSET (1 .. n) |->
             IF s = {} THEN [n |-> 0, out |-> <<>>] ELSE Next1(g[s \ {Max(s)}], cells[Max(s)])]
  BY <1>6, <1>7
<1> DEFINE iter[s \in SUBSET (1 .. n)] ==
             IF s = {} THEN [n |-> 0, out |-> <<>>] ELSE Next1(iter[s \ {Max(s)}], cells[Max(s)])
<1>9. iter = [s \in SUBSET (1 .. n) |->
                IF s = {} THEN [n |-> 0, out |-> <<>>] ELSE Next1(iter[s \ {Max(s)}], cells[Max(s)])]
  BY <1>8, Zenon
<1>10. Expanded(cells) = iter[1 .. n].out
  BY <1>1, Zenon DEF Expanded, FoldLeft, MapThenFoldSet, Next1, ExpandStep
<1> HIDE DEF iter
<1>11. iter[{}] = [n |-> 0, out |-> <<>>]
  BY <1>9
<1>12. ASSUME NEW s \in SUBSET (1 .. n), s # {} /\ iter[s \ {Max(s)}] \in V
       PROVE  iter[s] = step[<<Max(s), iter[s \ {Max(s)}]>>]
  <2>1. Max(s) \in 1 .. n
    BY <1>1, <1>12, MaxOfIndexes
  <2>2. iter[s] = Next1(iter[s \ {Max(s)}], cells[Max(s)])
    BY <1>9, <1>12
  <2> QED
    BY <1>4, <1>12, <2>1, <2>2
<1> DEFINE f == [k \in 0 .. n |-> iter[1 .. k]]
<1>13. f \in Traces(n, V, [n |-> 0, out |-> <<>>], step)
  BY <1>1, <1>3, <1>4, <1>11, <1>12, FoldTrace
<1>14. f[n] = iter[1 .. n]
  BY <1>1
<1> HIDE DEF f
<1>15. /\ f \in [0 .. n -> V] /\ f[0] = [n |-> 0, out |-> <<>>]
       /\ \A k \in 1 .. n : f[k] = step[<<k, f[k - 1]>>]
  BY <1>13 DEF Traces, Trace
<1>16. \A k \in 1 .. n : f[k] = Next1(f[k - 1], cells[k])
  <2> TAKE k \in 1 .. n
  <2>1. f[k - 1] \in V
    BY <1>1, <1>15
  <2> QED
    BY <1>4, <1>15, <2>1
<1>17. ExpandTrace(cells, f)
  BY <1>10, <1>14, <1>15, <1>16 DEF ExpandTrace, n, V, Next1
<1> QED
  BY <1>17


\* Expanded, the cells are the plain text they stand for.
LEMMA ExpandedPlain ==
    ASSUME NEW cells \in Seq(Cell), Len(Attached(cells)) <= MaxTokens
    PROVE  Expanded(cells) = Cells(Codes(cells))
<1>1. PICK n : n = Len(cells)
  OBVIOUS
<1>2. n \in Nat /\ n \in 0 .. n
  BY <1>1
<1>3. PICK f : ExpandTrace(cells, f)
  BY ExpandTraceExists
<1>4. /\ f \in [0 .. n -> Expansion] /\ f[0] = [n |-> 0, out |-> <<>>]
      /\ \A k \in 1 .. n : f[k] = ExpandStep(f[k - 1], cells[k])
      /\ Expanded(cells) = f[n].out
  BY <1>1, <1>3 DEF ExpandTrace
<1> DEFINE Right == {k \in 0 .. n : /\ f[k].n = Own(cells, k)
                                    /\ f[k].out = Cells(Codes(SubSeq(cells, 1, k)))}
<1>5. 0 \in Right
  <2>1. f[0].n = 0 /\ f[0].out = <<>>
    BY <1>4
  <2>2. Own(cells, 0) = 0
    <3>1. 0 \in 0 .. Len(cells)
      BY <1>1, <1>2
    <3> QED
      BY <3>1, OwnWithin
  <2>3. PICK p : p = SubSeq(cells, 1, 0)
    OBVIOUS
  <2>4. p = <<>>
    <3>1. 1 \in Int /\ 0 \in Int /\ 0 < 1
      OBVIOUS
    <3> QED
      BY <2>3, <3>1, SubSeqEmpty
  <2>5. PICK u : u = Codes(p)
    OBVIOUS
  <2>6. Len(u) = 0 /\ u \in Seq(Units)
    <3>1. Width(cells, 0) = 0
      BY WidthZero
    <3>2. <<>> \in Seq(Cell)
      OBVIOUS
    <3> QED
      BY <2>3, <2>4, <2>5, <3>1, <3>2, CodesSpread DEF Width
  <2>7. PICK c : c = Cells(u)
    OBVIOUS
  <2>8. c \in Seq(Cell) /\ Len(c) = 0
    BY <2>6, <2>7, PlainOK DEF IsPlain
  <2>9. c = <<>>
    BY <2>8
  <2> QED
    BY <1>2, <2>1, <2>2, <2>3, <2>5, <2>7, <2>9
<1>6. ASSUME NEW k \in 0 .. n - 1, k \in Right PROVE k + 1 \in Right
  <2>1. k + 1 \in 1 .. n /\ (k + 1) - 1 = k /\ k + 1 \in 0 .. n /\ k \in 0 .. n /\ k + 1 \in 1 .. Len(cells)
        /\ k \in 0 .. Len(cells) /\ k + 1 \in 0 .. Len(cells) /\ 0 + 1 = 1 /\ 0 \in Nat
    BY <1>1, <1>2
  <2>2. PICK v : v = f[k]
    OBVIOUS
  <2>3. PICK c : c = cells[k + 1]
    OBVIOUS
  <2>4. PICK p : p = SubSeq(cells, 1, k)
    OBVIOUS
  <2>5. PICK q : q = SubSeq(cells, 1, k + 1)
    OBVIOUS
  <2>6. c \in Cell /\ v \in Expansion /\ v.n = Own(cells, k) /\ v.out = Cells(Codes(p))
    <3>1. v.n = Own(cells, k) /\ v.out = Cells(Codes(p))
      BY <1>6, <2>2, <2>4
    <3>2. c \in Cell /\ v \in Expansion
      BY <1>4, <2>1, <2>2, <2>3
    <3> QED
      BY <3>1, <3>2
  <2>7. p \in Seq(Cell)
    <3>1. SubSeq(cells, 0 + 1, k) \in Seq(Cell)
      BY <2>1, PartOf
    <3> QED
      BY <2>1, <2>4, <3>1
  <2>8. q = p \o <<c>>
    <3>1. SubSeq(cells, 1, k + 1) = SubSeq(cells, 1, (k + 1) - 1) \o <<cells[k + 1]>>
      BY <2>1, SubSeqRecursiveSecond
    <3> QED
      BY <2>1, <2>3, <2>4, <2>5, <3>1
  <2>9. Codes(q) = Codes(p) \o c.code /\ Codes(p) \in Seq(Units) /\ c.code \in Seq(Units)
    <3>1. <<c>> \in Seq(Cell)
      BY <2>6
    <3>2. Codes(q) = Codes(p) \o Codes(<<c>>)
      BY <2>7, <2>8, <3>1, CodesConcat
    <3>3. Codes(<<c>>) = c.code /\ c.code \in Seq(Units)
      BY <2>6, CodesOne, CellOK
    <3>4. Codes(p) \in Seq(Units)
      BY <2>7, CodesSpread
    <3> QED
      BY <3>2, <3>3, <3>4
  <2>10. Cells(Codes(q)) = v.out \o Cells(c.code)
    BY <2>6, <2>9, CellsConcat
  <2>11. f[k + 1] = ExpandStep(v, c)
    <3>1. f[k + 1] = ExpandStep(f[(k + 1) - 1], cells[k + 1])
      BY <1>4, <2>1
    <3> QED
      BY <2>1, <2>2, <2>3, <3>1
  <2>12. Own(cells, k + 1) = Own(cells, k) + (IF c.own THEN 1 ELSE 0) /\ Own(cells, k) \in Nat
    <3>1. Own(cells, k + 1) = Own(cells, (k + 1) - 1) + (IF cells[k + 1].own THEN 1 ELSE 0)
          /\ Own(cells, (k + 1) - 1) \in Nat
      BY <2>1, OwnNext
    <3> QED
      BY <2>1, <2>3, <3>1
  <2>13. CASE c.own
    <3>1. Own(cells, k + 1) <= Len(Attached(cells)) /\ Len(Attached(cells)) \in Nat
      BY <2>1, OwnWithin
    <3>2. v.n < MaxTokens
      BY <2>6, <2>12, <2>13, <3>1, CatalogsAssumption
    <3>3. PICK o : o = v.out \o Cells(c.code)
      OBVIOUS
    <3>4. f[k + 1] = [n |-> v.n + 1, out |-> o]
      BY <2>11, <2>13, <3>2, <3>3 DEF ExpandStep
    <3>5. f[k + 1].n = Own(cells, k + 1) /\ f[k + 1].out = o
      BY <2>6, <2>12, <2>13, <3>4
    <3> QED
      BY <2>1, <2>5, <2>10, <3>3, <3>5
  <2>14. CASE ~c.own
    <3>1. v.n \in Nat /\ v.out \in Seq(Cell) /\ v = [n |-> v.n, out |-> v.out]
      BY <2>6 DEF Expansion
    <3>2. PICK o : o = Append(v.out, c)
      OBVIOUS
    <3>3. f[k + 1] = [v EXCEPT !.out = Append(@, c)]
      BY <2>11, <2>14, Zenon DEF ExpandStep
    <3>4. f[k + 1] = [n |-> v.n, out |-> o]
      BY <3>1, <3>2, <3>3
    <3>5. o = v.out \o <<c>>
      BY <2>6, <3>1, <3>2, AppendIsConcat
    <3>6. <<c>> = Cells(c.code)
      <4>1. PICK e : e = <<c>>
        OBVIOUS
      <4>2. e \in Seq(Cell) /\ Len(e) = 1 /\ e[1] = c
        BY <2>6, <4>1
      <4>3. \A i \in 1 .. Len(e) : ~e[i].own
        BY <2>14, <4>2
      <4>4. e = Cells(Codes(e))
        BY <4>2, <4>3, NoneOwnPlain
      <4>5. Codes(<<c>>) = c.code
        BY <2>6, CodesOne
      <4> QED
        BY <4>1, <4>4, <4>5
    <3>7. f[k + 1].n = Own(cells, k + 1) /\ f[k + 1].out = o
      BY <2>6, <2>12, <2>14, <3>4
    <3>8. o = Cells(Codes(q))
      BY <2>10, <3>5, <3>6
    <3> QED
      BY <2>1, <2>5, <3>7, <3>8
  <2>15. c.own \in BOOLEAN
    BY <2>6, CellOK
  <2> QED
    BY <2>13, <2>14, <2>15
<1> HIDE DEF Right
<1>7. n \in Right
  <2>1. \A k \in 0 .. n : k \in Right
    BY <1>2, <1>5, <1>6, UpTo
  <2> QED
    BY <1>2, <2>1
<1>8. SubSeq(cells, 1, Len(cells)) = cells
  BY SubSeqFull
<1> QED
  BY <1>1, <1>4, <1>7, <1>8 DEF Right

-----------------------------------------------------------------------------
(* Views: what is displayed, and where the selection is.                     *)

\* A selection of displayed units.
LEMMA RangeIn ==
    ASSUME NEW cells \in Seq(Cell), NEW r \in Ranges(cells)
    PROVE  /\ r.loc \in Nat /\ r.len \in Nat /\ r.loc + r.len <= Len(cells) /\ Len(cells) \in Nat
           /\ r.loc \in 0 .. Len(cells) /\ r.loc + r.len \in r.loc .. Len(cells)
           /\ r.loc + r.len \in 0 .. Len(cells) /\ (r.loc + r.len) - r.loc = r.len
           /\ r = [loc |-> r.loc, len |-> r.len]
<1>1. r \in [loc : 0 .. Len(cells), len : 0 .. Len(cells)] /\ r.loc + r.len <= Len(cells)
  BY DEF Ranges
<1>2. r.loc \in 0 .. Len(cells) /\ r.len \in 0 .. Len(cells) /\ r = [loc |-> r.loc, len |-> r.len]
  BY <1>1
<1>3. Len(cells) \in Nat
  OBVIOUS
<1> QED
  BY <1>1, <1>2, <1>3

\* Two places make a selection.
LEMMA RangeMade ==
    ASSUME NEW cells \in Seq(Cell), NEW a \in Nat, NEW b \in Nat, a <= b, b <= Len(cells)
    PROVE  [loc |-> a, len |-> b - a] \in Ranges(cells)
<1>1. Len(cells) \in Nat
  OBVIOUS
<1>2. a \in 0 .. Len(cells) /\ b - a \in 0 .. Len(cells) /\ a + (b - a) <= Len(cells)
  BY <1>1
<1> QED
  BY <1>2 DEF Ranges

\* What a selection stands for: the places its ends have in the plain text.
PlaceOf(cells, r) ==
    /\ RangeOf(cells, r) = [loc |-> Width(cells, r.loc),
                            len |-> Width(cells, r.loc + r.len) - Width(cells, r.loc)]
    /\ Width(cells, r.loc) \in Nat /\ Width(cells, r.loc + r.len) \in Nat
    /\ Width(cells, r.loc) <= Width(cells, r.loc + r.len)
    /\ Width(cells, r.loc + r.len) <= Len(Codes(cells))
    /\ RangeOf(cells, r).loc = Width(cells, r.loc)
    /\ RangeOf(cells, r).loc + RangeOf(cells, r).len = Width(cells, r.loc + r.len)

\* A selection has such a place.
LEMMA PlaceOK ==
    ASSUME NEW cells \in Seq(Cell), NEW r \in Ranges(cells)
    PROVE  PlaceOf(cells, r)
<1>1. PICK a : a = r.loc
  OBVIOUS
<1>2. PICK b : b = r.loc + r.len
  OBVIOUS
<1>3. a \in 0 .. Len(cells) /\ b \in a .. Len(cells)
  BY <1>1, <1>2, RangeIn
<1>4. CutAt(cells, a, b)
  BY <1>3, Cuts
<1>5. PICK w : w = Width(cells, a)
  OBVIOUS
<1>6. PICK x : x = Width(cells, b)
  OBVIOUS
<1>7. w \in Nat /\ x \in Nat /\ w <= x /\ x <= Len(Codes(cells))
  BY <1>4, <1>5, <1>6 DEF CutAt
<1>8. RangeOf(cells, r) = [loc |-> w, len |-> x - w]
  <2>1. RangeOf(cells, r) = [loc |-> Len(Codes(SubSeq(cells, 1, r.loc))),
                             len |-> Len(Codes(SubSeq(cells, 1, r.loc + r.len)))
                                       - Len(Codes(SubSeq(cells, 1, r.loc)))]
    BY Zenon DEF RangeOf
  <2>2. w = Len(Codes(SubSeq(cells, 1, r.loc))) /\ x = Len(Codes(SubSeq(cells, 1, r.loc + r.len)))
    BY <1>1, <1>2, <1>5, <1>6 DEF Width
  <2> QED
    BY <2>1, <2>2
<1>9. RangeOf(cells, r).loc = w /\ RangeOf(cells, r).len = x - w /\ w + (x - w) = x
  BY <1>7, <1>8
<1> QED
  BY <1>1, <1>2, <1>5, <1>6, <1>7, <1>8, <1>9 DEF PlaceOf

\* In plain text a selection is its own place.
LEMMA PlainPlace ==
    ASSUME NEW t \in Seq(Units), NEW r \in Ranges(Cells(t))
    PROVE  RangeOf(Cells(t), r) = r
<1>1. PICK c : c = Cells(t)
  OBVIOUS
<1>2. c \in Seq(Cell) /\ Len(c) = Len(t) /\ \A k \in 0 .. Len(t) : Width(c, k) = k
  BY <1>1, PlainOK DEF IsPlain
<1>3. r \in Ranges(c)
  BY <1>1
<1>4. /\ r.loc \in Nat /\ r.len \in Nat /\ r.loc \in 0 .. Len(c) /\ r.loc + r.len \in 0 .. Len(c)
      /\ (r.loc + r.len) - r.loc = r.len /\ r = [loc |-> r.loc, len |-> r.len]
  BY <1>2, <1>3, RangeIn
<1>5. Width(c, r.loc) = r.loc /\ Width(c, r.loc + r.len) = r.loc + r.len
  BY <1>2, <1>4
<1>6. RangeOf(c, r) = [loc |-> Width(c, r.loc), len |-> Width(c, r.loc + r.len) - Width(c, r.loc)]
  BY <1>2, <1>3, PlaceOK DEF PlaceOf
<1>7. RangeOf(c, r) = [loc |-> r.loc, len |-> r.len]
  BY <1>4, <1>5, <1>6
<1> QED
  BY <1>1, <1>4, <1>7

\* A place of the plain text is a selection of the plain cells.
LEMMA PlaceIn ==
    ASSUME NEW cells \in Seq(Cell), NEW r \in Ranges(cells)
    PROVE  RangeOf(cells, r) \in Ranges(Cells(Codes(cells)))
<1>1. PICK t : t = Codes(cells)
  OBVIOUS
<1>2. t \in Seq(Units)
  BY <1>1, CodesSpread
<1>3. PICK c : c = Cells(t)
  OBVIOUS
<1>4. c \in Seq(Cell) /\ Len(c) = Len(t)
  BY <1>2, <1>3, PlainOK DEF IsPlain
<1>5. PICK w : w = Width(cells, r.loc)
  OBVIOUS
<1>6. PICK x : x = Width(cells, r.loc + r.len)
  OBVIOUS
<1>7. w \in Nat /\ x \in Nat /\ w <= x /\ x <= Len(c) /\ RangeOf(cells, r) = [loc |-> w, len |-> x - w]
  <2>1. PlaceOf(cells, r)
    BY PlaceOK
  <2> QED
    BY <1>1, <1>4, <1>5, <1>6, <2>1 DEF PlaceOf
<1>8. [loc |-> w, len |-> x - w] \in Ranges(c)
  BY <1>4, <1>7, RangeMade
<1> QED
  BY <1>1, <1>3, <1>7, <1>8

\* expanded_copy finds the place of a selection.
LEMMA PlainRangeOK ==
    ASSUME NEW cells \in Seq(Cell), Len(Attached(cells)) <= MaxTokens, NEW r \in Ranges(cells)
    PROVE  PlainRange(r, SpansOf(cells)) = RangeOf(cells, r)
<1>1. PICK s : s = SpansOf(cells)
  OBVIOUS
<1>2. \A k \in 0 .. Len(cells) : PlainPosition(k, s) = Width(cells, k)
  BY <1>1, SpansLocate DEF Locates
<1>3. PlainPosition(r.loc, s) = Width(cells, r.loc)
      /\ PlainPosition(r.loc + r.len, s) = Width(cells, r.loc + r.len)
  BY <1>2, RangeIn
<1>4. PlainRange(r, s) = [loc |-> PlainPosition(r.loc, s),
                          len |-> PlainPosition(r.loc + r.len, s) - PlainPosition(r.loc, s)]
  BY Zenon DEF PlainRange
<1>5. RangeOf(cells, r) = [loc |-> Width(cells, r.loc),
                           len |-> Width(cells, r.loc + r.len) - Width(cells, r.loc)]
  BY PlaceOK DEF PlaceOf
<1> QED
  BY <1>1, <1>3, <1>4, <1>5

\* A view of the text t.
ViewOf(v, t) ==
    /\ v.cells \in Seq(Cell) /\ Len(Attached(v.cells)) <= MaxTokens
    /\ v.sel \in Ranges(v.cells) /\ Codes(v.cells) = t

\* A selection inside a text is not moved into it.
LEMMA ClampInside ==
    ASSUME NEW cells \in Seq(Cell), NEW r \in Ranges(cells)
    PROVE  Clamp(r, Len(cells)) = r
<1>1. /\ r.loc \in Nat /\ r.len \in Nat /\ r.loc + r.len <= Len(cells) /\ Len(cells) \in Nat
      /\ r = [loc |-> r.loc, len |-> r.len]
  BY RangeIn
<1>2. ~(r.loc > Len(cells)) /\ ~(r.len > Len(cells) - r.loc)
  BY <1>1
<1>3. Clamp(r, Len(cells)) = [loc |-> r.loc, len |-> r.len]
  BY <1>2, Zenon DEF Clamp
<1> QED
  BY <1>1, <1>3

\* Expanding a view leaves the text and the place of the selection, and shows
\* the plain text.
LEMMA ExpandOK ==
    ASSUME NEW v, NEW t, ViewOf(v, t)
    PROVE  /\ ViewOf(ExpandView(v), t) /\ ExpandView(v).cells = Cells(t) /\ t \in Seq(Units)
           /\ RangeOf(ExpandView(v).cells, ExpandView(v).sel) = RangeOf(v.cells, v.sel)
<1>1. /\ v.cells \in Seq(Cell) /\ Len(Attached(v.cells)) <= MaxTokens
      /\ v.sel \in Ranges(v.cells) /\ Codes(v.cells) = t
  BY DEF ViewOf
<1>2. t \in Seq(Units)
  BY <1>1, CodesSpread
<1>3. PICK s : s = SpansOf(v.cells)
  OBVIOUS
<1>4. PICK c : c = Cells(t)
  OBVIOUS
<1>5. PICK p : p = RangeOf(v.cells, v.sel)
  OBVIOUS
<1>6. c \in Seq(Cell) /\ Len(Attached(c)) = 0 /\ Codes(c) = t
  BY <1>2, <1>4, PlainOK DEF IsPlain
<1>7. p \in Ranges(c) /\ RangeOf(c, p) = p
  <2>1. p \in Ranges(c)
    BY <1>1, <1>4, <1>5, PlaceIn
  <2> QED
    BY <1>2, <1>4, <2>1, PlainPlace
<1>8. ExpandView(v) = ExpandWith(v, s, c)
  <2>1. Expanded(v.cells) = c
    BY <1>1, <1>4, ExpandedPlain
  <2> QED
    BY <1>3, <2>1 DEF ExpandView
<1>9. CASE s = <<>>
  <2>1. ExpandView(v) = v
    BY <1>8, <1>9 DEF ExpandWith
  <2>2. Locates(v.cells, s)
    BY <1>1, <1>3, SpansLocate
  <2>3. \A i \in 1 .. Len(v.cells) : ~v.cells[i].own
    BY <1>9, <2>2 DEF Locates
  <2>4. v.cells = c
    BY <1>1, <1>4, <2>3, NoneOwnPlain
  <2> QED
    BY <1>2, <1>4, <2>1, <2>4
<1>10. CASE s # <<>>
  <2>1. PlainRange(v.sel, s) = p
    BY <1>1, <1>3, <1>5, PlainRangeOK
  <2>2. Clamp(p, Len(c)) = p
    BY <1>6, <1>7, ClampInside
  <2>3. ExpandView(v) = [cells |-> c, sel |-> p]
    BY <1>8, <1>10, <2>1, <2>2 DEF ExpandWith
  <2>4. ExpandView(v).cells = c /\ ExpandView(v).sel = p
    BY <2>3
  <2>5. Len(Attached(c)) <= MaxTokens
    BY <1>6, CatalogsAssumption
  <2>6. ViewOf(ExpandView(v), t)
    BY <1>6, <1>7, <2>4, <2>5 DEF ViewOf
  <2> QED
    BY <1>2, <1>4, <1>5, <1>7, <2>4, <2>6
<1> QED
  BY <1>9, <1>10

\* What UIKit's editing does to a view of the text t.
EditedText(cells, t, r, new) ==
    LET y == Splice(cells, r.loc, r.len, Cells(new))
        place == RangeOf(cells, r)
        after == [loc |-> r.loc + Len(new), len |-> 0]
    IN  /\ ViewOf([cells |-> y, sel |-> after], Splice(t, place.loc, place.len, new))
        /\ RangeOf(y, after) = [loc |-> place.loc + Len(new), len |-> 0]

\* Editing the cells edits the text they stand for.
LEMMA EditOK ==
    ASSUME NEW cells \in Seq(Cell), Len(Attached(cells)) <= MaxTokens, NEW r \in Ranges(cells),
           NEW new \in Seq(Units)
    PROVE  EditedText(cells, Codes(cells), r, new)
<1>1. PICK a : a = r.loc
  OBVIOUS
<1>2. PICK b : b = r.loc + r.len
  OBVIOUS
<1>3. /\ a \in Nat /\ b \in Nat /\ a <= b /\ b <= Len(cells) /\ Len(cells) \in Nat
      /\ a \in 0 .. Len(cells) /\ b \in a .. Len(cells) /\ b - a = r.len
  BY <1>1, <1>2, RangeIn
<1>4. PICK c : c = Cells(new)
  OBVIOUS
<1>5. c \in Seq(Cell) /\ Len(c) = Len(new) /\ Codes(c) = new /\ Len(Attached(c)) = 0 /\ Len(new) \in Nat
  BY <1>4, PlainOK DEF IsPlain
<1>6. PICK y : y = Splice(cells, a, b - a, c)
  OBVIOUS
<1>7. Replaced(cells, a, b, c, y)
  BY <1>3, <1>5, <1>6, SpliceOK
<1>8. PICK p : p = RangeOf(cells, r)
  OBVIOUS
<1>9. p.loc = Width(cells, a) /\ p.loc + p.len = Width(cells, b)
      /\ p = [loc |-> Width(cells, a), len |-> Width(cells, b) - Width(cells, a)]
  BY <1>1, <1>2, <1>8, PlaceOK DEF PlaceOf
<1>10. p.len = Width(cells, b) - Width(cells, a)
  BY <1>9
<1>11. y \in Seq(Cell) /\ Len(y) = Len(cells) - (b - a) + Len(c)
       /\ Codes(y) = Splice(Codes(cells), p.loc, p.len, new)
       /\ Len(Attached(y)) <= Len(Attached(cells)) + Len(Attached(c))
       /\ Width(y, a + Len(c)) = Width(cells, a) + Len(Codes(c))
  BY <1>5, <1>7, <1>9, <1>10 DEF Replaced
<1>12. Len(Attached(y)) <= MaxTokens
  <2>1. Attached(cells) \in Seq(Cell) /\ Attached(y) \in Seq(Cell)
    BY <1>11, CodesSpread
  <2>2. Len(Attached(cells)) \in Nat /\ Len(Attached(y)) \in Nat
    BY <2>1
  <2> QED
    BY <1>5, <1>11, <2>2, CatalogsAssumption
<1>13. PICK e : e = a + Len(new)
  OBVIOUS
<1>14. PICK q : q = [loc |-> e, len |-> 0]
  OBVIOUS
<1>15. q \in Ranges(y)
  <2>1. e \in Nat /\ e <= e /\ e <= Len(y) /\ e - e = 0
    BY <1>3, <1>5, <1>11, <1>13
  <2>2. [loc |-> e, len |-> e - e] \in Ranges(y)
    BY <1>11, <2>1, RangeMade
  <2> QED
    BY <1>14, <2>1, <2>2
<1>16. RangeOf(y, q) = [loc |-> p.loc + Len(new), len |-> 0]
  <2>1. q.loc = e /\ q.len = 0 /\ e + 0 = e
    BY <1>3, <1>5, <1>13, <1>14
  <2>2. PlaceOf(y, q)
    BY <1>11, <1>15, PlaceOK
  <2>3. RangeOf(y, q) = [loc |-> Width(y, e), len |-> Width(y, e) - Width(y, e)] /\ Width(y, e) \in Nat
    BY <2>1, <2>2 DEF PlaceOf
  <2>4. Width(y, e) = p.loc + Len(new)
    BY <1>5, <1>9, <1>11, <1>13
  <2>5. Width(y, e) - Width(y, e) = 0
    BY <2>3
  <2> QED
    BY <2>3, <2>4, <2>5
<1>17. PICK w : w = [cells |-> y, sel |-> q]
  OBVIOUS
<1>18. ViewOf(w, Splice(Codes(cells), p.loc, p.len, new))
  <2>1. w.cells = y /\ w.sel = q
    BY <1>17
  <2> QED
    BY <1>11, <1>12, <1>15, <2>1 DEF ViewOf
<1>19. Splice(cells, r.loc, r.len, Cells(new)) = y
  BY <1>1, <1>3, <1>4, <1>6
<1> QED
  BY <1>1, <1>8, <1>13, <1>14, <1>16, <1>17, <1>18, <1>19 DEF EditedText

-----------------------------------------------------------------------------
(* The words that are rendered.                                              *)

WordSpan == [start : Nat, end : Nat]

\* A word lies in the text.
InText(text, w) == w \in WordSpan /\ w.start < w.end /\ w.end <= Len(text)

\* Words of the text, one behind the other.
Ordered(text, ws) ==
    /\ ws \in Seq(WordSpan)
    /\ \A i \in 1 .. Len(ws) : InText(text, ws[i])
    /\ \A i, j \in 1 .. Len(ws) : i < j => ws[i].end <= ws[j].start

\* One word more, behind the others.
LEMMA OrderedNext ==
    ASSUME NEW text, NEW ws, Ordered(text, ws), NEW w, InText(text, w),
           \A i \in 1 .. Len(ws) : ws[i].end <= w.start
    PROVE  /\ Ordered(text, ws \o <<w>>) /\ Len(ws \o <<w>>) = Len(ws) + 1 /\ Len(ws) \in Nat
           /\ \A i \in 1 .. Len(ws) : (ws \o <<w>>)[i] = ws[i]
           /\ (ws \o <<w>>)[Len(ws) + 1] = w
<1>1. ws \in Seq(WordSpan) /\ w \in WordSpan
  BY DEF Ordered, InText
<1>2. PICK n : n = Len(ws)
  OBVIOUS
<1>3. PICK q : q = ws \o <<w>>
  OBVIOUS
<1>4. q = Append(ws, w)
  BY <1>1, <1>3, AppendIsConcat
<1>5. n \in Nat /\ q \in Seq(WordSpan) /\ Len(q) = n + 1 /\ (\A i \in 1 .. n : q[i] = ws[i]) /\ q[n + 1] = w
  BY <1>1, <1>2, <1>4, AppendProperties
<1>6. \A i \in 1 .. n + 1 : i \in 1 .. n \/ i = n + 1
  BY <1>5
<1>7. \A i \in 1 .. n + 1 : InText(text, q[i])
  BY <1>2, <1>5, <1>6 DEF Ordered
<1>8. ASSUME NEW i \in 1 .. n + 1, NEW j \in 1 .. n + 1, i < j PROVE q[i].end <= q[j].start
  <2>1. i \in 1 .. n
    BY <1>5, <1>8
  <2>2. CASE j = n + 1
    BY <1>2, <1>5, <2>1, <2>2
  <2>3. CASE j # n + 1
    <3>1. j \in 1 .. n
      BY <1>6, <2>3
    <3>2. ws[i].end <= ws[j].start
      BY <1>2, <1>8, <2>1, <3>1 DEF Ordered
    <3> QED
      BY <1>5, <2>1, <3>1, <3>2
  <2> QED
    BY <2>2, <2>3
<1>9. Ordered(text, q)
  BY <1>5, <1>7, <1>8 DEF Ordered
<1> QED
  BY <1>2, <1>3, <1>5, <1>9

\* A word starts where it is found and ends before the next space.
IsWordFrom(text, i, w) ==
    /\ InText(text, w) /\ w.start = i - 1 /\ ~InWord(text, w.end + 1)
    /\ \A k \in i .. w.end : InWord(text, k)

\* A character of a word starts one.
LEMMA WordFromOK ==
    ASSUME NEW text \in Seq(Units), NEW i \in 1 .. Len(text), InWord(text, i)
    PROVE  IsWordFrom(text, i, WordFrom(text, i))
<1>1. PICK n : n = Len(text)
  OBVIOUS
<1>2. n \in Nat /\ DOMAIN text = 1 .. n /\ i \in 1 .. n
  BY <1>1
<1> DEFINE Ends == {e \in i .. n : ~InWord(text, e + 1)}
<1>3. Ends \in SUBSET Nat /\ Ends # {}
  <2>1. n \in i .. n
    BY <1>2
  <2>2. ~InWord(text, n + 1)
    <3>1. n + 1 \notin 1 .. n
      BY <1>2
    <3> QED
      BY <1>2, <3>1 DEF InWord
  <2>3. n \in Ends
    BY <2>1, <2>2
  <2>4. \A e \in i .. n : e \in Nat
    BY <1>2
  <2> QED
    BY <2>3, <2>4
<1>4. PICK m \in Ends : \A e \in Ends : m <= e
  BY <1>3, Least
<1>5. m \in i .. n /\ ~InWord(text, m + 1)
  BY <1>4
<1>6. \A k \in i .. m : InWord(text, k)
  <2> SUFFICES ASSUME NEW k \in i .. m, ~InWord(text, k) PROVE FALSE
    OBVIOUS
  <2>1. k # i
    OBVIOUS
  <2>2. k - 1 \in i .. n /\ (k - 1) + 1 = k /\ ~(m <= k - 1)
    BY <1>2, <1>5, <2>1
  <2>3. k - 1 \in Ends
    BY <2>2
  <2> QED
    BY <1>4, <2>2, <2>3
<1> HIDE DEF Ends
<1>7. PICK e : e = CHOOSE d \in i .. Len(text) : /\ ~InWord(text, d + 1)
                                               /\ \A k \in i .. d : InWord(text, k)
  OBVIOUS
<1>8. e \in i .. n /\ ~InWord(text, e + 1) /\ \A k \in i .. e : InWord(text, k)
  <2>1. \E d \in i .. Len(text) : ~InWord(text, d + 1) /\ \A k \in i .. d : InWord(text, k)
    BY <1>1, <1>5, <1>6
  <2> QED
    BY <1>1, <1>7, <2>1, Zenon
<1>9. PICK w : w = [start |-> i - 1, end |-> e]
  OBVIOUS
<1>10. WordFrom(text, i) = w
  BY <1>7, <1>9, Zenon DEF WordFrom
<1>11. w.start = i - 1 /\ w.end = e
  BY <1>9
<1>12. InText(text, w)
  <2>1. i - 1 \in Nat /\ e \in Nat /\ i - 1 < e /\ e <= n
    BY <1>2, <1>8
  <2> QED
    BY <1>1, <1>9, <1>11, <2>1 DEF InText, WordSpan
<1> QED
  BY <1>8, <1>10, <1>11, <1>12 DEF IsWordFrom

\* The words that start among the first k characters.
FoundUpTo(text, k, ws) ==
    /\ Ordered(text, ws)
    /\ \A i \in 1 .. Len(ws) : /\ ws[i].start < k
                               /\ \A t \in ws[i].start + 1 .. ws[i].end : InWord(text, t)

\* The words of a text stand one behind the other.
LEMMA WordsOrdered ==
    ASSUME NEW text \in Seq(Units)
    PROVE  Ordered(text, WordsOf(text))
<1>1. PICK n : n = Len(text)
  OBVIOUS
<1>2. n \in Nat /\ DOMAIN text = 1 .. n
  BY <1>1
<1>3. PICK parts : parts = [i \in DOMAIN text |->
           IF InWord(text, i) /\ ~InWord(text, i - 1) THEN <<WordFrom(text, i)>> ELSE <<>>]
  OBVIOUS
<1>4. WordsOf(text) = FlattenSeq(parts)
  BY <1>3 DEF WordsOf
<1>5. \A i \in 1 .. n : InWord(text, i) => IsWordFrom(text, i, WordFrom(text, i))
  BY <1>1, WordFromOK
<1>6. parts \in Seq(Seq(WordSpan)) /\ Len(parts) = n
      /\ \A i \in 1 .. n : parts[i] = IF InWord(text, i) /\ ~InWord(text, i - 1)
                                      THEN <<WordFrom(text, i)>> ELSE <<>>
  <2>1. ASSUME NEW i \in 1 .. n
        PROVE  (IF InWord(text, i) /\ ~InWord(text, i - 1) THEN <<WordFrom(text, i)>> ELSE <<>>)
                 \in Seq(WordSpan)
    <3>1. CASE InWord(text, i) /\ ~InWord(text, i - 1)
      <4>1. WordFrom(text, i) \in WordSpan
        BY <1>5, <3>1 DEF IsWordFrom, InText
      <4>2. <<WordFrom(text, i)>> \in Seq(WordSpan)
        BY <4>1
      <4> QED
        BY <3>1, <4>2
    <3>2. CASE ~(InWord(text, i) /\ ~InWord(text, i - 1))
      <4>1. <<>> \in Seq(WordSpan)
        OBVIOUS
      <4> QED
        BY <3>2, <4>1
    <3> QED
      BY <3>1, <3>2
  <2>2. PICK S : S = Seq(WordSpan)
    OBVIOUS
  <2>3. \A i \in 1 .. n : parts[i] \in S
    BY <1>2, <1>3, <2>1, <2>2
  <2>4. parts \in Seq(S) /\ Len(parts) = n
    <3>1. DOMAIN parts = 1 .. n /\ parts = [i \in 1 .. n |-> parts[i]]
      BY <1>2, <1>3
    <3>2. parts \in [1 .. n -> S]
      BY <2>3, <3>1
    <3> QED
      BY <1>2, <3>2
  <2> QED
    BY <1>2, <1>3, <2>2, <2>4
<1>7. PICK f : Joining(parts, WordSpan, f)
  BY <1>6, FlattenTrace
<1>8. /\ f[0] = <<>> /\ FlattenSeq(parts) = f[n]
      /\ \A k \in 1 .. n : f[k] = f[k - 1] \o parts[k]
  BY <1>6, <1>7 DEF Joining
<1> DEFINE Right == {k \in 0 .. n : FoundUpTo(text, k, f[k])}
<1>9. 0 \in Right
  <2>1. PICK ws : ws = f[0]
    OBVIOUS
  <2>2. ws = <<>> /\ ws \in Seq(WordSpan) /\ Len(ws) = 0
    BY <1>8, <2>1
  <2>3. \A i \in 1 .. 0 : FALSE
    OBVIOUS
  <2>4. FoundUpTo(text, 0, ws)
    BY <2>2, <2>3 DEF FoundUpTo, Ordered
  <2> QED
    BY <1>2, <2>1, <2>4
<1>10. ASSUME NEW k \in 0 .. n - 1, k \in Right PROVE k + 1 \in Right
  <2>1. k + 1 \in 1 .. n /\ (k + 1) - 1 = k /\ k + 1 \in 0 .. n /\ k \in Nat
    BY <1>2
  <2>2. PICK ws : ws = f[k]
    OBVIOUS
  <2>3. FoundUpTo(text, k, ws)
    BY <1>10, <2>2
  <2>4. f[k + 1] = ws \o parts[k + 1]
    <3>1. f[k + 1] = f[(k + 1) - 1] \o parts[k + 1]
      BY <1>8, <2>1
    <3> QED
      BY <2>1, <2>2, <3>1
  <2>5. Ordered(text, ws) /\ ws \in Seq(WordSpan)
    BY <2>3 DEF FoundUpTo, Ordered
  <2>6. \A i \in 1 .. Len(ws) : ws[i].start \in Nat /\ ws[i].end \in Nat
    <3> TAKE i \in 1 .. Len(ws)
    <3>1. ws[i] \in WordSpan
      BY <2>5
    <3> QED
      BY <3>1 DEF WordSpan
  <2>7. CASE InWord(text, k + 1) /\ ~InWord(text, k)
    <3>1. PICK w : w = WordFrom(text, k + 1)
      OBVIOUS
    <3>2. IsWordFrom(text, k + 1, w)
      BY <1>5, <2>1, <2>7, <3>1
    <3>3. InText(text, w) /\ w.start = k /\ \A t \in k + 1 .. w.end : InWord(text, t)
      BY <2>1, <3>2 DEF IsWordFrom
    <3>4. f[k + 1] = ws \o <<w>>
      <4>1. parts[k + 1] = <<w>>
        BY <1>6, <2>1, <2>7, <3>1
      <4> QED
        BY <2>4, <4>1
    <3>5. \A i \in 1 .. Len(ws) : ws[i].end <= w.start
      <4> SUFFICES ASSUME NEW i \in 1 .. Len(ws), ~(ws[i].end <= w.start) PROVE FALSE
        OBVIOUS
      <4>1. ws[i].start < k /\ \A t \in ws[i].start + 1 .. ws[i].end : InWord(text, t)
        BY <2>3 DEF FoundUpTo
      <4>2. k \in ws[i].start + 1 .. ws[i].end
        BY <2>1, <2>6, <3>3, <4>1
      <4>3. InWord(text, k)
        BY <4>1, <4>2
      <4> QED
        BY <2>7, <4>3
    <3>6. PICK q : q = ws \o <<w>>
      OBVIOUS
    <3>7. /\ Ordered(text, q) /\ Len(q) = Len(ws) + 1 /\ Len(ws) \in Nat
          /\ \A i \in 1 .. Len(ws) : q[i] = ws[i]
          /\ q[Len(ws) + 1] = w
      BY <2>5, <3>3, <3>5, <3>6, OrderedNext
    <3>8. ASSUME NEW i \in 1 .. Len(q)
          PROVE  q[i].start < k + 1 /\ \A t \in q[i].start + 1 .. q[i].end : InWord(text, t)
      <4>1. CASE i = Len(ws) + 1
        <5>1. q[i] = w /\ k < k + 1
          BY <2>1, <3>7, <4>1
        <5> QED
          BY <3>3, <5>1
      <4>2. CASE i # Len(ws) + 1
        <5>1. i \in 1 .. Len(ws)
          BY <3>7, <4>2
        <5>2. ws[i].start < k /\ \A t \in ws[i].start + 1 .. ws[i].end : InWord(text, t)
          BY <2>3, <5>1 DEF FoundUpTo
        <5>3. ws[i].start < k + 1
          BY <2>1, <2>6, <5>1, <5>2
        <5> QED
          BY <3>7, <5>1, <5>2, <5>3
      <4> QED
        BY <4>1, <4>2
    <3>9. FoundUpTo(text, k + 1, q)
      BY <3>7, <3>8 DEF FoundUpTo
    <3> QED
      BY <2>1, <3>4, <3>6, <3>9
  <2>8. CASE ~(InWord(text, k + 1) /\ ~InWord(text, k))
    <3>1. parts[k + 1] = <<>>
      BY <1>6, <2>1, <2>8
    <3>2. f[k + 1] = ws
      BY <2>4, <2>5, <3>1, ConcatEmptySeq
    <3>3. \A i \in 1 .. Len(ws) : ws[i].start < k + 1
      <4> TAKE i \in 1 .. Len(ws)
      <4>1. ws[i].start < k
        BY <2>3 DEF FoundUpTo
      <4> QED
        BY <2>1, <2>6, <4>1
    <3>4. FoundUpTo(text, k + 1, ws)
      BY <2>3, <3>3 DEF FoundUpTo
    <3> QED
      BY <2>1, <3>2, <3>4
  <2> QED
    BY <2>7, <2>8
<1> HIDE DEF Right
<1>11. n \in Right
  <2>1. \A k \in 0 .. n : k \in Right
    BY <1>2, <1>9, <1>10, UpTo
  <2>2. n \in 0 .. n
    BY <1>2
  <2> QED
    BY <2>1, <2>2
<1>12. FoundUpTo(text, n, f[n])
  BY <1>11 DEF Right
<1> QED
  BY <1>4, <1>8, <1>12 DEF FoundUpTo

\* Those that are previewed, of the first k.
ChosenUpTo(text, old, r, names, focus, words, k, ws) ==
    /\ Ordered(text, ws)
    /\ \A i \in 1 .. Len(ws) : Previews(text, old, r, names, focus, ws[i])
    /\ \A i \in 1 .. Len(ws), j \in k + 1 .. Len(words) : ws[i].end <= words[j].start

\* Previewed words stand one behind the other.
LEMMA PreviewedOrdered ==
    ASSUME NEW text \in Seq(Units), NEW old, NEW r, NEW names, NEW focus
    PROVE  /\ Ordered(text, Previewed(text, old, r, names, focus))
           /\ \A i \in 1 .. Len(Previewed(text, old, r, names, focus)) :
                 Previews(text, old, r, names, focus, Previewed(text, old, r, names, focus)[i])
<1>1. PICK words : words = WordsOf(text)
  OBVIOUS
<1>2. Ordered(text, words) /\ words \in Seq(WordSpan)
  <2>1. Ordered(text, words)
    BY <1>1, WordsOrdered
  <2> QED
    BY <2>1 DEF Ordered
<1>3. PICK n : n = Len(words)
  OBVIOUS
<1>4. n \in Nat /\ DOMAIN words = 1 .. n
  BY <1>2, <1>3
<1> DEFINE Chosen(w) == Previews(text, old, r, names, focus, w)
<1>5. PICK parts : parts = [i \in DOMAIN words |-> IF Chosen(words[i]) THEN <<words[i]>> ELSE <<>>]
  OBVIOUS
<1>6. Previewed(text, old, r, names, focus) = FlattenSeq(parts)
  BY <1>1, <1>5, Zenon DEF Previewed
<1> HIDE DEF Chosen
<1>7. parts \in Seq(Seq(WordSpan)) /\ Len(parts) = n
      /\ \A i \in 1 .. n : parts[i] = IF Chosen(words[i]) THEN <<words[i]>> ELSE <<>>
  <2>1. PICK S : S = Seq(WordSpan)
    OBVIOUS
  <2>2. \A i \in 1 .. n : <<words[i]>> \in S /\ <<>> \in S
    <3> TAKE i \in 1 .. n
    <3>1. words[i] \in WordSpan
      BY <1>2, <1>3
    <3> QED
      BY <2>1, <3>1
  <2>3. \A i \in 1 .. n : parts[i] = IF Chosen(words[i]) THEN <<words[i]>> ELSE <<>>
    BY <1>4, <1>5
  <2>4. \A i \in 1 .. n : parts[i] \in S
    BY <2>2, <2>3
  <2>5. DOMAIN parts = 1 .. n /\ parts = [i \in 1 .. n |-> parts[i]]
    BY <1>4, <1>5
  <2>6. parts \in [1 .. n -> S]
    BY <2>4, <2>5
  <2>7. parts \in Seq(S) /\ Len(parts) = n
    BY <1>4, <2>6
  <2> QED
    BY <2>1, <2>3, <2>7
<1>8. PICK f : Joining(parts, WordSpan, f)
  BY <1>7, FlattenTrace
<1>9. /\ f[0] = <<>> /\ FlattenSeq(parts) = f[n]
      /\ \A k \in 1 .. n : f[k] = f[k - 1] \o parts[k]
  BY <1>7, <1>8 DEF Joining
<1> DEFINE Good(k, ws) == ChosenUpTo(text, old, r, names, focus, words, k, ws)
           Right == {k \in 0 .. n : Good(k, f[k])}
<1>10. 0 \in Right
  <2>1. PICK ws : ws = f[0]
    OBVIOUS
  <2>2. ws = <<>> /\ ws \in Seq(WordSpan) /\ Len(ws) = 0
    BY <1>9, <2>1
  <2>3. \A i \in 1 .. 0 : FALSE
    OBVIOUS
  <2>4. Good(0, ws)
    BY <2>2, <2>3 DEF ChosenUpTo, Ordered
  <2> QED
    BY <1>4, <2>1, <2>4
<1>11. ASSUME NEW k \in 0 .. n - 1, k \in Right PROVE k + 1 \in Right
  <2>1. k + 1 \in 1 .. n /\ (k + 1) - 1 = k /\ k + 1 \in 0 .. n /\ k \in Nat
        /\ k + 1 \in k + 1 .. n /\ \A j \in (k + 1) + 1 .. n : j \in k + 1 .. n
    BY <1>4
  <2>2. PICK ws : ws = f[k]
    OBVIOUS
  <2>3. /\ Ordered(text, ws) /\ ws \in Seq(WordSpan)
        /\ \A i \in 1 .. Len(ws) : Chosen(ws[i])
        /\ \A i \in 1 .. Len(ws), j \in k + 1 .. n : ws[i].end <= words[j].start
    <3>1. Good(k, ws)
      BY <1>11, <2>2
    <3> QED
      BY <1>3, <3>1 DEF ChosenUpTo, Ordered, Chosen
  <2>4. f[k + 1] = ws \o parts[k + 1]
    <3>1. f[k + 1] = f[(k + 1) - 1] \o parts[k + 1]
      BY <1>9, <2>1
    <3> QED
      BY <2>1, <2>2, <3>1
  <2>5. PICK w : w = words[k + 1]
    OBVIOUS
  <2>6. CASE Chosen(w)
    <3>1. PICK q : q = ws \o <<w>>
      OBVIOUS
    <3>2. f[k + 1] = q
      <4>1. parts[k + 1] = <<w>>
        BY <1>7, <2>1, <2>5, <2>6
      <4> QED
        BY <2>4, <3>1, <4>1
    <3>3. InText(text, w)
      BY <1>2, <1>3, <2>1, <2>5 DEF Ordered
    <3>4. \A i \in 1 .. Len(ws) : ws[i].end <= w.start
      BY <2>1, <2>3, <2>5
    <3>5. /\ Ordered(text, q) /\ Len(q) = Len(ws) + 1 /\ Len(ws) \in Nat
          /\ \A i \in 1 .. Len(ws) : q[i] = ws[i]
          /\ q[Len(ws) + 1] = w
      BY <2>3, <3>1, <3>3, <3>4, OrderedNext
    <3>6. \A i \in 1 .. Len(q) : i \in 1 .. Len(ws) \/ i = Len(ws) + 1
      BY <3>5
    <3>7. \A i \in 1 .. Len(q) : Chosen(q[i])
      BY <2>3, <2>6, <3>5, <3>6
    <3>8. ASSUME NEW i \in 1 .. Len(q), NEW j \in (k + 1) + 1 .. n PROVE q[i].end <= words[j].start
      <4>1. CASE i = Len(ws) + 1
        <5>1. j \in 1 .. n /\ k + 1 < j
          BY <1>4, <2>1
        <5>2. words[k + 1].end <= words[j].start
          BY <1>2, <1>3, <2>1, <5>1 DEF Ordered
        <5> QED
          BY <2>5, <3>5, <4>1, <5>2
      <4>2. CASE i # Len(ws) + 1
        <5>1. i \in 1 .. Len(ws) /\ j \in k + 1 .. n
          BY <2>1, <3>6, <4>2
        <5> QED
          BY <2>3, <3>5, <5>1
      <4> QED
        BY <4>1, <4>2
    <3>9. Good(k + 1, q)
      BY <1>3, <3>5, <3>7, <3>8 DEF ChosenUpTo, Chosen
    <3> QED
      BY <2>1, <3>2, <3>9
  <2>7. CASE ~Chosen(w)
    <3>1. parts[k + 1] = <<>>
      BY <1>7, <2>1, <2>5, <2>7
    <3>2. f[k + 1] = ws
      BY <2>3, <2>4, <3>1, ConcatEmptySeq
    <3>3. \A i \in 1 .. Len(ws), j \in (k + 1) + 1 .. n : ws[i].end <= words[j].start
      BY <2>1, <2>3
    <3>4. Good(k + 1, ws)
      BY <1>3, <2>3, <3>3 DEF ChosenUpTo, Chosen
    <3> QED
      BY <2>1, <3>2, <3>4
  <2> QED
    BY <2>6, <2>7
<1> HIDE DEF Right
<1>12. n \in Right
  <2>1. \A k \in 0 .. n : k \in Right
    BY <1>4, <1>10, <1>11, UpTo
  <2>2. n \in 0 .. n
    BY <1>4
  <2> QED
    BY <2>1, <2>2
<1>13. Good(n, f[n])
  BY <1>12 DEF Right
<1> QED
  BY <1>6, <1>9, <1>13 DEF ChosenUpTo

\* The words that become attachments: as many as there is room for.
AreChosen(text, old, r, names, focus, ws) ==
    /\ Ordered(text, ws) /\ Len(ws) <= MaxTokens /\ Len(ws) \in Nat
    /\ \A i \in 1 .. Len(ws) : Previews(text, old, r, names, focus, ws[i])

\* The words of render.
LEMMA WordsChosen ==
    ASSUME NEW text \in Seq(Units), NEW old, NEW r, NEW names, NEW focus
    PROVE  AreChosen(text, old, r, names, focus, Shortened(Previewed(text, old, r, names, focus)))
<1>1. PICK words : words = Previewed(text, old, r, names, focus)
  OBVIOUS
<1>2. Ordered(text, words) /\ words \in Seq(WordSpan)
      /\ \A i \in 1 .. Len(words) : Previews(text, old, r, names, focus, words[i])
  <2>1. Ordered(text, words) /\ \A i \in 1 .. Len(words) : Previews(text, old, r, names, focus, words[i])
    BY <1>1, PreviewedOrdered
  <2> QED
    BY <2>1 DEF Ordered
<1>3. PICK n : n = Len(words)
  OBVIOUS
<1>4. PICK m : m = IF n < MaxTokens THEN n ELSE MaxTokens
  OBVIOUS
<1>5. n \in Nat /\ m \in 0 .. n /\ m <= MaxTokens /\ m \in Nat /\ m - 0 = m /\ 0 + 1 = 1 /\ 0 \in Nat
  <2>1. n \in Nat
    BY <1>2, <1>3
  <2> QED
    BY <1>4, <2>1, CatalogsAssumption
<1>6. PICK ws : ws = SubSeq(words, 0 + 1, m)
  OBVIOUS
<1>7. ws \in Seq(WordSpan) /\ Len(ws) = m - 0 /\ \A i \in 1 .. m - 0 : ws[i] = words[0 + i]
  BY <1>2, <1>3, <1>5, <1>6, PartOf
<1>8. Len(ws) = m /\ \A i \in 1 .. m : ws[i] = words[i] /\ i \in 1 .. n
  <2>1. \A i \in 1 .. m : 0 + i = i /\ i \in 1 .. n
    BY <1>5
  <2> QED
    BY <1>5, <1>7, <2>1
<1>9. Shortened(words) = ws
  BY <1>3, <1>4, <1>5, <1>6 DEF Shortened
<1>10. Ordered(text, ws)
  <2>1. \A i \in 1 .. m : InText(text, ws[i])
    BY <1>2, <1>3, <1>8 DEF Ordered
  <2>2. \A i, j \in 1 .. m : i < j => ws[i].end <= ws[j].start
    BY <1>2, <1>3, <1>8 DEF Ordered
  <2> QED
    BY <1>7, <1>8, <2>1, <2>2 DEF Ordered
<1>11. \A i \in 1 .. m : Previews(text, old, r, names, focus, ws[i])
  BY <1>2, <1>3, <1>8
<1> QED
  BY <1>1, <1>5, <1>8, <1>9, <1>10, <1>11 DEF AreChosen

-----------------------------------------------------------------------------
(* Where the attachments of the words are shown.                             *)

\* What the words hold beyond the attachments of the first c.
Beyond(ws, c) == Removed(SpansOfWords(ws), c)

\* The spans of the words, one by one.
AreSpans(ws) ==
    /\ SpansOfWords(ws) \in Seq(CodeSpan) /\ Len(SpansOfWords(ws)) = Len(ws) /\ Len(ws) \in Nat
    /\ DOMAIN SpansOfWords(ws) = 1 .. Len(ws)
    /\ \A i \in 1 .. Len(ws) :
          /\ ws[i].start \in Nat /\ ws[i].end \in Nat /\ ws[i].start < ws[i].end
          /\ SpansOfWords(ws)[i].start = ws[i].start
          /\ SpansOfWords(ws)[i].length = ws[i].end - ws[i].start
          /\ SpansOfWords(ws)[i].start + SpansOfWords(ws)[i].length = ws[i].end

\* Words of a text have such spans.
LEMMA SpansOK ==
    ASSUME NEW text, NEW ws, Ordered(text, ws)
    PROVE  AreSpans(ws)
<1>1. PICK n : n = Len(ws)
  OBVIOUS
<1>2. n \in Nat /\ DOMAIN ws = 1 .. n
  BY <1>1 DEF Ordered
<1>3. \A i \in 1 .. n : ws[i].start \in Nat /\ ws[i].end \in Nat /\ ws[i].start < ws[i].end
  BY <1>1 DEF Ordered, InText, WordSpan
<1>4. PICK s : s = SpansOfWords(ws)
  OBVIOUS
<1>5. s = [i \in 1 .. n |-> [start |-> ws[i].start, length |-> ws[i].end - ws[i].start]]
  BY <1>2, <1>4 DEF SpansOfWords
<1>6. \A i \in 1 .. n : [start |-> ws[i].start, length |-> ws[i].end - ws[i].start] \in CodeSpan
  <2> TAKE i \in 1 .. n
  <2>1. ws[i].end - ws[i].start \in Nat \ {0} /\ ws[i].start \in Nat
    BY <1>3
  <2> QED
    BY <2>1 DEF CodeSpan
<1>7. s \in Seq(CodeSpan) /\ Len(s) = n /\ DOMAIN s = 1 .. n
  BY <1>2, <1>5, <1>6
<1>8. \A i \in 1 .. n : /\ s[i].start = ws[i].start /\ s[i].length = ws[i].end - ws[i].start
                        /\ s[i].start + s[i].length = ws[i].end
  <2> TAKE i \in 1 .. n
  <2>1. s[i].start = ws[i].start /\ s[i].length = ws[i].end - ws[i].start
    BY <1>5
  <2>2. ws[i].start + (ws[i].end - ws[i].start) = ws[i].end
    BY <1>3
  <2> QED
    BY <2>1, <2>2
<1> QED
  BY <1>1, <1>2, <1>3, <1>4, <1>7, <1>8 DEF AreSpans

\* A word more holds its units but one.
LEMMA BeyondNext ==
    ASSUME NEW text, NEW ws, Ordered(text, ws), NEW c \in 1 .. Len(ws)
    PROVE  /\ Beyond(ws, c - 1) \in Nat /\ Beyond(ws, c) \in Nat /\ Beyond(ws, 0) = 0
           /\ Beyond(ws, c) = Beyond(ws, c - 1) + (ws[c].end - ws[c].start) - 1
<1>1. PICK s : s = SpansOfWords(ws)
  OBVIOUS
<1>2. s \in Seq(CodeSpan) /\ Len(s) = Len(ws) /\ s[c].length = ws[c].end - ws[c].start
  BY <1>1, SpansOK DEF AreSpans
<1>3. /\ Removed(s, c - 1) \in Nat /\ Removed(s, c) \in Nat
      /\ Removed(s, c) = Removed(s, c - 1) + s[c].length - 1
  BY <1>2, RemovedNext
<1>4. Removed(s, 0) = 0
  BY <1>2, RemovedZero
<1> QED
  BY <1>1, <1>2, <1>3, <1>4 DEF Beyond

\* The place p is behind the first c of k words and before the others.
Between(ws, k, c, p) ==
    /\ \A i \in 1 .. c : ws[i].end <= p
    /\ \A i \in c + 1 .. k : p <= ws[i].start

\* Such a place is displayed as many units earlier as the c words hold.
LEMMA DisplayBetween ==
    ASSUME NEW text, NEW ws, Ordered(text, ws), NEW c \in 0 .. Len(ws), NEW p \in Nat,
           Between(ws, Len(ws), c, p)
    PROVE  DisplayPosition(p, SpansOfWords(ws)) = p - Beyond(ws, c)
<1>1. PICK s : s = SpansOfWords(ws)
  OBVIOUS
<1>2. PICK n : n = Len(ws)
  OBVIOUS
<1>3. /\ s \in Seq(CodeSpan) /\ Len(s) = n /\ n \in Nat /\ DOMAIN s = 1 .. n
      /\ \A i \in 1 .. n : /\ ws[i].start \in Nat /\ ws[i].end \in Nat /\ ws[i].start < ws[i].end
                           /\ s[i].start = ws[i].start
                           /\ s[i].start + s[i].length = ws[i].end
  BY <1>1, <1>2, SpansOK DEF AreSpans
<1>4. PICK inside : inside = {i \in DOMAIN s : s[i].start < p /\ p < s[i].start + s[i].length}
  OBVIOUS
<1>5. PICK b : b = {i \in DOMAIN s : s[i].start + s[i].length <= p}
  OBVIOUS
<1>6. c \in Nat /\ c <= n /\ c \in 0 .. n
  BY <1>2, <1>3
<1>7. \A i \in 1 .. n : (i <= c => ws[i].end <= p) /\ (~(i <= c) => p <= ws[i].start)
  <2> TAKE i \in 1 .. n
  <2>1. i <= c => i \in 1 .. c
    BY <1>6
  <2>2. ~(i <= c) => i \in c + 1 .. n
    BY <1>3, <1>6
  <2> QED
    BY <1>2, <2>1, <2>2 DEF Between
<1>8. \A i \in 1 .. n : ~(s[i].start < p /\ p < s[i].start + s[i].length)
  <2> TAKE i \in 1 .. n
  <2>1. s[i].start = ws[i].start /\ s[i].start + s[i].length = ws[i].end
        /\ ws[i].start \in Nat /\ ws[i].end \in Nat
    BY <1>3
  <2> QED
    BY <1>7, <2>1
<1>9. inside = {}
  BY <1>3, <1>4, <1>8
<1>10. \A i \in 1 .. n : i \in b <=> i <= c
  <2> TAKE i \in 1 .. n
  <2>1. s[i].start + s[i].length = ws[i].end /\ ws[i].start \in Nat /\ ws[i].end \in Nat
        /\ ws[i].start < ws[i].end
    BY <1>3
  <2>2. i \in b <=> ws[i].end <= p
    BY <1>3, <1>5, <2>1
  <2>3. ~(i <= c) => ~(ws[i].end <= p)
    BY <1>7, <2>1
  <2> QED
    BY <1>7, <2>2, <2>3
<1>11. b = 1 .. c
  <2>1. \A i \in b : i \in 1 .. n
    BY <1>3, <1>5
  <2>2. \A i \in b : i \in 1 .. c
    BY <1>3, <1>6, <1>10, <2>1
  <2>3. \A i \in 1 .. c : i \in 1 .. n /\ i <= c
    BY <1>3, <1>6
  <2> QED
    BY <1>10, <2>2, <2>3
<1>12. Cardinality(b) = c
  <2>1. 1 \in Int /\ c \in Int
    BY <1>6
  <2>2. Cardinality(1 .. c) = IF 1 > c THEN 0 ELSE c - 1 + 1
    BY <2>1, FS_Interval
  <2> QED
    BY <1>6, <1>11, <2>2
<1>13. DisplayPosition(p, s) = p - Removed(s, Cardinality(b))
  BY <1>4, <1>5, <1>9, Zenon DEF DisplayPosition
<1> QED
  BY <1>1, <1>12, <1>13 DEF Beyond

\* A place inside a word is displayed behind its attachment.
LEMMA DisplayInside ==
    ASSUME NEW text, NEW ws, Ordered(text, ws), NEW j \in 1 .. Len(ws), NEW p \in Nat,
           ws[j].start < p, p < ws[j].end
    PROVE  DisplayPosition(p, SpansOfWords(ws)) = ws[j].end - Beyond(ws, j)
<1>1. PICK s : s = SpansOfWords(ws)
  OBVIOUS
<1>2. PICK n : n = Len(ws)
  OBVIOUS
<1>3. /\ s \in Seq(CodeSpan) /\ Len(s) = n /\ n \in Nat /\ DOMAIN s = 1 .. n
      /\ \A i \in 1 .. n : /\ ws[i].start \in Nat /\ ws[i].end \in Nat /\ ws[i].start < ws[i].end
                           /\ s[i].start = ws[i].start
                           /\ s[i].start + s[i].length = ws[i].end
  BY <1>1, <1>2, SpansOK DEF AreSpans
<1>4. j \in 1 .. n
  BY <1>2
<1>5. PICK inside : inside = {i \in DOMAIN s : s[i].start < p /\ p < s[i].start + s[i].length}
  OBVIOUS
<1>6. j \in inside
  BY <1>3, <1>4, <1>5
<1>7. ASSUME NEW i \in inside PROVE i = j
  <2>1. i \in 1 .. n /\ ws[i].start < p /\ p < ws[i].end
    BY <1>3, <1>5
  <2>2. ws[i].start \in Nat /\ ws[i].end \in Nat /\ ws[j].start \in Nat /\ ws[j].end \in Nat
    BY <1>3, <1>4, <2>1
  <2>3. ~(i < j)
    <3> SUFFICES ASSUME i < j PROVE FALSE
      OBVIOUS
    <3>1. ws[i].end <= ws[j].start
      BY <1>2, <1>4, <2>1 DEF Ordered
    <3> QED
      BY <2>1, <2>2, <3>1
  <2>4. ~(j < i)
    <3> SUFFICES ASSUME j < i PROVE FALSE
      OBVIOUS
    <3>1. ws[j].end <= ws[i].start
      BY <1>2, <1>4, <2>1 DEF Ordered
    <3> QED
      BY <2>1, <2>2, <3>1
  <2> QED
    BY <1>3, <1>4, <2>1, <2>3, <2>4
<1>8. inside # {} /\ (CHOOSE i \in inside : TRUE) = j
  <2>1. inside = {j}
    BY <1>6, <1>7
  <2> QED
    BY <2>1
<1>9. DisplayPosition(p, s) = s[j].start - Removed(s, j - 1) + 1
  <2>1. PICK i : i = CHOOSE k \in inside : TRUE
    OBVIOUS
  <2>2. DisplayPosition(p, s) = s[i].start - Removed(s, i - 1) + 1
    BY <1>5, <1>8, <2>1, Zenon DEF DisplayPosition
  <2> QED
    BY <1>8, <2>1, <2>2
<1>10. /\ Beyond(ws, j - 1) \in Nat /\ Beyond(ws, j) \in Nat
       /\ Beyond(ws, j) = Beyond(ws, j - 1) + (ws[j].end - ws[j].start) - 1
  BY <1>2, BeyondNext
<1>11. ws[j].start - Beyond(ws, j - 1) + 1 = ws[j].end - Beyond(ws, j)
  <2>1. ws[j].start \in Nat /\ ws[j].end \in Nat
    BY <1>3, <1>4
  <2>2. PICK a : a = Beyond(ws, j - 1)
    OBVIOUS
  <2>3. PICK x : x = ws[j].start
    OBVIOUS
  <2>4. PICK y : y = ws[j].end
    OBVIOUS
  <2>5. x - a + 1 = y - (a + (y - x) - 1)
    BY <1>10, <2>1, <2>2, <2>3, <2>4
  <2> QED
    BY <1>10, <2>2, <2>3, <2>4, <2>5
<1>12. s[j].start = ws[j].start
  BY <1>3, <1>4
<1> QED
  BY <1>1, <1>9, <1>11, <1>12 DEF Beyond

\* Every place is between words or inside one.
LEMMA EveryPlace ==
    ASSUME NEW text, NEW ws, Ordered(text, ws), NEW p \in Nat
    PROVE  \/ \E c \in 0 .. Len(ws) : Between(ws, Len(ws), c, p)
           \/ \E i \in 1 .. Len(ws) : ws[i].start < p /\ p < ws[i].end
<1>1. PICK n : n = Len(ws)
  OBVIOUS
<1>2. /\ n \in Nat
      /\ \A i \in 1 .. n : ws[i].start \in Nat /\ ws[i].end \in Nat /\ ws[i].start < ws[i].end
  BY <1>1, SpansOK DEF AreSpans
<1> SUFFICES ASSUME ~\E i \in 1 .. n : ws[i].start < p /\ p < ws[i].end
             PROVE  \E c \in 0 .. n : Between(ws, n, c, p)
  BY <1>1
<1> DEFINE Behind == {c \in 0 .. n : \A i \in 1 .. c : ws[i].end <= p}
<1>3. Behind \in SUBSET Nat /\ IsFiniteSet(Behind) /\ Behind # {}
  <2>1. 0 \in Behind
    BY <1>2
  <2>2. 0 \in Int /\ n \in Int
    BY <1>2
  <2>3. IsFiniteSet(0 .. n)
    BY <2>2, FS_Interval
  <2>4. Behind \subseteq 0 .. n
    OBVIOUS
  <2>5. IsFiniteSet(Behind)
    BY <2>3, <2>4, FS_Subset
  <2>6. Behind \in SUBSET Nat
    OBVIOUS
  <2> QED
    BY <2>1, <2>5, <2>6
<1>4. PICK c \in Behind : \A x \in Behind : x <= c
  <2> HIDE DEF Behind
  <2> QED
    BY <1>3, Greatest
<1>5. c \in 0 .. n /\ \A i \in 1 .. c : ws[i].end <= p
  OBVIOUS
<1>6. ASSUME NEW i \in c + 1 .. n PROVE p <= ws[i].start
  <2>1. c + 1 \in 1 .. n /\ c + 1 \in 0 .. n /\ i \in 1 .. n /\ ~(c + 1 <= c)
    BY <1>2, <1>5
  <2>2. c + 1 \notin Behind
    BY <1>4, <2>1
  <2>3. ~(ws[c + 1].end <= p)
    <3> SUFFICES ASSUME ws[c + 1].end <= p PROVE FALSE
      OBVIOUS
    <3>1. \A k \in 1 .. c + 1 : k \in 1 .. c \/ k = c + 1
      BY <1>5
    <3>2. \A k \in 1 .. c + 1 : ws[k].end <= p
      BY <1>5, <3>1
    <3> QED
      BY <2>1, <2>2, <3>2
  <2>4. p <= ws[c + 1].start
    <3>1. ~(ws[c + 1].start < p /\ p < ws[c + 1].end)
      BY <2>1
    <3>2. ws[c + 1].start \in Nat /\ ws[c + 1].end \in Nat
      BY <1>2, <2>1
    <3> QED
      BY <2>3, <3>1, <3>2
  <2>5. CASE i = c + 1
    BY <2>4, <2>5
  <2>6. CASE i # c + 1
    <3>1. c + 1 < i
      BY <1>5, <2>1, <2>6
    <3>2. ws[c + 1].end <= ws[i].start
      BY <1>1, <2>1, <3>1 DEF Ordered
    <3>3. ws[c + 1].end \in Nat /\ ws[i].start \in Nat
      BY <1>2, <2>1
    <3> QED
      BY <2>3, <3>2, <3>3
  <2> QED
    BY <2>5, <2>6
<1> HIDE DEF Behind
<1>7. Between(ws, n, c, p)
  BY <1>5, <1>6 DEF Between
<1> QED
  BY <1>5, <1>7

\* The first words.
LEMMA FirstWords ==
    ASSUME NEW text, NEW ws, Ordered(text, ws), NEW k \in 0 .. Len(ws)
    PROVE  /\ Ordered(text, SubSeq(ws, 1, k)) /\ Len(SubSeq(ws, 1, k)) = k
           /\ \A i \in 1 .. k : SubSeq(ws, 1, k)[i] = ws[i]
           /\ \A c \in 0 .. k : Beyond(SubSeq(ws, 1, k), c) = Beyond(ws, c)
<1>1. PICK n : n = Len(ws)
  OBVIOUS
<1>2. ws \in Seq(WordSpan) /\ n \in Nat /\ k \in 0 .. n /\ k \in Nat /\ k <= n
      /\ 0 \in Nat /\ 0 + 1 = 1 /\ k - 0 = k /\ \A i \in 1 .. k : 0 + i = i /\ i \in 1 .. n
  <2>1. ws \in Seq(WordSpan)
    BY DEF Ordered
  <2>2. n \in Nat
    BY <1>1, <2>1
  <2> QED
    BY <1>1, <2>1, <2>2
<1>3. PICK q : q = SubSeq(ws, 1, k)
  OBVIOUS
<1>4. q \in Seq(WordSpan) /\ Len(q) = k /\ \A i \in 1 .. k : q[i] = ws[i]
  <2>1. /\ SubSeq(ws, 0 + 1, k) \in Seq(WordSpan) /\ Len(SubSeq(ws, 0 + 1, k)) = k - 0
        /\ \A i \in 1 .. k - 0 : SubSeq(ws, 0 + 1, k)[i] = ws[0 + i]
    BY <1>1, <1>2, PartOf
  <2> QED
    BY <1>2, <1>3, <2>1
<1>5. Ordered(text, q)
  <2>1. \A i \in 1 .. k : InText(text, q[i])
    BY <1>1, <1>2, <1>4 DEF Ordered
  <2>2. \A i, j \in 1 .. k : i < j => q[i].end <= q[j].start
    BY <1>1, <1>2, <1>4 DEF Ordered
  <2> QED
    BY <1>4, <2>1, <2>2 DEF Ordered
<1>6. PICK a : a = SpansOfWords(q)
  OBVIOUS
<1>7. PICK b : b = SpansOfWords(ws)
  OBVIOUS
<1>8. a \in Seq(CodeSpan) /\ Len(a) = k
  BY <1>4, <1>5, <1>6, SpansOK DEF AreSpans
<1>9. b \in Seq(CodeSpan) /\ Len(b) = n
  BY <1>1, <1>7, SpansOK DEF AreSpans
<1>10. \A i \in 1 .. k : a[i] = b[i]
  <2>1. DOMAIN q = 1 .. k /\ DOMAIN ws = 1 .. n
    BY <1>1, <1>2, <1>4
  <2>2. \A i \in 1 .. k : a[i] = [start |-> q[i].start, length |-> q[i].end - q[i].start]
    BY <1>6, <2>1 DEF SpansOfWords
  <2>3. \A i \in 1 .. n : b[i] = [start |-> ws[i].start, length |-> ws[i].end - ws[i].start]
    BY <1>7, <2>1 DEF SpansOfWords
  <2> QED
    BY <1>2, <1>4, <2>2, <2>3
<1>11. Begins(a, b)
  BY <1>2, <1>8, <1>9, <1>10 DEF Begins
<1>12. \A c \in 0 .. k : Removed(a, c) = Removed(b, c)
  BY <1>8, <1>9, <1>11, RemovedSame
<1> QED
  BY <1>3, <1>4, <1>5, <1>6, <1>7, <1>12 DEF Beyond

\* What is wider is further, and what is as wide is the same.
LEMMA WidthOrder ==
    ASSUME NEW cells \in Seq(Cell), NEW i \in 0 .. Len(cells), NEW j \in 0 .. Len(cells)
    PROVE  /\ Width(cells, i) \in Nat /\ Width(cells, j) \in Nat
           /\ Width(cells, i) <= Width(cells, j) <=> i <= j
<1>1. Len(cells) \in Nat
  OBVIOUS
<1>2. i \in Nat /\ j \in Nat
  OBVIOUS
<1>3. CASE i <= j
  <2>1. j \in i .. Len(cells)
    BY <1>1, <1>2, <1>3
  <2>2. /\ Width(cells, i) \in Nat /\ Width(cells, j) \in Nat
        /\ Width(cells, j) - Width(cells, i) >= j - i
    BY <2>1, WidthGrows
  <2> QED
    BY <1>2, <1>3, <2>2
<1>4. CASE ~(i <= j)
  <2>1. i \in j .. Len(cells)
    BY <1>1, <1>2, <1>4
  <2>2. /\ Width(cells, i) \in Nat /\ Width(cells, j) \in Nat
        /\ Width(cells, i) - Width(cells, j) >= i - j
    BY <2>1, WidthGrows
  <2> QED
    BY <1>2, <1>4, <2>2
<1> QED
  BY <1>3, <1>4

\* The first k words are attachments in x: every place between words has moved
\* by what the words before it hold.
WordsPlaced(text, words, k, x) ==
    /\ x \in Seq(Cell) /\ Codes(x) = text /\ Len(Attached(x)) <= k
    /\ \A c \in 0 .. k : \A p \in 0 .. Len(text) :
          Between(words, k, c, p)
            => p - Beyond(words, c) \in 0 .. Len(x) /\ Width(x, p - Beyond(words, c)) = p

\* Before the first word every place is its own.
LEMMA PlacedZero ==
    ASSUME NEW text \in Seq(Units), NEW words, Ordered(text, words)
    PROVE  WordsPlaced(text, words, 0, Cells(text))
<1>1. PICK x : x = Cells(text)
  OBVIOUS
<1>2. /\ x \in Seq(Cell) /\ Len(x) = Len(text) /\ Len(text) \in Nat
      /\ Codes(x) = text /\ Len(Attached(x)) = 0
      /\ \A k \in 0 .. Len(text) : Width(x, k) = k
  BY <1>1, PlainOK DEF IsPlain
<1>3. Beyond(words, 0) = 0
  <2>1. SpansOfWords(words) \in Seq(CodeSpan)
    BY SpansOK DEF AreSpans
  <2> QED
    BY <2>1, RemovedZero DEF Beyond
<1>4. ASSUME NEW c \in 0 .. 0, NEW p \in 0 .. Len(text)
      PROVE  p - Beyond(words, c) \in 0 .. Len(x) /\ Width(x, p - Beyond(words, c)) = p
  <2>1. c = 0 /\ p - 0 = p
    BY <1>2
  <2>2. p - Beyond(words, c) = p
    BY <1>3, <2>1
  <2> QED
    BY <1>2, <2>2
<1> QED
  BY <1>1, <1>2, <1>4 DEF WordsPlaced

\* One turn of the loop that makes the attachments.
PlaceNext(text, words, k, v) ==
    Splice(v, DisplayPosition(words[k].start, SpansOfWords(SubSeq(words, 1, k - 1))),
           words[k].end - words[k].start, <<Attachment(Word(text, words[k]))>>)

\* The attachment of a word stands for it.
LEMMA AttachmentOK ==
    ASSUME NEW text \in Seq(Units), NEW w, InText(text, w)
    PROVE  /\ <<Attachment(Word(text, w))>> \in Seq(Cell) /\ Len(<<Attachment(Word(text, w))>>) = 1
           /\ Codes(<<Attachment(Word(text, w))>>) = Word(text, w)
           /\ Word(text, w) \in Seq(Units) /\ Len(Word(text, w)) = w.end - w.start
           /\ Len(Attached(<<Attachment(Word(text, w))>>)) = 1
<1>1. w.start \in Nat /\ w.end \in Nat /\ w.start < w.end /\ w.end <= Len(text) /\ Len(text) \in Nat
  BY DEF InText, WordSpan
<1>2. w.end \in w.start .. Len(text)
  BY <1>1
<1>3. PICK code : code = Word(text, w)
  OBVIOUS
<1>4. code \in Seq(Units) /\ Len(code) = w.end - w.start
  BY <1>1, <1>2, <1>3, PartOf DEF Word
<1>5. PICK c : c = Attachment(code)
  OBVIOUS
<1>6. c = [code |-> code, own |-> TRUE]
  BY <1>5 DEF Attachment
<1>7. c \in Cell /\ c.code = code /\ c.own
  <2>1. Len(code) >= 1
    BY <1>1, <1>4
  <2> QED
    BY <1>4, <1>6, <2>1 DEF Cell
<1>8. Codes(<<c>>) = code /\ Attached(<<c>>) = <<c>>
  BY <1>7, CodesOne
<1>9. <<c>> \in Seq(Cell) /\ Len(<<c>>) = 1
  BY <1>7
<1> QED
  BY <1>3, <1>4, <1>5, <1>8, <1>9

\* What the k-th word meets: the words before it are attachments, and both its
\* ends are places between words.
Meets(text, words, k, x) ==
    /\ words[k].start \in Nat /\ words[k].end \in Nat /\ words[k].start < words[k].end
    /\ words[k].end <= Len(text) /\ Beyond(words, k - 1) \in Nat
    /\ Beyond(words, k) = Beyond(words, k - 1) + (words[k].end - words[k].start) - 1
    /\ DisplayPosition(words[k].start, SpansOfWords(SubSeq(words, 1, k - 1)))
         = words[k].start - Beyond(words, k - 1)
    /\ words[k].start - Beyond(words, k - 1) \in 0 .. Len(x)
    /\ words[k].end - Beyond(words, k - 1) \in 0 .. Len(x)
    /\ Width(x, words[k].start - Beyond(words, k - 1)) = words[k].start
    /\ Width(x, words[k].end - Beyond(words, k - 1)) = words[k].end

\* So it is.
LEMMA MeetsOK ==
    ASSUME NEW text \in Seq(Units), NEW words, Ordered(text, words),
           NEW k \in 1 .. Len(words), NEW x, WordsPlaced(text, words, k - 1, x)
    PROVE  Meets(text, words, k, x)
<1>1. PICK n : n = Len(words)
  OBVIOUS
<1>2. PICK h : h = k - 1
  OBVIOUS
<1>3. PICK w : w = words[k]
  OBVIOUS
<1>4. n \in Nat /\ k \in Nat /\ h \in Nat /\ h \in 0 .. n /\ h + 1 = k /\ k \in 1 .. n /\ h < k
  <2>1. n \in Nat
    BY <1>1 DEF Ordered
  <2> QED
    BY <1>1, <1>2, <2>1
<1>5. /\ InText(text, w) /\ Len(text) \in Nat
      /\ w.start \in Nat /\ w.end \in Nat /\ w.start < w.end /\ w.end <= Len(text)
      /\ w.start \in 0 .. Len(text) /\ w.end \in 0 .. Len(text)
  <2>1. InText(text, w)
    BY <1>1, <1>3, <1>4 DEF Ordered
  <2>2. w.start \in Nat /\ w.end \in Nat /\ w.start < w.end /\ w.end <= Len(text) /\ Len(text) \in Nat
    BY <2>1 DEF InText, WordSpan
  <2> QED
    BY <2>1, <2>2
<1>6. Beyond(words, h) \in Nat /\ Beyond(words, k) = Beyond(words, h) + (w.end - w.start) - 1
  BY <1>1, <1>2, <1>3, <1>4, BeyondNext
<1>7. \A i \in 1 .. h : words[i].end <= w.start /\ words[i].end \in Nat
  <2> TAKE i \in 1 .. h
  <2>1. i \in 1 .. n /\ i < k
    BY <1>4
  <2>2. InText(text, words[i]) /\ words[i].end <= w.start
    BY <1>1, <1>3, <1>4, <2>1 DEF Ordered
  <2> QED
    BY <2>2 DEF InText, WordSpan
<1>8. Between(words, h, h, w.start) /\ Between(words, h, h, w.end)
  <2>1. \A i \in h + 1 .. h : FALSE
    BY <1>4
  <2>2. \A i \in 1 .. h : words[i].end <= w.end
    BY <1>5, <1>7
  <2> QED
    BY <1>7, <2>1, <2>2 DEF Between
<1>9. /\ w.start - Beyond(words, h) \in 0 .. Len(x) /\ Width(x, w.start - Beyond(words, h)) = w.start
      /\ w.end - Beyond(words, h) \in 0 .. Len(x) /\ Width(x, w.end - Beyond(words, h)) = w.end
  <2>1. h \in 0 .. h
    BY <1>4
  <2> QED
    BY <1>2, <1>5, <1>8, <2>1 DEF WordsPlaced
<1>10. PICK q : q = SubSeq(words, 1, h)
  OBVIOUS
<1>11. /\ Ordered(text, q) /\ Len(q) = h /\ \A i \in 1 .. h : q[i] = words[i]
       /\ Beyond(q, h) = Beyond(words, h)
  <2>1. h \in 0 .. Len(words) /\ h \in 0 .. h
    BY <1>1, <1>4
  <2> QED
    BY <1>10, <2>1, FirstWords
<1>12. DisplayPosition(w.start, SpansOfWords(q)) = w.start - Beyond(words, h)
  <2>1. Between(q, Len(q), h, w.start)
    <3>1. \A i \in h + 1 .. h : FALSE
      BY <1>4
    <3>2. \A i \in 1 .. h : q[i].end <= w.start
      BY <1>7, <1>11
    <3> QED
      BY <1>11, <3>1, <3>2 DEF Between
  <2>2. h \in 0 .. Len(q)
    BY <1>4, <1>11
  <2> QED
    BY <1>5, <1>11, <2>1, <2>2, DisplayBetween
<1> QED
  BY <1>2, <1>3, <1>5, <1>6, <1>9, <1>10, <1>12 DEF Meets

\* One word more becomes an attachment.
LEMMA PlacedNext ==
    ASSUME NEW text \in Seq(Units), NEW words, Ordered(text, words),
           NEW k \in 1 .. Len(words), NEW x, WordsPlaced(text, words, k - 1, x)
    PROVE  WordsPlaced(text, words, k, PlaceNext(text, words, k, x))
<1>1. PICK h : h = k - 1
  OBVIOUS
<1>2. PICK w : w = words[k]
  OBVIOUS
<1>3. PICK b : b = Beyond(words, h)
  OBVIOUS
<1>4. PICK at : at = w.start - b
  OBVIOUS
<1>5. PICK to : to = w.end - b
  OBVIOUS
<1>6. k \in Nat /\ h \in Nat /\ h + 1 = k /\ k - 1 = h /\ k \in 1 .. Len(words)
  <2>1. Len(words) \in Nat
    BY DEF Ordered
  <2> QED
    BY <1>1, <2>1
<1>7. /\ w.start \in Nat /\ w.end \in Nat /\ w.start < w.end /\ w.end <= Len(text)
      /\ b \in Nat /\ Beyond(words, k) = b + (w.end - w.start) - 1
      /\ DisplayPosition(w.start, SpansOfWords(SubSeq(words, 1, h))) = at
      /\ at \in 0 .. Len(x) /\ to \in 0 .. Len(x) /\ Width(x, at) = w.start /\ Width(x, to) = w.end
  BY <1>1, <1>2, <1>3, <1>4, <1>5, MeetsOK DEF Meets
<1>8. x \in Seq(Cell) /\ Codes(x) = text /\ Len(Attached(x)) <= h /\ Len(x) \in Nat
  BY <1>1 DEF WordsPlaced
<1>9. at \in Nat /\ to \in Nat /\ to \in at .. Len(x) /\ to - at = w.end - w.start /\ at <= to
  <2>1. PICK s : s = w.start
    OBVIOUS
  <2>2. PICK e : e = w.end
    OBVIOUS
  <2>3. s \in Nat /\ e \in Nat /\ s < e /\ b \in Nat /\ at = s - b /\ to = e - b
    BY <1>4, <1>5, <1>7, <2>1, <2>2
  <2>4. at \in Nat /\ to \in Nat /\ to <= Len(x)
    BY <1>7, <1>8
  <2>5. to - at = e - s /\ at <= to
    BY <2>3
  <2> QED
    BY <1>8, <2>1, <2>2, <2>4, <2>5
<1>10. InText(text, w) /\ Len(text) \in Nat
  BY <1>2, <1>6 DEF Ordered
<1>11. PICK new : new = <<Attachment(Word(text, w))>>
  OBVIOUS
<1>12. /\ new \in Seq(Cell) /\ Len(new) = 1 /\ Codes(new) = Word(text, w)
       /\ Len(Codes(new)) = w.end - w.start /\ Len(Attached(new)) = 1
  BY <1>10, <1>11, AttachmentOK
<1>13. PICK y : y = Splice(x, at, to - at, new)
  OBVIOUS
<1>14. Replaced(x, at, to, new, y)
  BY <1>7, <1>8, <1>9, <1>12, <1>13, SpliceOK
<1>15. y = PlaceNext(text, words, k, x)
  BY <1>2, <1>6, <1>7, <1>9, <1>11, <1>13 DEF PlaceNext
<1>16. /\ y \in Seq(Cell) /\ Len(y) = Len(x) - (to - at) + 1 /\ Len(y) \in Nat
       /\ Len(Attached(y)) <= Len(Attached(x)) + 1
       /\ \A p \in 0 .. at : Width(y, p) = Width(x, p)
       /\ Width(y, at + 1) = w.start + (w.end - w.start)
       /\ \A p \in to .. Len(x) : Width(y, (p - to) + (at + 1)) - Width(y, at + 1) = Width(x, p) - w.end
       /\ Codes(y) = (SubSeq(text, 1, w.start) \o Word(text, w)) \o SubSeq(text, w.end + 1, Len(text))
  <2>1. PICK m : m = Len(new)
    OBVIOUS
  <2>2. PICK l : l = Len(Codes(new))
    OBVIOUS
  <2>3. PICK a : a = Len(Attached(new))
    OBVIOUS
  <2>4. m = 1 /\ l = w.end - w.start /\ a = 1
    BY <1>12, <2>1, <2>2, <2>3
  <2>5. /\ y \in Seq(Cell) /\ Len(y) = Len(x) - (to - at) + m
        /\ Codes(y) = (SubSeq(text, 1, Width(x, at)) \o Codes(new)) \o SubSeq(text, Width(x, to) + 1, Len(text))
        /\ Len(Attached(y)) <= Len(Attached(x)) + a
        /\ \A p \in 0 .. at : Width(y, p) = Width(x, p)
        /\ Width(y, at + m) = Width(x, at) + l
        /\ \A p \in to .. Len(x) :
              Width(y, (p - to) + (at + m)) - Width(y, at + m) = Width(x, p) - Width(x, to)
    BY <1>8, <1>14, <2>1, <2>2, <2>3, Zenon DEF Replaced
  <2>6. Len(y) \in Nat
    BY <2>5
  <2> QED
    BY <1>7, <1>12, <2>4, <2>5, <2>6
<1>17. Codes(y) = text
  <2>1. SubSeq(text, 1, w.start) \o SubSeq(text, w.start + 1, w.end) = SubSeq(text, 1, w.end)
    <3>1. 1 \in 1 .. Len(text) + 1 /\ w.start \in 1 - 1 .. Len(text) /\ w.end \in w.start .. Len(text)
      BY <1>7, <1>10
    <3> QED
      BY <3>1, ConcatAdjacentSubSeq
  <2>2. SubSeq(text, 1, w.end) \o SubSeq(text, w.end + 1, Len(text)) = SubSeq(text, 1, Len(text))
    <3>1. 1 \in 1 .. Len(text) + 1 /\ w.end \in 1 - 1 .. Len(text) /\ Len(text) \in w.end .. Len(text)
      BY <1>7, <1>10
    <3> QED
      BY <3>1, ConcatAdjacentSubSeq
  <2>3. SubSeq(text, 1, Len(text)) = text
    BY SubSeqFull
  <2> QED
    BY <1>16, <2>1, <2>2, <2>3 DEF Word
<1>18. Len(Attached(y)) <= k
  <2>1. Attached(x) \in Seq(Cell) /\ Attached(y) \in Seq(Cell)
    BY <1>8, <1>16, CodesSpread
  <2>2. Len(Attached(x)) \in Nat /\ Len(Attached(y)) \in Nat
    BY <2>1
  <2> QED
    BY <1>6, <1>8, <1>16, <2>2
<1>19. ASSUME NEW c \in 0 .. k, NEW p \in 0 .. Len(text), Between(words, k, c, p)
       PROVE  p - Beyond(words, c) \in 0 .. Len(y) /\ Width(y, p - Beyond(words, c)) = p
  <2>1. p \in Nat /\ c \in Nat
    BY <1>10
  <2>2. CASE c = k
    <3>1. Between(words, h, h, p) /\ w.end <= p
      <4>1. \A i \in 1 .. k : words[i].end <= p
        BY <1>19, <2>2 DEF Between
      <4>2. \A i \in 1 .. h : i \in 1 .. k
        BY <1>6
      <4>3. k \in 1 .. k /\ \A i \in h + 1 .. h : FALSE
        BY <1>6
      <4> QED
        BY <1>2, <4>1, <4>2, <4>3 DEF Between
    <3>2. PICK q : q = p - b
      OBVIOUS
    <3>3. q \in 0 .. Len(x) /\ Width(x, q) = p
      <4>1. h \in 0 .. h
        BY <1>6
      <4> QED
        BY <1>1, <1>3, <3>1, <3>2, <4>1 DEF WordsPlaced
    <3>4. to <= q
      BY <1>5, <1>7, <2>1, <3>1, <3>2
    <3>5. q \in to .. Len(x) /\ q \in Nat
      BY <1>8, <1>9, <3>3, <3>4
    <3>6. PICK g : g = (q - to) + (at + 1)
      OBVIOUS
    <3>7. g = p - Beyond(words, k) /\ g \in 0 .. Len(y)
      <4>1. g = p - Beyond(words, k)
        <5>1. PICK s : s = w.start
          OBVIOUS
        <5>2. PICK e : e = w.end
          OBVIOUS
        <5>3. PICK z : z = Beyond(words, k)
          OBVIOUS
        <5>4. /\ s \in Nat /\ e \in Nat /\ b \in Nat /\ at = s - b /\ to = e - b
              /\ z = b + (e - s) - 1
          BY <1>4, <1>5, <1>7, <5>1, <5>2, <5>3
        <5>5. g = p - z
          BY <2>1, <3>2, <3>6, <5>4
        <5> QED
          BY <5>3, <5>5
      <4>2. g \in 0 .. Len(y)
        BY <1>8, <1>9, <1>16, <3>5, <3>6
      <4> QED
        BY <4>1, <4>2
    <3>8. Width(y, g) = p
      <4>1. Width(y, g) - Width(y, at + 1) = p - w.end
        BY <1>16, <3>3, <3>5, <3>6
      <4>2. Width(y, at + 1) = w.end
        <5>1. \A s, e \in Nat : s + (e - s) = e
          OBVIOUS
        <5> QED
          BY <1>7, <1>16, <5>1
      <4>3. Width(y, g) \in Nat
        BY <1>16, <3>7, WidthOrder
      <4> QED
        BY <1>7, <2>1, <4>1, <4>2, <4>3
    <3> QED
      BY <2>2, <3>7, <3>8
  <2>3. CASE c # k
    <3>1. c \in 0 .. h
      BY <1>6, <2>3
    <3>2. Between(words, h, c, p) /\ p <= w.start
      <4>1. /\ \A i \in 1 .. c : words[i].end <= p
            /\ \A i \in c + 1 .. k : p <= words[i].start
        BY <1>19 DEF Between
      <4>2. k \in c + 1 .. k /\ \A i \in c + 1 .. h : i \in c + 1 .. k
        BY <1>6, <3>1
      <4> QED
        BY <1>2, <4>1, <4>2 DEF Between
    <3>3. PICK q : q = p - Beyond(words, c)
      OBVIOUS
    <3>4. q \in 0 .. Len(x) /\ Width(x, q) = p
      BY <1>1, <3>1, <3>2, <3>3 DEF WordsPlaced
    <3>5. q <= at
      BY <1>7, <1>8, <3>2, <3>4, WidthOrder
    <3>6. q \in 0 .. at /\ q \in 0 .. Len(y)
      BY <1>8, <1>9, <1>16, <3>4, <3>5
    <3> QED
      BY <1>16, <3>3, <3>4, <3>6
  <2> QED
    BY <2>2, <2>3
<1> QED
  BY <1>15, <1>16, <1>17, <1>18, <1>19 DEF WordsPlaced

\* Values the loop passes through.
Turns(plain, text, words, f) ==
    /\ DOMAIN f = 0 .. Len(words) /\ f[0] = plain
    /\ \A k \in 1 .. Len(words) : f[k] = PlaceNext(text, words, k, f[k - 1])

\* A loop that starts with the plain text has all the words placed in the end.
LEMMA AllPlaced ==
    ASSUME NEW text \in Seq(Units), NEW words, Ordered(text, words), NEW f,
           Turns(Cells(text), text, words, f)
    PROVE  WordsPlaced(text, words, Len(words), f[Len(words)])
<1>1. PICK n : n = Len(words)
  OBVIOUS
<1>2. n \in Nat
  BY <1>1 DEF Ordered
<1> DEFINE Right == {k \in 0 .. n : WordsPlaced(text, words, k, f[k])}
<1>3. 0 \in Right
  <2>1. f[0] = Cells(text)
    BY DEF Turns
  <2> QED
    BY <1>2, <2>1, PlacedZero
<1>4. ASSUME NEW k \in 0 .. n - 1, k \in Right PROVE k + 1 \in Right
  <2>1. k + 1 \in 1 .. n /\ k + 1 \in 0 .. n /\ (k + 1) - 1 = k
    BY <1>2
  <2>2. f[k + 1] = PlaceNext(text, words, k + 1, f[k])
    BY <1>1, <2>1 DEF Turns
  <2>3. WordsPlaced(text, words, (k + 1) - 1, f[k])
    BY <1>4, <2>1
  <2>4. WordsPlaced(text, words, k + 1, f[k + 1])
    BY <1>1, <2>1, <2>2, <2>3, PlacedNext
  <2> QED
    BY <2>1, <2>4
<1>5. \A k \in 0 .. n : k \in Right
  <2> HIDE DEF Right
  <2> QED
    BY <1>2, <1>3, <1>4, UpTo
<1>6. n \in Right
  <2>1. n \in 0 .. n
    BY <1>2
  <2> QED
    BY <1>5, <2>1
<1> QED
  BY <1>1, <1>6

\* There is such a loop.
LEMMA TurnsExist ==
    ASSUME NEW text \in Seq(Units), NEW words, Ordered(text, words)
    PROVE  \E f : Turns(Cells(text), text, words, f)
<1> DEFINE n == Len(words)
           V == Seq(Cell)
           a == Cells(text)
           Next1(v, k) == PlaceNext(text, words, k, v)
           step == [t \in (1 .. n) \X V |-> IF Next1(t[2], t[1]) \in V THEN Next1(t[2], t[1]) ELSE a]
<1>1. n \in Nat /\ a \in V
  <2>1. n \in Nat
    BY DEF Ordered
  <2>2. a \in V
    BY PlainOK DEF IsPlain
  <2> QED
    BY <2>1, <2>2
<1>2. \A v : \A k : WordsPlaced(text, words, k, v) => v \in V
  BY DEF WordsPlaced
<1>3. WordsPlaced(text, words, 0, a)
  BY PlacedZero
<1>4. \A k \in 1 .. n : \A v : WordsPlaced(text, words, k - 1, v) => WordsPlaced(text, words, k, Next1(v, k))
  BY PlacedNext
<1> HIDE DEF V, a, Next1
<1>5. step \in Steps(n, V) /\ \A k \in 1 .. n, v \in V : Next1(v, k) \in V => step[<<k, v>>] = Next1(v, k)
  BY <1>1 DEF Steps
<1> HIDE DEF step, n
<1>6. PICK f : f \in Traces(n, V, a, step)
  BY <1>1, <1>5, LoopExists
<1>7. f \in [0 .. n -> V] /\ f[0] = a /\ \A k \in 1 .. n : f[k] = step[<<k, f[k - 1]>>]
  BY <1>6 DEF Traces, Trace
<1> DEFINE Right == {k \in 0 .. n : WordsPlaced(text, words, k, f[k])}
<1>8. ASSUME NEW k \in 1 .. n, WordsPlaced(text, words, k - 1, f[k - 1])
      PROVE  f[k] = Next1(f[k - 1], k) /\ WordsPlaced(text, words, k, f[k])
  <2>1. WordsPlaced(text, words, k, Next1(f[k - 1], k)) /\ f[k - 1] \in V
    BY <1>2, <1>4, <1>8
  <2>2. Next1(f[k - 1], k) \in V
    BY <1>2, <2>1
  <2>3. f[k] = Next1(f[k - 1], k)
    BY <1>5, <1>7, <2>1, <2>2
  <2> QED
    BY <2>1, <2>3
<1>9. 0 \in Right
  BY <1>1, <1>3, <1>7
<1>10. ASSUME NEW k \in 0 .. n - 1, k \in Right PROVE k + 1 \in Right
  <2>1. k + 1 \in 1 .. n /\ k + 1 \in 0 .. n /\ (k + 1) - 1 = k
    BY <1>1
  <2>2. WordsPlaced(text, words, (k + 1) - 1, f[(k + 1) - 1])
    BY <1>10, <2>1
  <2> QED
    BY <1>8, <2>1, <2>2
<1>11. \A k \in 0 .. n : k \in Right
  <2> HIDE DEF Right
  <2> QED
    BY <1>1, <1>9, <1>10, UpTo
<1>12. \A k \in 1 .. n : f[k] = Next1(f[k - 1], k)
  <2> TAKE k \in 1 .. n
  <2>1. k - 1 \in 0 .. n
    BY <1>1
  <2>2. WordsPlaced(text, words, k - 1, f[k - 1])
    BY <1>11, <2>1
  <2> QED
    BY <1>8, <2>2
<1>13. DOMAIN f = 0 .. n
  BY <1>7
<1> QED
  BY <1>7, <1>12, <1>13 DEF Turns, n, a, Next1

\* What render makes of the words.
LEMMA WithAttachmentsOK ==
    ASSUME NEW text \in Seq(Units), NEW words, Ordered(text, words)
    PROVE  WordsPlaced(text, words, Len(words), WithAttachments(Cells(text), text, words))
<1> DEFINE plain == Cells(text)
           n == Len(words)
           Turn(f, k) == IF k = 0 THEN plain
                         ELSE Splice(f[k - 1],
                                DisplayPosition(words[k].start, SpansOfWords(SubSeq(words, 1, k - 1))),
                                words[k].end - words[k].start, <<Attachment(Word(text, words[k]))>>)
<1>1. n \in Nat
  BY DEF Ordered
<1>2. PICK f : Turns(plain, text, words, f)
  BY TurnsExist
<1> DEFINE g == [k \in 0 .. n |-> f[k]]
<1>3. g = [k \in 0 .. n |-> Turn(g, k)]
  <2>1. \A k \in 0 .. n : f[k] = Turn(g, k)
    <3> TAKE k \in 0 .. n
    <3>1. CASE k = 0
      <4>1. f[0] = plain
        BY <1>2 DEF Turns
      <4> QED
        BY <3>1, <4>1
    <3>2. CASE k # 0
      <4>1. k \in 1 .. n /\ k - 1 \in 0 .. n
        BY <1>1, <3>2
      <4>2. f[k] = PlaceNext(text, words, k, f[k - 1]) /\ g[k - 1] = f[k - 1]
        BY <1>2, <4>1 DEF Turns
      <4> QED
        BY <3>2, <4>2 DEF PlaceNext
    <3> QED
      BY <3>1, <3>2
  <2> QED
    BY <2>1
<1> HIDE DEF g
<1> DEFINE out[k \in 0 .. n] ==
             IF k = 0 THEN plain
             ELSE Splice(out[k - 1],
                         DisplayPosition(words[k].start, SpansOfWords(SubSeq(words, 1, k - 1))),
                         words[k].end - words[k].start, <<Attachment(Word(text, words[k]))>>)
<1>4. out = [k \in 0 .. n |-> Turn(out, k)]
  BY <1>3, Zenon DEF Turn
<1>5. WithAttachments(plain, text, words) = out[n]
  BY Zenon DEF WithAttachments
<1> HIDE DEF out
<1>6. Turns(plain, text, words, out)
  <2>1. DOMAIN out = 0 .. n
    BY <1>4
  <2>2. out[0] = plain
    <3>1. 0 \in 0 .. n
      BY <1>1
    <3> QED
      BY <1>4, <3>1
  <2>3. ASSUME NEW k \in 1 .. n PROVE out[k] = PlaceNext(text, words, k, out[k - 1])
    <3>1. k \in 0 .. n /\ k # 0
      BY <1>1
    <3>2. out[k] = Turn(out, k)
      BY <1>4, <3>1
    <3> QED
      BY <3>1, <3>2 DEF PlaceNext
  <2> QED
    BY <2>1, <2>2, <2>3 DEF Turns
<1>7. WordsPlaced(text, words, n, out[n])
  BY <1>6, AllPlaced
<1> QED
  BY <1>5, <1>7

-----------------------------------------------------------------------------
(* What render leaves.                                                       *)

\* The place p lies inside the word w.
Inside(w, p) == w.start < p /\ p < w.end

\* A place is displayed where it is, or behind the word it lies inside.
DisplayedAt(words, x, p, d) ==
    /\ d \in 0 .. Len(x)
    /\ \A i \in 1 .. Len(words) : Inside(words[i], p) => Width(x, d) = words[i].end
    /\ (\A i \in 1 .. Len(words) : ~Inside(words[i], p)) => Width(x, d) = p

\* So it is once all the words are placed.
LEMMA DisplayOK ==
    ASSUME NEW text \in Seq(Units), NEW words, Ordered(text, words),
           NEW x, WordsPlaced(text, words, Len(words), x), NEW p \in 0 .. Len(text)
    PROVE  DisplayedAt(words, x, p, DisplayPosition(p, SpansOfWords(words)))
<1>1. PICK n : n = Len(words)
  OBVIOUS
<1>2. /\ n \in Nat /\ p \in Nat /\ Len(text) \in Nat
      /\ \A i \in 1 .. n : /\ words[i].start \in Nat /\ words[i].end \in Nat
                           /\ words[i].start < words[i].end /\ words[i].end <= Len(text)
  <2>1. n \in Nat /\ \A i \in 1 .. n : InText(text, words[i])
    BY <1>1 DEF Ordered
  <2>2. Len(text) \in Nat
    OBVIOUS
  <2> QED
    BY <2>1, <2>2 DEF InText, WordSpan
<1>3. PICK d : d = DisplayPosition(p, SpansOfWords(words))
  OBVIOUS
<1>4. ASSUME NEW c \in 0 .. n, Between(words, n, c, p)
      PROVE  d \in 0 .. Len(x) /\ Width(x, d) = p
  <2>1. d = p - Beyond(words, c)
    BY <1>1, <1>2, <1>3, <1>4, DisplayBetween
  <2> QED
    BY <1>1, <1>4, <2>1 DEF WordsPlaced
<1>5. ASSUME NEW j \in 1 .. n, Inside(words[j], p)
      PROVE  d \in 0 .. Len(x) /\ Width(x, d) = words[j].end
  <2>1. PICK e : e = words[j].end
    OBVIOUS
  <2>2. d = e - Beyond(words, j)
    BY <1>1, <1>2, <1>3, <1>5, <2>1, DisplayInside DEF Inside
  <2>3. e \in 0 .. Len(text) /\ j \in 0 .. n
    BY <1>2, <2>1
  <2>4. Between(words, n, j, e)
    <3>1. ASSUME NEW i \in 1 .. j PROVE words[i].end <= e
      <4>1. i \in 1 .. n /\ (i = j \/ i < j)
        BY <1>2
      <4>2. CASE i = j
        BY <1>2, <2>1, <4>2
      <4>3. CASE i < j
        <5>1. words[i].end <= words[j].start
          BY <1>1, <4>1, <4>3 DEF Ordered
        <5>2. words[j].start < e /\ words[j].start \in Nat /\ e \in Nat /\ words[i].end \in Nat
          BY <1>2, <2>1, <4>1
        <5> QED
          BY <5>1, <5>2
      <4> QED
        BY <4>1, <4>2, <4>3
    <3>2. ASSUME NEW i \in j + 1 .. n PROVE e <= words[i].start
      <4>1. i \in 1 .. n /\ j < i
        BY <1>2
      <4> QED
        BY <1>1, <2>1, <4>1 DEF Ordered
    <3> QED
      BY <3>1, <3>2 DEF Between
  <2> QED
    BY <1>1, <2>1, <2>2, <2>3, <2>4 DEF WordsPlaced
<1>6. CASE \E j \in 1 .. n : Inside(words[j], p)
  BY <1>1, <1>3, <1>5, <1>6 DEF DisplayedAt
<1>7. CASE ~\E j \in 1 .. n : Inside(words[j], p)
  <2>1. \E c \in 0 .. n : Between(words, n, c, p)
    BY <1>1, <1>2, <1>7, EveryPlace DEF Inside
  <2>2. d \in 0 .. Len(x) /\ Width(x, d) = p
    BY <1>4, <2>1
  <2> QED
    BY <1>1, <1>3, <1>7, <2>2 DEF DisplayedAt
<1> QED
  BY <1>6, <1>7

\* Places are displayed in their order.
LEMMA DisplayOrder ==
    ASSUME NEW text \in Seq(Units), NEW words, Ordered(text, words),
           NEW x, WordsPlaced(text, words, Len(words), x),
           NEW p \in 0 .. Len(text), NEW q \in 0 .. Len(text), p <= q
    PROVE  /\ DisplayPosition(p, SpansOfWords(words)) \in 0 .. Len(x)
           /\ DisplayPosition(q, SpansOfWords(words)) \in 0 .. Len(x)
           /\ DisplayPosition(p, SpansOfWords(words)) <= DisplayPosition(q, SpansOfWords(words))
<1>1. PICK n : n = Len(words)
  OBVIOUS
<1>2. /\ n \in Nat /\ p \in Nat /\ q \in Nat
      /\ \A i \in 1 .. n : /\ words[i].start \in Nat /\ words[i].end \in Nat
                           /\ words[i].start < words[i].end
  <2>1. n \in Nat /\ \A i \in 1 .. n : InText(text, words[i])
    BY <1>1 DEF Ordered
  <2>2. Len(text) \in Nat
    OBVIOUS
  <2> QED
    BY <2>1, <2>2 DEF InText, WordSpan
<1>3. PICK a : a = DisplayPosition(p, SpansOfWords(words))
  OBVIOUS
<1>4. PICK b : b = DisplayPosition(q, SpansOfWords(words))
  OBVIOUS
<1>5. DisplayedAt(words, x, p, a) /\ DisplayedAt(words, x, q, b)
  BY <1>3, <1>4, DisplayOK
<1>6. /\ a \in 0 .. Len(x) /\ b \in 0 .. Len(x)
      /\ \A i \in 1 .. n : Inside(words[i], p) => Width(x, a) = words[i].end
      /\ \A i \in 1 .. n : Inside(words[i], q) => Width(x, b) = words[i].end
      /\ (\A i \in 1 .. n : ~Inside(words[i], p)) => Width(x, a) = p
      /\ (\A i \in 1 .. n : ~Inside(words[i], q)) => Width(x, b) = q
  BY <1>1, <1>5 DEF DisplayedAt
<1>7. x \in Seq(Cell)
  BY DEF WordsPlaced
<1>8. Width(x, a) \in Nat /\ Width(x, b) \in Nat
  BY <1>6, <1>7, WidthOrder
<1>9. Width(x, b) >= q
  <2>1. CASE \E i \in 1 .. n : Inside(words[i], q)
    <3>1. PICK i \in 1 .. n : Inside(words[i], q)
      BY <2>1
    <3>2. Width(x, b) = words[i].end /\ q < words[i].end /\ words[i].end \in Nat
      BY <1>2, <1>6, <3>1 DEF Inside
    <3> QED
      BY <1>2, <3>2
  <2>2. CASE \A i \in 1 .. n : ~Inside(words[i], q)
    <3>1. Width(x, b) = q
      BY <1>6, <2>2
    <3> QED
      BY <1>2, <3>1
  <2> QED
    BY <2>1, <2>2
<1>10. Width(x, a) <= Width(x, b)
  <2>1. CASE \E i \in 1 .. n : Inside(words[i], p)
    <3>1. PICK i \in 1 .. n : Inside(words[i], p)
      BY <2>1
    <3>2. /\ Width(x, a) = words[i].end /\ words[i].start < p /\ p < words[i].end
          /\ words[i].end \in Nat /\ words[i].start \in Nat
      BY <1>2, <1>6, <3>1 DEF Inside
    <3>3. CASE q < words[i].end
      <4>1. words[i].start < q
        BY <1>2, <3>2
      <4>2. Width(x, b) = words[i].end
        BY <1>6, <3>3, <4>1 DEF Inside
      <4> QED
        BY <3>2, <4>2
    <3>4. CASE ~(q < words[i].end)
      BY <1>2, <1>8, <1>9, <3>2, <3>4
    <3> QED
      BY <3>3, <3>4
  <2>2. CASE \A i \in 1 .. n : ~Inside(words[i], p)
    <3>1. Width(x, a) = p
      BY <1>6, <2>2
    <3> QED
      BY <1>2, <1>8, <1>9, <3>1
  <2> QED
    BY <2>1, <2>2
<1>11. a <= b
  BY <1>6, <1>7, <1>10, WidthOrder
<1> QED
  BY <1>3, <1>4, <1>6, <1>11

\* A range of the plain text displayed in x, and when it stays in place.
DisplayedRange(words, x, r, shownAt) ==
    /\ shownAt \in Ranges(x)
    /\ (\A i \in 1 .. Len(words) : ~Inside(words[i], r.loc) /\ ~Inside(words[i], r.loc + r.len))
          => RangeOf(x, shownAt) = r

\* So render's selection is.
LEMMA DisplayRangeOK ==
    ASSUME NEW text \in Seq(Units), NEW words, Ordered(text, words),
           NEW x, WordsPlaced(text, words, Len(words), x), NEW r \in Ranges(Cells(text))
    PROVE  DisplayedRange(words, x, r, DisplayRange(r, SpansOfWords(words)))
<1>1. PICK s : s = SpansOfWords(words)
  OBVIOUS
<1>2. PICK p : p = r.loc
  OBVIOUS
<1>3. PICK q : q = r.loc + r.len
  OBVIOUS
<1>4. Cells(text) \in Seq(Cell) /\ Len(Cells(text)) = Len(text) /\ Len(text) \in Nat
  BY PlainOK DEF IsPlain
<1>5. /\ p \in 0 .. Len(text) /\ q \in 0 .. Len(text) /\ p <= q /\ q - p = r.len
      /\ r = [loc |-> p, len |-> q - p]
  BY <1>2, <1>3, <1>4, RangeIn
<1>6. PICK a : a = DisplayPosition(p, s)
  OBVIOUS
<1>7. PICK b : b = DisplayPosition(q, s)
  OBVIOUS
<1>8. a \in 0 .. Len(x) /\ b \in 0 .. Len(x) /\ a <= b
  BY <1>1, <1>5, <1>6, <1>7, DisplayOrder
<1>9. x \in Seq(Cell) /\ Len(x) \in Nat
  BY DEF WordsPlaced
<1>10. PICK z : z = [loc |-> a, len |-> b - a]
  OBVIOUS
<1>11. DisplayRange(r, s) = z
  BY <1>2, <1>3, <1>6, <1>7, <1>10 DEF DisplayRange
<1>12. z \in Ranges(x) /\ z.loc = a /\ z.loc + z.len = b
  <2>1. a \in Nat /\ b \in Nat /\ b <= Len(x)
    BY <1>8, <1>9
  <2>2. z \in Ranges(x)
    BY <1>8, <1>9, <1>10, <2>1, RangeMade
  <2>3. a + (b - a) = b
    BY <2>1
  <2> QED
    BY <1>10, <2>2, <2>3
<1>13. ASSUME \A i \in 1 .. Len(words) : ~Inside(words[i], p) /\ ~Inside(words[i], q)
       PROVE  RangeOf(x, z) = r
  <2>1. DisplayedAt(words, x, p, a) /\ DisplayedAt(words, x, q, b)
    BY <1>1, <1>5, <1>6, <1>7, DisplayOK
  <2>2. Width(x, a) = p /\ Width(x, b) = q
    BY <1>13, <2>1 DEF DisplayedAt
  <2>3. PlaceOf(x, z)
    BY <1>9, <1>12, PlaceOK
  <2>4. RangeOf(x, z) = [loc |-> p, len |-> q - p]
    BY <1>12, <2>2, <2>3 DEF PlaceOf
  <2> QED
    BY <1>5, <2>4
<1> QED
  BY <1>1, <1>2, <1>3, <1>11, <1>12, <1>13 DEF DisplayedRange

\* No place of the cells lies inside one of them.
LEMMA CellClear ==
    ASSUME NEW cells \in Seq(Cell), NEW k \in 0 .. Len(cells), NEW d \in 1 .. Len(cells),
           NEW w, w.start = Width(cells, d - 1), w.end = Width(cells, d)
    PROVE  ~Inside(w, Width(cells, k))
<1>1. d - 1 \in 0 .. Len(cells) /\ d \in 0 .. Len(cells) /\ d \in Nat /\ k \in Nat /\ Len(cells) \in Nat
  OBVIOUS
<1>2. /\ Width(cells, k) \in Nat /\ Width(cells, d - 1) \in Nat /\ Width(cells, d) \in Nat
      /\ Width(cells, k) <= Width(cells, d - 1) <=> k <= d - 1
      /\ Width(cells, d) <= Width(cells, k) <=> d <= k
  BY <1>1, WidthOrder
<1>3. k <= d - 1 \/ d <= k
  BY <1>1
<1> QED
  BY <1>2, <1>3 DEF Inside

\* In a focused field no chosen word has an end of the selection inside.
LEMMA CaretClear ==
    ASSUME NEW cells \in Seq(Cell), Len(Attached(cells)) <= MaxTokens, NEW place \in Ranges(cells),
           NEW text, NEW names, NEW focus, focus, NEW w, InText(text, w), NEW r,
           r = RangeOf(cells, place), Previews(text, SpansOf(cells), r, names, focus, w)
    PROVE  ~Inside(w, r.loc) /\ ~Inside(w, r.loc + r.len)
<1>1. PICK old : old = SpansOf(cells)
  OBVIOUS
<1>2. PICK p : p = Width(cells, place.loc)
  OBVIOUS
<1>3. PICK q : q = Width(cells, place.loc + place.len)
  OBVIOUS
<1>4. w.start \in Nat /\ w.end \in Nat /\ w.start < w.end
  BY DEF InText, WordSpan
<1>5. place.loc \in 0 .. Len(cells) /\ place.loc + place.len \in 0 .. Len(cells)
      /\ place.loc + place.len \in place.loc .. Len(cells)
  BY RangeIn
<1>6. p \in Nat /\ q \in Nat /\ p <= q /\ r = [loc |-> p, len |-> q - p]
  <2>1. PlaceOf(cells, place)
    BY PlaceOK
  <2>2. p \in Nat /\ q \in Nat /\ r = [loc |-> p, len |-> q - p]
    BY <1>2, <1>3, <2>1 DEF PlaceOf
  <2>3. place.loc \in Nat /\ place.loc + place.len \in Nat /\ place.loc <= place.loc + place.len
    BY <1>5
  <2>4. p <= q
    BY <1>2, <1>3, <1>5, <2>3, WidthOrder
  <2> QED
    BY <2>2, <2>4
<1>7. r.loc = p /\ r.loc + r.len = q
  BY <1>6
<1>8. CASE \E i \in DOMAIN old : /\ old[i].start = w.start
                                 /\ old[i].length = w.end - w.start
  <2>1. PICK i \in DOMAIN old : old[i].start = w.start /\ old[i].length = w.end - w.start
    BY <1>8
  <2>2. Locates(cells, old)
    BY <1>1, SpansLocate
  <2>3. i \in 1 .. Len(old)
    BY <2>2 DEF Locates
  <2>4. PICK d \in 1 .. Len(cells) : IsCell(cells, d, old[i])
    BY <2>2, <2>3 DEF Locates
  <2>5. w.start = Width(cells, d - 1)
    BY <2>1, <2>4 DEF IsCell
  <2>6. w.end = Width(cells, d)
    <3>1. w.start + (w.end - w.start) = w.end
      BY <1>4
    <3> QED
      BY <2>1, <2>4, <3>1 DEF IsCell
  <2> QED
    BY <1>2, <1>3, <1>5, <1>7, <2>5, <2>6, CellClear
<1>9. CASE TokenSafe(w, Len(text), r.loc, r.len)
  <2>1. q <= w.start \/ p >= w.end
    BY <1>7, <1>9 DEF TokenSafe
  <2>2. ~Inside(w, p) /\ ~Inside(w, q)
    BY <1>4, <1>6, <2>1 DEF Inside
  <2> QED
    BY <1>7, <2>2
<1> QED
  BY <1>1, <1>8, <1>9 DEF Previews

\* Rendering a view leaves the text; in a focused field it leaves the place of
\* the selection too.
LEMMA RenderOK ==
    ASSUME NEW v, NEW t, ViewOf(v, t), NEW names, NEW focus
    PROVE  /\ ViewOf(RenderView(v, names, focus), t)
           /\ focus => RangeOf(RenderView(v, names, focus).cells, RenderView(v, names, focus).sel)
                         = RangeOf(v.cells, v.sel)
<1>1. /\ v.cells \in Seq(Cell) /\ Len(Attached(v.cells)) <= MaxTokens
      /\ v.sel \in Ranges(v.cells) /\ Codes(v.cells) = t
  BY DEF ViewOf
<1>2. t \in Seq(Units)
  BY <1>1, CodesSpread
<1>3. PICK old : old = SpansOf(v.cells)
  OBVIOUS
<1>4. PICK plain : plain = Cells(t)
  OBVIOUS
<1>5. PICK r : r = RangeOf(v.cells, v.sel)
  OBVIOUS
<1>6. Expanded(v.cells) = plain /\ String(plain) = t /\ PlainRange(v.sel, old) = r
  <2>1. Expanded(v.cells) = plain
    BY <1>1, <1>4, ExpandedPlain
  <2>2. String(plain) = t
    BY <1>2, <1>4, PlainOK DEF IsPlain
  <2>3. PlainRange(v.sel, old) = r
    BY <1>1, <1>3, <1>5, PlainRangeOK
  <2> QED
    BY <2>1, <2>2, <2>3
<1>7. PICK words : words = Shortened(Previewed(t, old, r, names, focus))
  OBVIOUS
<1>8. /\ Ordered(t, words) /\ Len(words) <= MaxTokens /\ Len(words) \in Nat
      /\ \A i \in 1 .. Len(words) : Previews(t, old, r, names, focus, words[i])
  BY <1>2, <1>7, WordsChosen DEF AreChosen
<1>9. PICK x : x = WithAttachments(plain, t, words)
  OBVIOUS
<1>10. WordsPlaced(t, words, Len(words), x)
  BY <1>2, <1>4, <1>8, <1>9, WithAttachmentsOK
<1>11. x \in Seq(Cell) /\ Codes(x) = t /\ Len(Attached(x)) <= Len(words)
  BY <1>10 DEF WordsPlaced
<1>12. Len(Attached(x)) <= MaxTokens
  <2>1. Attached(x) \in Seq(Cell)
    BY <1>11, CodesSpread
  <2>2. Len(Attached(x)) \in Nat
    BY <2>1
  <2> QED
    BY <1>8, <1>11, <2>2, CatalogsAssumption
<1>13. r \in Ranges(plain)
  BY <1>1, <1>4, <1>5, PlaceIn
<1>14. PICK z : z = DisplayRange(r, SpansOfWords(words))
  OBVIOUS
<1>15. DisplayedRange(words, x, r, z)
  BY <1>2, <1>4, <1>8, <1>10, <1>13, <1>14, DisplayRangeOK
<1>16. z \in Ranges(x) /\ Clamp(z, Len(x)) = z
  <2>1. z \in Ranges(x)
    BY <1>15 DEF DisplayedRange
  <2> QED
    BY <1>11, <2>1, ClampInside
<1>17. focus => RangeOf(x, z) = r
  <2> SUFFICES ASSUME focus PROVE RangeOf(x, z) = r
    OBVIOUS
  <2>1. \A i \in 1 .. Len(words) : InText(t, words[i])
    BY <1>8 DEF Ordered
  <2>2. \A i \in 1 .. Len(words) : ~Inside(words[i], r.loc) /\ ~Inside(words[i], r.loc + r.len)
    BY <1>1, <1>3, <1>5, <1>8, <2>1, CaretClear
  <2> QED
    BY <1>15, <2>2 DEF DisplayedRange
<1>18. PICK u : u = RenderView(v, names, focus)
  OBVIOUS
<1>19. u = v \/ u = [cells |-> x, sel |-> z]
  <2>1. u = RenderWith(v, old, plain, t, r, names, focus)
    BY <1>3, <1>6, <1>18 DEF RenderView
  <2>2. u = RenderWords(v, old, plain, t, r, words)
    BY <1>7, <2>1 DEF RenderWith
  <2>3. u = v \/ u = RenderAs(v, r, words, x)
    BY <1>9, <2>2 DEF RenderWords
  <2>4. RenderAs(v, r, words, x) = v \/ RenderAs(v, r, words, x) = [cells |-> x, sel |-> z]
    BY <1>14, <1>16 DEF RenderAs
  <2> QED
    BY <2>3, <2>4
<1>20. CASE u = v
  BY <1>18, <1>20
<1>21. CASE u = [cells |-> x, sel |-> z]
  <2>1. u.cells = x /\ u.sel = z
    BY <1>21
  <2>2. ViewOf(u, t)
    BY <1>11, <1>12, <1>16, <2>1 DEF ViewOf
  <2> QED
    BY <1>5, <1>17, <1>18, <2>1, <2>2
<1> QED
  BY <1>19, <1>20, <1>21

\* A completion is a range of the plain text.
LEMMA CompletionInside ==
    ASSUME NEW text \in Seq(Units), NEW at, NEW mode, NEW s \in CompletionSpan(text, at, mode)
    PROVE  [loc |-> s.start, len |-> s.length] \in Ranges(Cells(text))
<1> DEFINE Opens(l) == /\ \A i \in l + 1 .. at : text[i] \notin {Space, Object}
                       /\ l > 0 => text[l] \in {Space, Object}
           start == CHOOSE l \in 0 .. at : Opens(l)
           Bounds == {l \in 0 .. at : l > 0 => text[l] \in {Space, Object}}
<1>1. at \in 1 .. Len(text) /\ s = [start |-> start, length |-> at - start]
  BY Zenon DEF CompletionSpan
<1>2. at \in Nat /\ at <= Len(text) /\ Len(text) \in Nat
  BY <1>1
<1>3. Bounds \in SUBSET Nat /\ IsFiniteSet(Bounds) /\ Bounds # {}
  <2>1. 0 \in Bounds
    BY <1>2
  <2>2. 0 \in Int /\ at \in Int
    BY <1>2
  <2>3. IsFiniteSet(0 .. at)
    BY <2>2, FS_Interval
  <2>4. Bounds \subseteq 0 .. at
    OBVIOUS
  <2>5. IsFiniteSet(Bounds)
    BY <2>3, <2>4, FS_Subset
  <2>6. Bounds \in SUBSET Nat
    OBVIOUS
  <2> QED
    BY <2>1, <2>5, <2>6
<1>4. PICK m \in Bounds : \A l \in Bounds : l <= m
  <2> HIDE DEF Bounds
  <2> QED
    BY <1>3, Greatest
<1>5. m \in 0 .. at /\ (m > 0 => text[m] \in {Space, Object})
  OBVIOUS
<1>6. \A i \in m + 1 .. at : text[i] \notin {Space, Object}
  <2> TAKE i \in m + 1 .. at
  <2>1. i \in 0 .. at /\ ~(i <= m)
    BY <1>2, <1>5
  <2>2. i \notin Bounds
    BY <1>4, <2>1
  <2> QED
    BY <2>1, <2>2
<1>7. Opens(m)
  BY <1>5, <1>6
<1>8. start \in 0 .. at
  <2> HIDE DEF Opens
  <2> QED
    BY <1>5, <1>7
<1> HIDE DEF start
<1>9. Cells(text) \in Seq(Cell) /\ Len(Cells(text)) = Len(text)
  BY PlainOK DEF IsPlain
<1>10. [loc |-> start, len |-> at - start] \in Ranges(Cells(text))
  <2>1. start \in Nat /\ start <= at
    BY <1>2, <1>8
  <2> QED
    BY <1>2, <1>9, <2>1, RangeMade
<1> QED
  BY <1>1, <1>10

-----------------------------------------------------------------------------
(* The text field.                                                           *)

\* A view of the text t with its selection at the place p.
IsView(v, t, p) == ViewOf(v, t) /\ RangeOf(v.cells, v.sel) = p

\* The inductive invariant: the storage is made of units and of no more
\* attachments than expanded_copy converts, it and its selection stand for the
\* ghosts, and Twitch has the text unless some of it is marked.
TextOK == IsView(View, entered, caret) /\ (~marked => twitch = entered)

\* The empty view.
LEMMA EmptyView ==
    /\ IsView([cells |-> <<>>, sel |-> [loc |-> 0, len |-> 0]], <<>>, [loc |-> 0, len |-> 0])
<1>1. PICK r : r = [loc |-> 0, len |-> 0]
  OBVIOUS
<1>2. <<>> \in Seq(Units) /\ Cells(<<>>) = <<>>
  BY DEF Cells
<1>3. <<>> \in Seq(Cell) /\ Codes(<<>>) = <<>> /\ Len(Attached(<<>>)) = 0
  BY <1>2, PlainOK DEF IsPlain
<1>4. r \in Ranges(<<>>)
  <2>1. 0 \in 0 .. Len(<<>>) /\ 0 + 0 <= Len(<<>>)
    OBVIOUS
  <2> QED
    BY <1>1, <2>1 DEF Ranges
<1>5. RangeOf(<<>>, r) = r
  BY <1>2, <1>4, PlainPlace
<1>6. PICK v : v = [cells |-> <<>>, sel |-> r]
  OBVIOUS
<1>7. v.cells = <<>> /\ v.sel = r
  BY <1>6
<1>8. 0 <= MaxTokens
  BY CatalogsAssumption
<1>9. ViewOf(v, <<>>)
  BY <1>3, <1>4, <1>7, <1>8 DEF ViewOf
<1> QED
  BY <1>1, <1>5, <1>6, <1>7, <1>9 DEF IsView

\* What a callback leaves is the view.
LEMMA LeaveOK ==
    ASSUME NEW v, NEW t, NEW p, IsView(v, t, p), Leave(v)
    PROVE  IsView(View', t, p)
<1>1. shown' = v.cells /\ sel' = v.sel
  BY DEF Leave
<1>2. View'.cells = v.cells /\ View'.sel = v.sel
  BY <1>1 DEF View
<1>3. ViewOf(View', t)
  BY <1>2 DEF IsView, ViewOf
<1> QED
  BY <1>2, <1>3 DEF IsView

\* native_changed gives Twitch the text.
LEMMA NativeTextOK ==
    ASSUME NEW cells \in Seq(Cell), Len(Attached(cells)) <= MaxTokens
    PROVE  NativeText(cells, FALSE) = Codes(cells)
<1>1. Codes(cells) \in Seq(Units)
  BY CodesSpread
<1>2. Expanded(cells) = Cells(Codes(cells))
  BY ExpandedPlain
<1>3. String(Cells(Codes(cells))) = Codes(cells)
  BY <1>1, PlainOK DEF IsPlain
<1> QED
  BY <1>2, <1>3 DEF NativeText

\* An edit of any view of the text.
LEMMA EditLeaves ==
    ASSUME NEW v, NEW p, IsView(v, entered, p), NEW r \in Ranges(v.cells),
           NEW new \in Seq(Units), NEW mark, UIKitEdit(v, r.loc, r.len, new, mark)
    PROVE  IsView(View', entered', caret') /\ (mark = FALSE => twitch' = entered')
<1>1. /\ v.cells \in Seq(Cell) /\ Len(Attached(v.cells)) <= MaxTokens /\ Codes(v.cells) = entered
  BY DEF IsView, ViewOf
<1>2. PICK y : y = Splice(v.cells, r.loc, r.len, Cells(new))
  OBVIOUS
<1>3. PICK place : place = RangeOf(v.cells, r)
  OBVIOUS
<1>4. PICK after : after = [loc |-> r.loc + Len(new), len |-> 0]
  OBVIOUS
<1>5. /\ ViewOf([cells |-> y, sel |-> after], Splice(entered, place.loc, place.len, new))
      /\ RangeOf(y, after) = [loc |-> place.loc + Len(new), len |-> 0]
  <2>1. EditedText(v.cells, entered, r, new)
    BY <1>1, EditOK
  <2> QED
    BY <1>2, <1>3, <1>4, <2>1 DEF EditedText
<1>6. r = [loc |-> r.loc, len |-> r.len]
  BY <1>1, RangeIn
<1>7. EditedAs(y, place, r.loc, new, mark)
  BY <1>2, <1>3, <1>6 DEF UIKitEdit
<1>8. PICK w : w = [cells |-> y, sel |-> after]
  OBVIOUS
<1>9. /\ Leave(w) /\ twitch' = NativeText(y, mark)
      /\ entered' = Splice(entered, place.loc, place.len, new)
      /\ caret' = [loc |-> place.loc + Len(new), len |-> 0]
  BY <1>4, <1>7, <1>8 DEF EditedAs
<1>10. w.cells = y /\ w.sel = after
  BY <1>8
<1>11. IsView(w, entered', caret')
  BY <1>5, <1>8, <1>9, <1>10 DEF IsView
<1>12. IsView(View', entered', caret')
  BY <1>9, <1>11, LeaveOK
<1>13. ASSUME mark = FALSE PROVE twitch' = entered'
  <2>1. y \in Seq(Cell) /\ Len(Attached(y)) <= MaxTokens /\ Codes(y) = entered'
    BY <1>10, <1>11 DEF IsView, ViewOf
  <2> QED
    BY <1>9, <1>13, <2>1, NativeTextOK
<1> QED
  BY <1>12, <1>13

\* A view expanded, and one rendered.
LEMMA ExpandIs ==
    ASSUME NEW v, NEW t, NEW p, IsView(v, t, p)
    PROVE  IsView(ExpandView(v), t, p) /\ ExpandView(v).cells = Cells(t) /\ t \in Seq(Units)
BY ExpandOK DEF IsView

LEMMA RenderIs ==
    ASSUME NEW v, NEW t, NEW p, IsView(v, t, p), NEW names, NEW focus
    PROVE  /\ ViewOf(RenderView(v, names, focus), t)
           /\ focus => IsView(RenderView(v, names, focus), t, p)
BY RenderOK DEF IsView

\* The callbacks that render leave a view, with the selection where it was or
\* where the ghost follows it.
LEMMA RenderedOK ==
    ASSUME NEW v, IsView(v, entered, caret), NEW focus, Rendered(v, focus)
    PROVE  IsView(View', entered, caret')
<1>1. PICK u : u = RenderView(v, known, focus)
  OBVIOUS
<1>2. Leave(u) /\ caret' = IF focus THEN caret ELSE RangeOf(u.cells, u.sel)
  BY <1>1 DEF Rendered, LeaveRendered
<1>3. ViewOf(u, entered) /\ (focus => IsView(u, entered, caret))
  BY <1>1, RenderIs
<1>4. IsView(u, entered, caret')
  BY <1>2, <1>3 DEF IsView
<1> QED
  BY <1>2, <1>4, LeaveOK

\* A view left alone.
LEMMA SameView ==
    ASSUME NEW t, NEW p, IsView(View, t, p), UNCHANGED <<shown, sel>>
    PROVE  IsView(View', t, p)
<1>1. View' = View
  BY DEF View
<1> QED
  BY <1>1

\* An edit of an expanded or rendered view, as cut:, paste:, undo and a key of
\* the menu make it.
LEMMA EditInOK ==
    ASSUME NEW v, NEW p, IsView(v, entered, p), NEW r, NEW new \in Seq(Units), EditIn(v, r, new)
    PROVE  TextOK'
<1>1. r \in Ranges(v.cells) /\ UIKitEdit(v, r.loc, r.len, new, FALSE)
  BY DEF EditIn
<1>2. IsView(View', entered', caret') /\ (FALSE = FALSE => twitch' = entered')
  BY <1>1, EditLeaves
<1> QED
  BY <1>2 DEF TextOK

\* What is pasted and typed are units.
LEMMA TypedUnits ==
    /\ \A new \in Typed : new \in Seq(Units)
    /\ \A new \in Pasted : new \in Seq(Units)
    /\ <<>> \in Seq(Units) /\ \A c \in Units : <<c>> \in Seq(Units)
    /\ \A name \in Names : Append(name, Space) \in Seq(Units)
<1>1. Letters \subseteq Units /\ Space \in Units
  BY DEF Units
<1>2. \A c \in Units : <<c>> \in Seq(Units)
  OBVIOUS
<1>3. <<>> \in Seq(Units)
  OBVIOUS
<1>4. \A new \in Typed : new \in Seq(Units)
  BY <1>2, <1>3 DEF Typed
<1>5. \A new \in Pasted : new \in Seq(Units)
  BY <1>1, <1>2, <1>3 DEF Pasted
<1>6. \A name \in Names : Append(name, Space) \in Seq(Units)
  <2> TAKE name \in Names
  <2>1. name \in Seq(Units)
    BY CatalogsAssumption
  <2> QED
    BY <1>1, <2>1
<1> QED
  BY <1>2, <1>3, <1>4, <1>5, <1>6

\* The field starts empty.
LEMMA TextInitOK == TextInit => TextOK
<1> SUFFICES ASSUME TextInit PROVE TextOK
  OBVIOUS
<1>1. shown = <<>> /\ sel = [loc |-> 0, len |-> 0] /\ twitch = <<>> /\ entered = <<>>
      /\ caret = [loc |-> 0, len |-> 0]
  BY DEF TextInit
<1>2. View = [cells |-> <<>>, sel |-> [loc |-> 0, len |-> 0]]
  BY <1>1 DEF View
<1> QED
  BY <1>1, <1>2, EmptyView DEF TextOK

\* Sending: Twitch reads the codes, and what it leaves is rendered.
LEMMA SendOK ==
    ASSUME TextOK, NEW cleared \in BOOLEAN, Send(cleared)
    PROVE  TextOK'
<1>1. IsView(View, entered, caret)
  BY DEF TextOK
<1>2. /\ shown \in Seq(Cell) /\ Len(Attached(shown)) <= MaxTokens /\ sel \in Ranges(shown)
      /\ Codes(shown) = entered /\ RangeOf(shown, sel) = caret
  <2>1. View.cells = shown /\ View.sel = sel
    BY DEF View
  <2> QED
    BY <1>1, <2>1 DEF IsView, ViewOf
<1>3. entered \in Seq(Units)
  BY <1>2, CodesSpread
<1>4. PICK v : v = IF marked THEN [cells |-> Expanded(shown), sel |-> PlainRange(sel, SpansOf(shown))]
                   ELSE ExpandView(View)
  OBVIOUS
<1>5. IsView(v, entered, caret) /\ v.cells = Cells(entered)
  <2>1. CASE marked
    <3>1. Expanded(shown) = Cells(entered) /\ PlainRange(sel, SpansOf(shown)) = caret
      BY <1>2, ExpandedPlain, PlainRangeOK
    <3>2. v.cells = Cells(entered) /\ v.sel = caret
      BY <1>4, <2>1, <3>1
    <3>3. caret \in Ranges(Cells(entered))
      BY <1>2, PlaceIn
    <3>4. RangeOf(Cells(entered), caret) = caret
      BY <1>3, <3>3, PlainPlace
    <3>5. Cells(entered) \in Seq(Cell) /\ Codes(Cells(entered)) = entered /\ Len(Attached(Cells(entered))) = 0
      BY <1>3, PlainOK DEF IsPlain
    <3>6. Len(Attached(Cells(entered))) <= MaxTokens
      BY <3>5, CatalogsAssumption
    <3>7. ViewOf(v, entered)
      BY <3>2, <3>3, <3>5, <3>6 DEF ViewOf
    <3> QED
      BY <3>2, <3>4, <3>7 DEF IsView
  <2>2. CASE ~marked
    <3>1. v = ExpandView(View)
      BY <1>4, <2>2
    <3> QED
      BY <1>1, <3>1, ExpandIs
  <2> QED
    BY <2>1, <2>2
<1>6. SendFrom(v, cleared)
  BY <1>4 DEF Send
<1>7. CASE cleared
  <2>1. PICK w : w = [cells |-> <<>>, sel |-> [loc |-> 0, len |-> 0]]
    OBVIOUS
  <2>2. Leave(w) /\ twitch' = <<>> /\ entered' = <<>> /\ caret' = [loc |-> 0, len |-> 0]
    BY <1>6, <1>7, <2>1 DEF SendFrom
  <2>3. IsView(w, entered', caret')
    BY <2>1, <2>2, EmptyView
  <2>4. IsView(View', entered', caret')
    BY <2>2, <2>3, LeaveOK
  <2> QED
    BY <2>2, <2>4 DEF TextOK
<1>8. CASE ~cleared
  <2>1. /\ IF scheduled THEN Leave(v) /\ UNCHANGED caret ELSE Rendered(v, focused)
        /\ twitch' = String(v.cells) /\ entered' = entered
    BY <1>6, <1>8 DEF SendFrom
  <2>2. IsView(View', entered, caret')
    BY <1>5, <2>1, LeaveOK, RenderedOK
  <2>3. twitch' = entered
    <3>1. String(Cells(entered)) = entered
      BY <1>3, PlainOK DEF IsPlain
    <3> QED
      BY <1>5, <2>1, <3>1
  <2> QED
    BY <2>1, <2>2, <2>3 DEF TextOK
<1> QED
  BY <1>7, <1>8

\* Choosing a code in the picker or as a completion.
LEMMA ChooseOK ==
    ASSUME TextOK, NEW name \in Names, NEW suggestion \in BOOLEAN, Choose(name, suggestion)
    PROVE  TextOK'
<1>1. PICK v : v = ExpandView(View)
  OBVIOUS
<1>2. IsView(v, entered, caret) /\ v.cells = Cells(entered) /\ entered \in Seq(Units)
  <2>1. IsView(View, entered, caret)
    BY DEF TextOK
  <2> QED
    BY <1>1, <2>1, ExpandIs
<1>3. PICK spans : spans = Completions(v)
  OBVIOUS
<1>4. PICK r \in IF suggestion THEN {[loc |-> s.start, len |-> s.length] : s \in spans} ELSE {v.sel} :
         ~marked /\ marked' = marked /\ UIKitEdit(v, r.loc, r.len, Append(name, Space), FALSE)
  <2>1. ChooseIn(v, spans, name, suggestion)
    BY <1>1, <1>3 DEF Choose
  <2> QED
    BY <2>1 DEF ChooseIn
<1>5. r \in Ranges(v.cells)
  <2>1. CASE suggestion
    <3>1. PICK s \in spans : r = [loc |-> s.start, len |-> s.length]
      BY <1>4, <2>1
    <3>2. spans = IF sel.len > 0 THEN {} ELSE CompletionSpan(entered, v.sel.loc, 0)
      <4>1. String(v.cells) = entered
        BY <1>2, PlainOK DEF IsPlain
      <4> QED
        BY <1>3, <4>1 DEF Completions
    <3>3. s \in CompletionSpan(entered, v.sel.loc, 0)
      BY <3>1, <3>2
    <3> QED
      BY <1>2, <3>1, <3>3, CompletionInside
  <2>2. CASE ~suggestion
    <3>1. r = v.sel
      BY <1>4, <2>2
    <3> QED
      BY <1>2, <3>1 DEF IsView, ViewOf
  <2> QED
    BY <2>1, <2>2
<1>6. Append(name, Space) \in Seq(Units)
  BY TypedUnits
<1>7. IsView(View', entered', caret') /\ (FALSE = FALSE => twitch' = entered')
  BY <1>2, <1>4, <1>5, <1>6, EditLeaves
<1> QED
  BY <1>7 DEF TextOK

\* Every callback keeps the invariant.
LEMMA TextStepOK == TextOK /\ [TextNext]_textVars => TextOK'
<1> SUFFICES ASSUME TextOK, [TextNext]_textVars PROVE TextOK'
  OBVIOUS
<1>1. IsView(View, entered, caret) /\ (~marked => twitch = entered)
  BY DEF TextOK
<1>2. View.cells = shown /\ View.sel = sel
  BY DEF View
<1>3. /\ shown \in Seq(Cell) /\ Len(Attached(shown)) <= MaxTokens /\ sel \in Ranges(shown)
      /\ Codes(shown) = entered
  BY <1>1, <1>2 DEF IsView, ViewOf
<1>4. IsView(ExpandView(View), entered, caret)
  BY <1>1, ExpandIs
<1>5. ASSUME NEW r \in Ranges(shown), NEW new \in Typed, Edit(r, new) PROVE TextOK'
  <2>1. UIKitEdit(View, r.loc, r.len, new, FALSE)
    BY <1>5 DEF Edit
  <2>2. new \in Seq(Units) /\ r \in Ranges(View.cells)
    BY <1>2, TypedUnits
  <2>3. IsView(View', entered', caret') /\ (FALSE = FALSE => twitch' = entered')
    BY <1>1, <2>1, <2>2, EditLeaves
  <2> QED
    BY <2>3 DEF TextOK
<1>6. ASSUME NEW c \in Units, Mark(c) PROVE TextOK'
  <2>1. UIKitEdit(View, sel.loc, sel.len, <<c>>, TRUE) /\ marked' = TRUE
    BY <1>6 DEF Mark
  <2>2. <<c>> \in Seq(Units) /\ sel \in Ranges(View.cells)
    BY <1>2, <1>3, TypedUnits
  <2>3. IsView(View', entered', caret')
    BY <1>1, <2>1, <2>2, EditLeaves
  <2> QED
    BY <2>1, <2>3 DEF TextOK
<1>7. CASE Commit
  <2>1. /\ twitch' = NativeText(shown, FALSE) /\ UNCHANGED <<shown, sel>>
        /\ entered' = entered /\ caret' = caret
    BY <1>7 DEF Commit
  <2>2. twitch' = entered
    BY <1>3, <2>1, NativeTextOK
  <2>3. IsView(View', entered, caret)
    BY <1>1, <2>1, SameView
  <2> QED
    BY <2>1, <2>2, <2>3 DEF TextOK
<1>8. ASSUME NEW r \in Ranges(shown), Select(r) PROVE TextOK'
  <2>1. /\ sel' = r /\ caret' = RangeOf(shown, r) /\ shown' = shown /\ marked' = marked
        /\ twitch' = twitch /\ entered' = entered
    BY <1>8 DEF Select
  <2>2. View'.cells = shown /\ View'.sel = r
    BY <2>1 DEF View
  <2>3. IsView(View', entered, caret')
    BY <1>3, <2>1, <2>2 DEF IsView, ViewOf
  <2> QED
    BY <1>1, <2>1, <2>3 DEF TextOK
<1>9. CASE UNCHANGED <<shown, sel, marked, twitch, entered, caret>>
  <2>1. IsView(View', entered, caret)
    BY <1>1, <1>9, SameView
  <2> QED
    BY <1>1, <1>9, <2>1 DEF TextOK
<1>10. CASE Focus \/ ImageChanged \/ \E names \in Catalogs : NamesArrive(names)
  <2>1. UNCHANGED <<shown, sel, marked, twitch, entered, caret>>
    BY <1>10 DEF Focus, ImageChanged, NamesArrive, SamePlace
  <2> QED
    BY <1>9, <2>1
<1>11. CASE Blur
  <2>1. Leave(ExpandView(View)) /\ UNCHANGED <<marked, twitch, entered, caret>>
    BY <1>11 DEF Blur, SamePlace
  <2>2. IsView(View', entered, caret)
    BY <1>4, <2>1, LeaveOK
  <2> QED
    BY <1>1, <2>1, <2>2 DEF TextOK
<1>12. CASE PreviewReady
  <2>1. /\ IF marked THEN UNCHANGED <<shown, sel, caret>> ELSE Rendered(View, focused)
        /\ UNCHANGED <<marked, twitch, entered>>
    BY <1>12 DEF PreviewReady
  <2>2. CASE marked
    <3>1. UNCHANGED <<shown, sel, marked, twitch, entered, caret>>
      BY <2>1, <2>2
    <3> QED
      BY <1>9, <3>1
  <2>3. CASE ~marked
    <3>1. Rendered(View, focused)
      BY <2>1, <2>3
    <3>2. IsView(View', entered, caret')
      BY <1>1, <3>1, RenderedOK
    <3> QED
      BY <1>1, <2>1, <3>2 DEF TextOK
  <2> QED
    BY <2>2, <2>3
<1>13. ASSUME NEW names \in Catalogs, RoomChanged(names) PROVE TextOK'
  <2>1. /\ Leave(IF marked THEN View ELSE ExpandView(View))
        /\ UNCHANGED <<marked, twitch, entered, caret>>
    BY <1>13 DEF RoomChanged, SamePlace
  <2>2. IsView(View', entered, caret)
    BY <1>1, <1>4, <2>1, LeaveOK
  <2> QED
    BY <1>1, <2>1, <2>2 DEF TextOK
<1>14. CASE Around
  <2>1. /\ IF scheduled THEN Leave(ExpandView(View)) /\ UNCHANGED caret
           ELSE Rendered(ExpandView(View), focused)
        /\ UNCHANGED <<marked, twitch, entered>>
    BY <1>14 DEF Around
  <2>2. IsView(View', entered, caret')
    BY <1>4, <2>1, LeaveOK, RenderedOK
  <2> QED
    BY <1>1, <2>1, <2>2 DEF TextOK
<1>15. ASSUME NEW r \in Ranges(ExpandView(View).cells), NEW new \in Pasted, ExpandedEdit(r, new)
       PROVE  TextOK'
  <2>1. EditIn(ExpandView(View), r, new)
    BY <1>15 DEF ExpandedEdit
  <2>2. new \in Seq(Units)
    BY TypedUnits
  <2> QED
    BY <1>4, <2>1, <2>2, EditInOK
<1>16. CASE MenuBackspace
  <2>1. PICK u : u = RenderView(View, known, focused)
    OBVIOUS
  <2>2. ViewOf(u, entered)
    BY <1>1, <2>1, RenderIs
  <2>3. PICK p : p = RangeOf(u.cells, u.sel)
    OBVIOUS
  <2>4. IsView(u, entered, p)
    BY <2>2, <2>3 DEF IsView
  <2>5. EditIn(u, Before(u.sel), <<>>)
    BY <1>16, <2>1 DEF MenuBackspace, DeleteIn
  <2> QED
    BY <2>4, <2>5, TypedUnits, EditInOK
<1>17. ASSUME NEW name \in Names, NEW suggestion \in BOOLEAN, Choose(name, suggestion)
       PROVE  TextOK'
  BY <1>17, ChooseOK
<1>18. ASSUME NEW cleared \in BOOLEAN, Send(cleared) PROVE TextOK'
  BY <1>18, SendOK
<1>19. CASE UNCHANGED textVars
  <2>1. UNCHANGED <<shown, sel, marked, twitch, entered, caret>>
    BY <1>19 DEF textVars
  <2> QED
    BY <1>9, <2>1
<1> QED
  BY <1>5, <1>6, <1>7, <1>8, <1>10, <1>11, <1>12, <1>13, <1>14, <1>15, <1>16, <1>17, <1>18, <1>19
     DEF TextNext

\* The invariant gives the property.
LEMMA TextOKKept == TextOK => TextKept
<1> SUFFICES ASSUME TextOK PROVE TextKept
  OBVIOUS
<1>1. IsView(View, entered, caret) /\ (~marked => twitch = entered)
  BY DEF TextOK
<1>2. View.cells = shown /\ View.sel = sel
  BY DEF View
<1>3. /\ shown \in Seq(Cell) /\ Len(Attached(shown)) <= MaxTokens /\ sel \in Ranges(shown)
      /\ Codes(shown) = entered /\ RangeOf(shown, sel) = caret
  BY <1>1, <1>2 DEF IsView, ViewOf
<1>4. entered \in Seq(Units)
  BY <1>3, CodesSpread
<1>5. String(Expanded(shown)) = entered
  <2>1. Expanded(shown) = Cells(entered)
    BY <1>3, ExpandedPlain
  <2> QED
    BY <1>4, <2>1, PlainOK DEF IsPlain
<1>6. ASSUME NEW r \in Ranges(shown), NEW new \in {<<>>, <<Space>>}
      PROVE  EditsTheSame(r, PlainRange(r, SpansOf(shown)), new)
  <2>1. new \in Seq(Units)
    <3>1. Space \in Units
      BY DEF Units
    <3> QED
      BY <3>1, TypedUnits
  <2>2. PICK place : place = RangeOf(shown, r)
    OBVIOUS
  <2>3. PICK y : y = Splice(shown, r.loc, r.len, Cells(new))
    OBVIOUS
  <2>4. EditedText(shown, entered, r, new)
    BY <1>3, <2>1, EditOK
  <2>5. PICK w : w = [cells |-> y, sel |-> [loc |-> r.loc + Len(new), len |-> 0]]
    OBVIOUS
  <2>6. ViewOf(w, Splice(entered, place.loc, place.len, new)) /\ w.cells = y
    BY <2>2, <2>3, <2>4, <2>5 DEF EditedText
  <2>7. Codes(y) = Splice(entered, place.loc, place.len, new)
    BY <2>6 DEF ViewOf
  <2>8. PlainRange(r, SpansOf(shown)) = place
    BY <1>3, <2>2, PlainRangeOK
  <2> QED
    BY <1>5, <2>3, <2>7, <2>8 DEF EditsTheSame
<1>7. ValidatedAsEdited
  BY <1>6 DEF ValidatedAsEdited
<1>8. CodesKept /\ CaretKept
  BY <1>1, <1>3 DEF CodesKept, CaretKept
<1> QED
  BY <1>7, <1>8 DEF TextKept

\* What the user sees, what Twitch validates and what is sent are one text,
\* with one caret, however the field is edited, rendered, expanded and sent
\* (visual_text, expand, render, native_validation, send_message): for every
\* text, any catalogs and any number of attachments.
THEOREM AlwaysTextKept == TextSpec => []TextKept
<1>1. TextInit => TextOK
  BY TextInitOK
<1>2. TextOK /\ [TextNext]_textVars => TextOK'
  BY TextStepOK
<1>3. TextOK => TextKept
  BY TextOKKept
<1> QED
  BY <1>1, <1>2, <1>3, PTL DEF TextSpec
=============================================================================
