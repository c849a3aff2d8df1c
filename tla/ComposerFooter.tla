--------------------------- MODULE ComposerFooter ---------------------------
\* The footer of Twitch's emote palette (SSComposer.c).  Twitch tints the button
\* of the section that leads the palette and underlines it; the composer paints
\* over that while its own rows lead, the provider library or the recent row,
\* and hands back what Twitch asked for.  Twitch writes colours from apply:,
\* and from workers that answer to its scroll callback one view at a time.
\*
\* A definition introduced as a fault is a plausible mistake in the one after
\* it; no specification uses it.
EXTENDS Integers, FiniteSets

CONSTANTS
    Accent, Plain, Nil,     \* colours: selected, not selected, no underline
    Selectable              \* bound: the sections Twitch selects

Sections == 1..3                    \* Recent, channel, all
Views == 1..6                       \* the buttons' tints, then the underlines
Colours == {Accent, Plain, Nil}

ASSUME FooterAssumption == Cardinality(Colours) = 3 /\ Selectable \subseteq Sections

VARIABLES
    paint,      \* the colours shown, and what State keeps about them
    lead,       \* what leads the visible content: "library", "recent", "native"
    section,    \* the section Twitch's model selects
    owed,       \* views a worker is still to write
    want,       \* ghost: the colours Twitch asked for last
    lost        \* ghost: of those, the ones written under the recent row's paint

footVars == <<paint, lead, section, owed, want, lost>>

\* How Twitch paints a selection.
Native(k) == [v \in Views |-> IF v = k \/ v = k + 3 THEN Accent
                              ELSE IF v <= 3 THEN Plain ELSE Nil]

Unset == [v \in Views |-> Nil]

FootInit ==
    /\ section = 1 /\ want = Native(1)
    /\ paint = [shown |-> Native(1), tab |-> 0, inactive |-> Nil,
                recent |-> FALSE, recentColours |-> Unset,
                library |-> FALSE, libraryColours |-> Unset]
    /\ lead = "native" /\ owed = {} /\ lost = {}

RestoreRecent(p) ==
    IF p.recent
    THEN [p EXCEPT !.shown = p.recentColours, !.recent = FALSE, !.recentColours = Unset]
    ELSE p
RestoreLibrary(p) ==
    IF p.library
    THEN [p EXCEPT !.shown = p.libraryColours, !.library = FALSE,
                   !.libraryColours = Unset, !.inactive = Nil]
    ELSE p
RestoreNative(p) == [RestoreLibrary(RestoreRecent(p)) EXCEPT !.tab = 0]

\* update_library_highlight: the native colours are kept once, and the one that
\* stands for "not selected" is read from them.
UpdateLibrary(p) ==
    LET kept == IF p.library THEN p.libraryColours ELSE p.shown
        plains == {i \in Sections : kept[i + 3] = Nil}
        last == CHOOSE i \in plains : \A j \in plains : j <= i
        inactive == IF plains = {} THEN Plain ELSE kept[last]
    IN  IF p.tab # 1 THEN p
        ELSE [p EXCEPT !.library = TRUE, !.libraryColours = kept, !.inactive = inactive,
                       !.shown = [v \in Views |-> IF v <= 3 THEN inactive ELSE Nil]]

\* update_recent_highlight: over another section only.
UpdateRecent(p, leads) ==
    LET accent == IF p.shown[5] # Nil THEN p.shown[5] ELSE p.shown[6]
    IN  IF ~(leads = "recent" /\ p.tab # 1) THEN RestoreRecent(p)
        ELSE IF p.recent \/ p.shown[4] # Nil \/ accent = Nil THEN p
        ELSE [p EXCEPT !.recent = TRUE, !.recentColours = p.shown,
                       !.shown = [v \in Views |-> IF v \in {1, 4} THEN accent
                                                  ELSE IF v <= 3 THEN p.shown[1] ELSE Nil]]

\* update_inline_selection.
UpdateInline(p, leads) ==
    IF leads = "library"
    THEN UpdateLibrary([RestoreRecent(p) EXCEPT !.tab = 1])
    ELSE [RestoreLibrary(p) EXCEPT !.tab = 0]

\* Fault: what Twitch paints is shown, whoever leads.
WrittenThrough(p, views, colours) ==
    [p EXCEPT !.shown = [v \in Views |-> IF v \in views THEN colours[v] ELSE @[v]]]

\* footer_paint_color: a colour Twitch asks for under the library's paint is
\* kept for later; any other is shown.
Written(p, views, colours) ==
    LET new(old) == [v \in Views |-> IF v \in views THEN colours[v] ELSE old[v]]
    IN  IF p.tab = 1 /\ p.library
        THEN [p EXCEPT !.libraryColours = new(@)]
        ELSE [p EXCEPT !.shown = new(@)]

\* The ghosts: what is written under the recent row's paint is forgotten.
TwitchWrites(p, views, colours) ==
    /\ want' = [v \in Views |-> IF v \in views THEN colours[v] ELSE want[v]]
    /\ lost' = IF p.recent THEN lost \cup views ELSE lost \ views

\* footer_apply, with the install_footer in it.
Apply(k) ==
    LET clean == IF paint.tab = 1 THEN RestoreRecent(paint)
                 ELSE RestoreLibrary(RestoreRecent(paint))
        written == Written(clean, Views, Native(k))
    IN  /\ section' = k /\ owed' = {}
        /\ paint' = UpdateRecent(UpdateLibrary(written), lead)
        /\ TwitchWrites(clean, Views, Native(k))
        /\ UNCHANGED lead

\* palette_scrolled: unless the library leads, Twitch's callback selects the
\* section that does, and its workers are to show that.  collection_layout
\* follows, and places the recent row.
Scroll(leads, k) ==
    LET before == UpdateInline(paint, leads)
        quiet == before.tab = 1 /\ before.library
    IN  /\ lead' = leads
        /\ section' = IF quiet THEN section ELSE k
        /\ owed' = IF quiet \/ k = section THEN owed
                   ELSE {v \in Views : Native(k)[v] # want[v]}
        /\ paint' = UpdateInline(UpdateRecent(before, leads), leads)
        /\ UNCHANGED <<want, lost>>

\* A worker's write, which no callback of the composer surrounds.
WorkerWrites(v) ==
    /\ v \in owed
    /\ owed' = owed \ {v}
    /\ paint' = Written(paint, {v}, Native(section))
    /\ TwitchWrites(paint, {v}, Native(section))
    /\ UNCHANGED <<lead, section>>

\* footer_action: a native button restores the footer before Twitch acts on it;
\* the refresh after it places the rows again.
Press(leads) ==
    LET restored == RestoreNative(paint)
    IN  /\ lead' = leads
        /\ paint' = UpdateInline(UpdateRecent(restored, leads), leads)
        /\ UNCHANGED <<section, owed, want, lost>>

\* install_footer, from a layout; and for another footer, which Twitch has
\* painted before.
FooterLayout == paint' = UpdateLibrary(paint) /\ UNCHANGED <<lead, section, owed, want, lost>>

OtherFooter(k) ==
    /\ paint' = [RestoreNative(paint) EXCEPT !.shown = Native(k)]
    /\ section' = k /\ want' = Native(k) /\ owed' = {} /\ lost' = {}
    /\ UNCHANGED lead

\* detach_recents: the palette goes.
Detach ==
    /\ lead' = "native"
    /\ paint' = RestoreNative(paint)
    /\ UNCHANGED <<section, owed, want, lost>>

FootNext ==
    \/ \E k \in Selectable : Apply(k) \/ OtherFooter(k)
    \/ \E k \in Selectable, leads \in {"library", "recent", "native"} : Scroll(leads, k)
    \/ \E leads \in {"library", "recent", "native"} : Press(leads)
    \/ \E v \in Views : WorkerWrites(v)
    \/ FooterLayout
    \/ Detach

FootSpec == FootInit /\ [][FootNext]_footVars

-----------------------------------------------------------------------------
\* Twitch's footer is handed back as Twitch wants it: with none of our paint on
\* it every view has the colour Twitch asked for last, although Twitch asked for
\* some while they were painted over; only under the recent row's paint, which
\* nothing guards, is a worker's colour lost.  And while the library leads, no
\* native section looks selected, whatever Twitch's workers write.
FooterRestored ==
    /\ ~paint.library /\ ~paint.recent =>
           \A v \in Views \ lost : paint.shown[v] = want[v]
    /\ paint.library =>
           \A v \in Views : paint.shown[v] = IF v <= 3 THEN paint.inactive ELSE Nil
=============================================================================
