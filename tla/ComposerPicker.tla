--------------------------- MODULE ComposerPicker ---------------------------
\* The composer's rows in Twitch's emote palette (SSComposer.c): the library of
\* provider emotes, a snapshot of a catalogue that other threads change under
\* g_emote_lock; the recent row, which sits in the palette's top inset; and the
\* gap the library opens between Twitch's own sections.
\*
\* All of it runs on the main thread.  refresh_library reads the catalogue's
\* revision without the lock, and copies the catalogue under it.
\*
\* A definition introduced as a fault is a plausible mistake in the one after
\* it; no specification uses it.
EXTENDS Integers, Sequences, FiniteSets, SequencesExt

CONSTANTS
    Absent,
    Channels, Providers,    \* what the library may be of
    Palettes,               \* collections Twitch may show
    Layouts,                \* Twitch's own layouts: sequences of sections
    RowHeight,              \* of the recent row (48)
    MaxRevision             \* bound: changes of the catalogue, and aspects learnt

ASSUME PickerAssumption ==
    /\ Absent \notin Palettes
    /\ RowHeight \in Nat \ {0} /\ MaxRevision \in Nat
    /\ Layouts \subseteq Seq([header : Nat, top : Nat, bottom : Nat, cells : Seq(Nat)])

VARIABLES
    catalogue,      \* the version of the sets; how many aspects have been learnt;
                    \* the stage of the writer that holds g_emote_lock, or "free";
                    \* ghost: the aspects known when the revision was last raised
    revision,       \* g_catalog_revision
    wanted,         \* room, library and library_scope
    library,        \* the snapshot: what it is of, and which version
    reading,        \* the revision refresh_library has read, Absent outside it
    copied,         \* the contents it has copied, version 0 before
    open,           \* recent_menu_open
    row,            \* number of recent_entries
    palette,        \* recent_content
    height,         \* recent_height
    inset,          \* each palette's contentInset.top
    gap,            \* library_section, library_start and library_height
    layout          \* Twitch's layout of the palette

libraryVars == <<wanted, library, reading, copied>>
placeVars == <<row, palette, height, inset, gap, layout>>
pickVars == <<catalogue, revision, libraryVars, open, placeVars>>

NoGap == [section |-> 0, start |-> 0, height |-> 0]

-----------------------------------------------------------------------------
\* Twitch's flow layout: a section is [header, top, bottom, cells], its cells
\* the heights of its rows, and section 1 may be the recent one.
Total(heights) == FoldLeft(LAMBDA a, h : a + h, 0, heights)
SectionHeight(s) ==
    IF s.cells = <<>> THEN 0
    ELSE s.header + s.top + Total(s.cells) + s.bottom
Top(L, i) == Total([j \in 1..i - 1 |-> SectionHeight(L[j])])
CellTop(L, i, k) ==
    Top(L, i) + L[i].header + L[i].top + Total(SubSeq(L[i].cells, 1, k - 1))
NativeCells(L) ==
    UNION {{[section |-> i, y |-> CellTop(L, i, k), h |-> L[i].cells[k]] :
              k \in DOMAIN L[i].cells} : i \in DOMAIN L}

\* place_library_panel: the gap opens before the first section with cells, and
\* behind the recent one; without one, at the end.
Gap(L, hasRecent, entries) ==
    LET sections == {i \in DOMAIN L : L[i].cells # <<>> /\ (hasRecent => i > 1)}
        i == CHOOSE i \in sections : \A j \in sections : i <= j
    IN  [section |-> IF sections = {} THEN Len(L) + 1 ELSE i,
         start |-> IF sections = {} THEN Top(L, Len(L) + 1)
                   ELSE CellTop(L, i, 1) - L[i].top - L[i].header,
         height |-> IF entries THEN 5 ELSE 3]

\* inline_attributes: what lies behind the gap moves down.
Inline(g, cell) == IF cell.section < g.section THEN cell ELSE [cell EXCEPT !.y = @ + g.height]

\* Fault: the gap's last row is taken for Twitch's.
NativeYInGap(g, y) == IF y < g.start THEN y
                      ELSE IF y + 1 < g.start + g.height THEN g.start ELSE y + 1 - g.height

\* native_library_y and intersects.
NativeY(g, y) == IF y < g.start THEN y
                 ELSE IF y < g.start + g.height THEN g.start ELSE y - g.height
Intersects(y, h, cell) == h > 0 /\ cell.h > 0 /\ y < cell.y + cell.h /\ cell.y < y + h

\* flow_elements: Twitch's layout is asked for the translated bounds, and what
\* it answers is moved and culled.
FlowElements(L, g, y, h) ==
    LET top == NativeY(g, y)
        bottom == NativeY(g, y + h)
        size == IF bottom - top < 1 THEN 1 ELSE bottom - top
    IN  {c \in {Inline(g, n) : n \in {n \in NativeCells(L) : Intersects(top, size, n)}} :
            Intersects(y, h, c)}

-----------------------------------------------------------------------------
Contents(version, aspects) == [version |-> version, aspects |-> aspects]
NoContents == Contents(0, 0)
Empty1 == [channel |-> Absent, provider |-> 0, scope |-> 0, contents |-> NoContents,
           revision |-> 0, valid |-> FALSE]

PickInit ==
    /\ catalogue = [version |-> 1, aspects |-> 0, stage |-> "free", settled |-> 0]
    /\ revision = 1
    /\ wanted = [channel |-> Absent, provider |-> 0, scope |-> 0]
    /\ library = Empty1 /\ reading = Absent /\ copied = NoContents
    /\ open = FALSE /\ row = 0
    /\ palette = Absent /\ height = 0 /\ inset = [p \in Palettes |-> 0]
    /\ gap = NoGap /\ layout = <<>>

\* Writers of the sets, under g_emote_lock.  Most raise the revision after their
\* change: add_emote_locked, room_locked's new room, a login name that is learnt.
\* A writer may keep the lock and go on to another change ("held").
MayWrite == catalogue.stage \in {"free", "held"} /\ catalogue.version <= MaxRevision

Raised(stage) ==
    /\ catalogue' = [catalogue EXCEPT !.stage = stage, !.settled = catalogue.aspects]
    /\ revision' = revision + 1
    /\ UNCHANGED <<libraryVars, open, placeVars>>

Changed(stage) ==
    /\ catalogue' = [catalogue EXCEPT !.stage = stage, !.version = @ + 1]
    /\ UNCHANGED <<revision, libraryVars, open, placeVars>>

Change == MayWrite /\ Changed("changed")

CatalogChanged ==
    /\ catalogue.stage = "changed"
    /\ Raised("free") \/ (catalogue.version <= MaxRevision /\ Raised("held"))

\* reset_room_locked raises it first and then empties the set: of an expired or
\* an evicted room (whose place is given away under the same lock), and of all
\* of them for a reload or a clearing of the cache.
ResetRoom == MayWrite /\ Raised("raised")

RoomEmptied ==
    /\ catalogue.stage = "raised"
    /\ Changed("free") \/ (catalogue.version < MaxRevision /\ Changed("held"))

\* update_image_aspect: an image has arrived, and its aspect is written into the
\* sets.  The revision stays.
UpdateImageAspect ==
    /\ catalogue.stage = "free" /\ catalogue.aspects < MaxRevision
    /\ catalogue' = [catalogue EXCEPT !.aspects = @ + 1]
    /\ UNCHANGED <<revision, libraryVars, open, placeVars>>

\* refresh_library up to the copy: when the menu is open and the snapshot is of
\* something else.
Stale(w) ==
    \/ ~library.valid \/ library.revision # revision
    \/ <<library.channel, library.provider, library.scope>> # <<w.channel, w.provider, w.scope>>

RefreshLibrary(w) ==
    /\ reading = Absent
    /\ wanted' = w
    /\ reading' = IF open /\ Stale(w) THEN revision ELSE Absent
    /\ UNCHANGED <<catalogue, revision, library, copied, open, placeVars>>

\* A tick or an edit; provider_changed, scope_changed, and a new room: both
\* first reset the scope.
Ask ==
    \/ RefreshLibrary(wanted)
    \/ \E p \in Providers : RefreshLibrary([wanted EXCEPT !.provider = p, !.scope = 0])
    \/ \E n \in {0, 1} : RefreshLibrary([wanted EXCEPT !.scope = n])
    \/ \E c \in Channels \ {wanted.channel} :
          RefreshLibrary([wanted EXCEPT !.channel = c, !.scope = 0])

\* Fault: the copy does not wait for the writer.
CopiesAnyway == TRUE

\* tas_emotes_picker_copy takes the lock.
MayCopy == catalogue.stage = "free"

\* metadata_locked copies every emote with its aspect.
CopyLibrary ==
    /\ reading # Absent /\ copied = NoContents /\ MayCopy
    /\ copied' = Contents(catalogue.version, catalogue.aspects)
    /\ UNCHANGED <<catalogue, revision, wanted, library, reading, open, placeVars>>

\* Fault: the revision is read when the copy has been made.
RevisionAfter == revision

\* The revision that the copy is said to be of.
CopiedRevision == reading

\* The rest of refresh_library.
TakeLibrary ==
    /\ copied # NoContents
    /\ library' = [channel |-> wanted.channel, provider |-> wanted.provider,
                   scope |-> wanted.scope, contents |-> copied,
                   revision |-> CopiedRevision, valid |-> TRUE]
    /\ reading' = Absent /\ copied' = NoContents
    /\ UNCHANGED <<catalogue, revision, wanted, open, placeVars>>

\* detach_recents: the palette bound so far gets its inset back.
Detached == IF palette = Absent THEN inset ELSE [inset EXCEPT ![palette] = @ - height]

\* layout: refresh_recents takes its snapshot when the menu opens, bind_recents
\* follows the palette Twitch shows, and place_recent_strip and
\* place_library_panel make room for both rows in it.
PickerLayout(visible, p, items, L, entries) ==
    LET opens == visible /\ ~open
        recents == IF opens THEN items ELSE row
        rebound == p # palette
        base == IF rebound THEN Detached ELSE inset
        had == IF rebound THEN 0 ELSE height
        now == IF p # Absent /\ recents > 0 THEN RowHeight ELSE 0
    IN  /\ reading = Absent
        /\ open' = visible /\ row' = recents /\ palette' = p
        /\ height' = now
        /\ inset' = IF p = Absent THEN base ELSE [base EXCEPT ![p] = @ + now - had]
        /\ layout' = L
        /\ gap' = IF p = Absent THEN NoGap ELSE Gap(L, Len(L) > 0 /\ L[1].header > 1, entries)
        /\ UNCHANGED <<catalogue, revision, libraryVars>>

\* footer_moved: the menu has left the window.
FooterMoved ==
    /\ reading = Absent
    /\ open' = FALSE
    /\ UNCHANGED <<catalogue, revision, libraryVars, placeVars>>

\* The palette's deallocation clears the weak reference, and another one may
\* be made; the row stays as high as it was for a palette that is no more.
PaletteDies ==
    /\ reading = Absent /\ palette # Absent
    /\ palette' = Absent
    /\ inset' = [inset EXCEPT ![palette] = 0]
    /\ UNCHANGED <<catalogue, revision, libraryVars, open, row, height, gap, layout>>

PickNext ==
    \/ Change \/ CatalogChanged \/ ResetRoom \/ RoomEmptied \/ UpdateImageAspect
    \/ Ask
    \/ CopyLibrary \/ TakeLibrary
    \/ \E visible, entries \in BOOLEAN, p \in Palettes \cup {Absent}, n \in {0, 2}, L \in Layouts :
          PickerLayout(visible, p, n, L, entries)
    \/ FooterMoved
    \/ PaletteDies

PickSpec == PickInit /\ [][PickNext]_pickVars

-----------------------------------------------------------------------------
\* "A concurrent update can cause one extra pass, but must never mark an older
\* snapshot as the latest revision" (refresh_library).  A snapshot that it takes
\* for current has the present sets, whatever writers raised the revision before
\* or after their changes between its reading and the copy; only of a change that
\* is yet to raise it could it not know.  Of the images' aspects, which raise no
\* revision, it has those that were known when the revision was raised last, and
\* may lack the later ones.
LibraryCurrent ==
    reading = Absent /\ catalogue.stage # "changed" /\ ~Stale(wanted) =>
        /\ library.contents.version = catalogue.version
        /\ library.contents.aspects >= catalogue.settled

\* The palette is lent, not taken: every palette has the inset Twitch gave it,
\* and the bound one room for the row besides, through every rebinding and
\* deallocation; and scrolled anywhere, it shows every cell of Twitch's that is
\* there to be seen, and none in the gap.
PaletteLent ==
    /\ \A p \in Palettes : inset[p] = IF p = palette THEN height ELSE 0
    /\ gap.height > 0 =>
        \A y \in 0..12, h \in {1, 4} :
          FlowElements(layout, gap, y, h) =
            {c \in {Inline(gap, n) : n \in NativeCells(layout)} : Intersects(y, h, c)}
    /\ gap.height > 0 =>
        \A n \in NativeCells(layout) : ~Intersects(gap.start, gap.height, Inline(gap, n))
=============================================================================
