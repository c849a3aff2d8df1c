# Streamside in TLA+

Specifications of Streamside (the dylib in `src/` that filters Twitch's HLS
playlists, adds third-party chat emotes and a composer for them), model-checked
with TLC and proved about with TLAPS. Paths below are relative to
the repository; `Streamside.c`, `TASEmotes.c` and the others are in `src/`.

## 1. Inventory

| Part | State it keeps | Operations | Talks to | Hard because |
|---|---|---|---|---|
| Stream contexts and variant routes (`Streamside.c:118-327, 806-923`) | `g_streams` (8), `g_variant_routes` (256), `g_retired_routes` (64), `g_next_stream_generation`, all under `g_lock` | record a master playlist (prune, find or evict a context, register its routes), look a media playlist up | called by `process_manifest` on any thread | slots are reused, routes outlive contexts, tables overflow |
| VAFT fetching (`1052-1356, 1452-1555`) | per thread: a snapshot of the context, the attempt it is at; per context: cached alternate masters and the clean variant | choose what to answer a media playlist with: the cached clean variant, an alternate of each player type, a fallback, the original | network (blocking), the contexts through short sections of `g_lock` | everything read is stale when it is written back |
| URL protocol (`577-722`) | per instance: a stopped mark and a task; one session for all | start, complete, deliver, stop | URL loading system, the client's callbacks, `process_manifest` | three threads and reentrant clients |
| AVURLAsset loader (`1557-1660`) | none of its own | answer one loading request, blocking | `process_manifest`, ad segments | a serial queue per asset runs next to the protocol's queue |
| Ad segment ring (`181-187, 340-376`) | 256 URLs with the time they were seen | remember, ask | `strip_ad_segments`, both transports | 120 s lifetime, duplicates, shared by all streams |
| Manifest text (`772-998, 1126-1174, 1358-1450`) | none | parse, choose a rendition, strip, rewrite | `process_manifest` | sequential |
| Credentials and hooks (`393-540, 1059-1124, 1737-1781`) | last headers seen | cache, add to internal requests | Twitch's session tasks | last writer wins |
| Emote rooms (`TASEmotes.c:82-211, 463-576, 1113-1151`) | the global set, 6 rooms, `g_generation`, `g_last_room`, under `g_emote_lock` | ensure a set is loaded, finish a fetch, reload, clear, expire | three providers through a shared session, chat frames on WebSocket queues, two buttons | late answers, retries with back-off, eviction |
| Emote images (`152-161, 247-271, 981-991`) | `g_old`, 3,000 retired images for 45 min; an identity per name and URL | retire, look an identity up, refuse a collision | emote rooms, image requests | identities outlive their room |
| Frame rewriting (`TASEmotes.c:579-830`, `TASEmoteUI.c`) | none | match the words of each line, append to the `emotes=` tag; rewrite the user's own messages | emote rooms, Twitch's chat | bytes, code points and marks; sets change between lines; buffers fill |
| Composer text (`SSComposer.c`, `SSComposerModel.h`) | the attachments in the input; a due preview | show codes as attachments, expand them for Twitch, map positions, complete, send | Twitch's validation, UIKit, input methods | every position has two meanings, and every callback may come next |
| Composer catalogue (`SSComposer.c:150-400`) | Twitch's manager, a generation, a copy of its names; Twitch's squeezed suggestion table | copy on Twitch's queue, install on the main thread; squeeze and restore | Twitch's Swift objects, which come and go | answers return after the chat changed; addresses are reused |
| Composer images and animation | cache, 8 pending, 128 failures; frames and a display link | request, retry, tick | a session, the lazy decoder | starvation; time that stood still |
| Composer picker and footer | a snapshot of the sets; a row and a gap in Twitch's palette; the colours painted over | refresh, lay out, paint, restore | emote rooms' revision, Twitch's collection and its workers | borrowed views must be given back |
| Emote drawing and details (`TASEmoteUI.c`) | attributes on Twitch's objects; the sheet | draw, show and dismiss a sheet, open the browser | emote rooms, UIKit | a sheet is shown a run-loop turn late and leaves in four ways |
| Diagnostics (`TASDiagnostics.c:143-290, 375-400`) | counters and a log file of 512 KiB | log, rotate, clear, switch, report | everything logs | the switch is read outside the lock; kills between two writes |
| Labels (`TASPrivacy.c`) | two tables of 512 labels | label a channel or URL | the log | round-robin replacement |
| Tools, packaging, upstream script | - | build time | - | not part of the running system |

What makes each right:

- Contexts: a playlist is classified by a route of the context that is there
  now; a context holds only its own channel's alternates; eviction takes the
  one idle longest; a reference that went stale stays stale.
- Fetching: each playlist is answered once, with content of the channel that
  owned its URL when it arrived, and the retries end.
- URL protocol: nothing is called after a stop; one delivery per load; no task
  outlives a stop; every load ends.
- Emote rooms: a pending mark and a running fetch go together; a set never
  reaches another room or incarnation; what was loaded stays.
- Ad segments: an ad of a playlist that was given to the player is blanked
  until it is 120 s old or 256 later entries have come; nothing else is.
- Emote names: names and places go to the best-ranked provider, whoever answers
  first.
- Emote images: a number never stands for two images that are known at a time;
  an image that left its room can be drawn for 45 minutes, or 3,000 others.
- Messages: Twitch gets a frame as it came or with exactly the codes its sets
  had, at their code points and over none of Twitch's own; the user's own
  messages still spell what was written.
- Composer text: what is shown, what Twitch validates and what is sent are one
  text with one caret.
- Composer: the names offered are the present manager's; Twitch's table,
  palette and footer get back what was taken; the library is current; no tile
  starves; no animation falls behind; a sheet is about what is still there.
- Log: its size, its report and its switch keep their word through kills.
- Labels: a label stays with its resource for as long as the table can promise.

## 2. Modules

| Module | What it is |
|---|---|
| `StreamTable` | contexts and routes; one action per critical section of `g_lock` |
| `VaftFetch` | EXTENDS `StreamTable`: the threads in `process_manifest`, one action per section or per network answer |
| `PlaylistService` | the abstract service: who owns a URL, and what a request is answered with |
| `RouteSlots` | the route array and the ring of retired routes, slot by slot; implements `StreamTable!TableSpec` |
| `UrlProtocol` | instances of the URL protocol on one delegate queue |
| `AdSegments` | the ring of ad segments, the threads that fill it, the requests that ask it |
| `EmoteRooms` | rooms, generations and fetches of emotes |
| `EmoteSet` | the items of one room: who replaces whom (operators only) |
| `EmoteNames` | EXTENDS `EmoteSet`: the lists of a room's providers, in any order |
| `EmoteImages` | EXTENDS `EmoteSet`: the sets with their identities, and the history ring |
| `ChatFrames` | IRC frames: words, codes and the entries of the emotes tag |
| `LocalMessages` | EXTENDS `ChatFrames`: the user's own messages as token lists |
| `DiagnosticLog` | the log, its switch, rotation, clearing and report, with kills |
| `PrivacyLabels` | a table of labels |
| `ComposerModel` | positions and words (operators only) |
| `ComposerText` | EXTENDS `ComposerModel`: the input, one action per callback |
| `ComposerCatalog` | Twitch's catalogue and suggestion table |
| `ComposerImages` | thumbnails: requests, failures, cache |
| `ComposerClock` | the clock of animated attachments |
| `ComposerPicker` | the library snapshot, and the rows in Twitch's palette |
| `ComposerFooter` | the colours of Twitch's footer |
| `ComposerDetails` | the details sheet, the browser, the strip of suggestions |
| `MCVaftFetch`, `MCRouteSlots`, `MCUrlProtocol`, `MCAdSegments`, `MCEmoteRooms`, `MCEmoteImages` | instances for TLC |
| `MCServices` | instance of `EmoteNames`, `DiagnosticLog`, `PrivacyLabels`, `LocalMessages` and, for liveness, `EmoteRooms` |
| `MCComposer` | instance of the seven composer modules |
| `Loops` | lemmas: induction with sets, loops and folds as traces, remainders |
| `VaftFetchProofs` | the proofs of `StreamTable` and `VaftFetch` |
| `RouteSlotsProofs`, `AdSegmentsProofs`, `EmoteRoomsProofs`, `EmoteImagesProofs` | those of these modules |
| `ServicesProofs` | those of `UrlProtocol` and of the parts of `MCServices` |
| `ComposerProofs` | those of the composer modules |

`VaftFetch` instantiates `PlaylistService` with `owner` read from the routes and
`request` from the threads. `RouteSlots` instantiates `StreamTable` with the
array read as a function on URLs. `UrlProtocol` sees `process_manifest` as one
step of its completion that may take any time. `LocalMessages` reads the sets
`ChatFrames` reads. The other parts meet in ways that need no joint state: what
the composer sees of the emote rooms is a version that any thread may change
(`ComposerPicker!Change`), what a frame sees of them is a set that may change
between two lines (`NamesChange`). The parts of `MCServices` and of `MCComposer`
share no variable, and no property speaks of two of them, so a behaviour of these
instances picks one part (`chosen`) and runs it: the product would have the same
projections.

Definitions named in a comment as a fault are plausible mistakes in the
definition that follows them. No specification uses them; replacing the right
definition by the fault makes TLC find the property it belongs to violated
(`PROJECT.json`, "mutants").

### StreamTable and VaftFetch

| Code | Model |
|---|---|
| `TASStreamContext` | a record of `streams`; the master URL and channel are one (the channel is parsed out of the URL), the manifest is the set of URLs it lists, a cached alternate master is the channel it was fetched for |
| `TASVariantRoute` | `routes[url]`: slot, generation, last seen; `NoRoute` when no entry has the URL |
| `TASStreamRef` | slot (0: not valid) and generation |
| `stream_for_variant_locked` | `StreamForVariant`, `NoStreamForVariant` |
| `update_stream_master_locked` + `register_variant_routes_locked` under one hold | `MasterPlaylist` |
| `clear_active_backup`, `load_backup_master`'s store, `clear_backup_master`, the store of a clean candidate | `WriteStream` and the four operators on it |
| the blocks of `process_manifest` and `fetch_vaft_variant` between two sections of `g_lock` | a value of a worker's `pc` |

A network answer depends on none of the modelled state, so its arrival and the
critical section that follows it are one step; every interleaving of critical
sections remains. A full route table evicts the routes seen least recently: the
order of equal ones is left open in `StreamTable` (`KeptRoutes`), and is that of
the array in `RouteSlots`.

Left out: failing allocations; the wrap of the 64-bit generation counter; URLs
too long for a route (they are never listed); the contents of playlists other
than their channel, rendition and whether they carry ad markers; an alternate
master that lists no rendition at all counts as a variant that could not be
fetched; the clock does not run backwards.

### RouteSlots

`g_variant_routes` is `slots`, `g_retired_routes` is `retired`,
`g_next_retired_route` is `nextRetired`, a `size_t` that wraps at
`CounterSize`, a multiple of the ring's size as 2^64 is of 64. The loops over the array are
recursive functions over a record of the three.

### UrlProtocol

`start`, `completion` and `at` are the program counters of the thread in
`protocol_start_loading`, of the task with its completion, and of whoever is
inside `protocol_deliver` with the monitor. The monitor is held exactly while
`at` is not `"out"`; `Stop` is enabled when it is free, or inside a callback,
where the recursive monitor lets the same thread in. `task` is
`g_protocol_task_key`, `stopped` is `g_protocol_stopped_key`. That the session's
delegate queue runs one completion at a time is Foundation's, as are the tasks'
results (`Respond`).

### AdSegments

`ring` is `g_ad_segments`, `next` is `g_next_ad_segment` modulo its size (a
divisor of 2^64, so that the counter's wrap does not show). `strip` is the loop
of `strip_ad_segments`, two steps per segment: its EXTINF line, which sets
`cache_next_uri`, and its URL, which is remembered under the lock. `load` is a
request: `CanInit` and `StartLoading`/`Answer` are the two questions of the URL
protocol, the second step of each being the section of `is_cached_ad_segment`
and the first its reading of the clock; the loader asks once. A request that was
answered may be followed by another. `marks` and `shown` are history variables.
The protocol and the loader are not told apart after their questions; what the
answer is delivered with is in `UrlProtocol`.

Left out: URLs too long for an entry; comparing URLs that differ in form (the
player asks for what `rewrite_manifest_urls` made of the line).

### EmoteRooms

`rooms[0]` is `g_global`, `rooms[1..]` are `g_rooms`; `generation` 0 is an
unoccupied slot. `ensure_loaded` is `EnsureGlobal` or `EnsureRoom` (with the
sweep of `expire_locked`, `room_locked` and the marking of what is due);
`finish_provider` is `Finish`; `rewrite_line`'s first section is `Frame`, and
its two calls of `ensure_loaded` follow as steps of that thread;
`tas_emotes_reload` is `Reload` with two steps after it; `tas_emotes_clear_cache`
is `ClearCache`; `LocalMatches` is the composer's lookup, which counts as a use
of the room. A fetch counts as running from the moment it is marked:
`fetch_provider` follows in the same thread, and either its task or, without a
session or task, that thread calls `finish_provider`.

Left out: the `force` argument, which no caller sets; the login names, by which
the composer's lookup finds a room (it may find any); the names in a set: a set
is named by its fetch. Emotes enabled is assumed; otherwise none of this runs.

### EmoteSet, EmoteNames and EmoteImages

A room's sorted array is a set of items with one item per name; names are
numbers in the order of `strcmp`. `Added` is `add_emote_locked` once the identity
was found available. `EmoteNames` gives each provider a list of names and lets
the lists arrive in any order; `parse_list_locked` is a fold of `Added`.

In `EmoteImages`, `rooms` and `old` are the tables, and the scope hashed by
`image_identity` is the room's id, or `Global` (the empty string). A critical
section that adds or retires several emotes is a sequence of steps; `section`
keeps everyone else out, as `g_emote_lock` does. `Ensure` is `ensure_loaded`
with the sweep and the slot of the room; the items of the slots that are reset
are then retired one by one (`RetireNext`). A thread may have read the clock up
to `MaxDelay` before it gets the lock (`Readings`), so images may be retired with
a time that has passed. `Parse`, `Add` and `Parsed` are `finish_provider`; that an
answer may come for a room that is no longer there is in `EmoteRooms`, and here
any occupied set is parsed into at any time.

Left out: owners and aspects; names and URLs that `add_emote_locked` rejects;
failing allocations; the wrap of `g_old_next`, a `size_t`.

### ChatFrames and LocalMessages

A character is a narrow letter (one byte), a wide one (two bytes), a mark
(`boundary_punctuation`) or a blank; ranges count code points, as the tag does,
and the limit on a word counts bytes. `RewriteLine` is `rewrite_line` under one
hold of `g_emote_lock`; `Deliver` is the end of `rewrite_message`: when the
frame outgrows its buffer, it is delivered as it came. A line's buffer that is
full ends the search in that line. `FrameRewritten` says what the codes of a line
are of every stretch of it, not by scanning.

`ReceiveMessages` is `receive_messages` with `rewrite_local_message`.
`tas_emotes_local_matches_copy` and `NSCharacterSet` have different blanks
(`Blanks`, `OtherBlanks`): the codes are found with one and replaced with the
other.

Left out: the parsing of IRC tags (a PRIVMSG is assumed to carry an emotes tag),
tag values over 4096 bytes, failing allocations, encodings other than one and
two bytes.

### DiagnosticLog and PrivacyLabels

`tas_diag_log` is `TestSecond` (the switch, outside the lock), `Count` (takes
`g_diag_lock`, counts, opens and measures), `Truncate` and `Mark` for a full
file, and `AppendLine`; `tas_diag_log_url` and `tas_diag_log_stream` test the
switch once before (`TestFirst`). `Killed` may come between any two of them,
and keeps the file and the switch. `SwitchChanged`, `Clear`, `CopyReport` and
`MakeReport` are the settings, on the main thread. `unwritten` and `uncleared`
are ghosts for a file that will not open and a clearing that could not write: the
code resets its count in that case although the lines stay. `CopyReport` may also
fail to read the log (`unread`): there is no path, or
`dataWithContentsOfFile:` returns nil. The report then says "No diagnostic entries
yet.", as for an empty log, beside whatever the count is; `ReportAgrees` still
claims that the count is no less than what could not be written, and says so of
the rest. A write that raises is a kill.

`PrivacyLabels` is one table: `label` searches, takes the first free slot or the
next in turn, draws an identifier no entry has, and may fail to copy the key.

Left out: the other counters, which nothing compares with the file; the formatting of
lines; a log that is not UTF-8, of which the report shows nothing either.

### The composer

`ComposerText`: `shown` is the text storage, a sequence of cells that stand for
one unit or, as an attachment, for a code; `sel` the selection; every action is
one callback of UIKit or Twitch with all it calls, ending in `native_changed` or
a scheduled preview. `twitch` is what Twitch has read; `entered` and `caret` are
ghosts: what the user entered and where the caret is in it. `ComposerModel` has
`SSComposerModel.h`: the positions with and without attachments and the word
before the caret.

`ComposerCatalog`: `Refresh` is `refresh` with `request_native_catalog` and
`stock_update`; `Copy` the block on the manager's serial queue, `Install` its
block on the main queue; `Replace` the delegate that goes. Twitch's side
(`Publish`, `Switch`, `ManagerDies`, `TwitchSets`) is what the code relies on: a
Swift array changes in place only while nobody else retains it.

`ComposerImages`: `Thumbnails` is `set_thumbnail` of every tile, `MayAsk`
`image_request`'s early returns, `Recorded` the wiping of a full table of
failures. `ComposerClock`: `Animate` is `animate_preview`, in hundredths of a
second. `ComposerPicker`: `RefreshLibrary`, `CopyLibrary` and `TakeLibrary` are
`refresh_library` cut where another thread may take the lock. The writers of the
sets come in two orders: `Change` and then `CatalogChanged` (`add_emote_locked`,
`room_locked`, a login name), or `ResetRoom` and then `RoomEmptied`
(`reset_room_locked`, which raises the revision first); `stage` says how far the
one that holds `g_emote_lock` has come, and the revision can be read at every
stage. `UpdateImageAspect` changes the sets and raises nothing. `PickerLayout` is
the layout with `bind_recents`, `place_recent_strip` and `place_library_panel`;
`FlowElements` the translated query of Twitch's layout. `ComposerFooter`:
`Apply`, `Scroll`, `Press`, `FooterLayout`, `Detach` are the hooks, `WorkerWrites`
Twitch's workers, of which no hook is told. `ComposerDetails`: `Hold` queues and
`ShowDue` shows; `Close`, `Open`, `Swipe` and `Gone` are the ways out; `Ticks`
and `InputLayout` place the strip.

Assumed of Twitch and UIKit: Twitch does not overwrite the palette's top inset
while the row is up; there is one presenter above the chat; the strip fits the
window. Left out: recent emotes and their store, pinned headers, the installation
of hooks, the geometry of the strip.

## 3. Runs

| Run | Instance | Shows |
|---|---|---|
| `VaftTables` | 3 channels, 3 URLs, one of them listed by two channels, 2 contexts, 2 routes, TTL 1, clock 2, 3 generations, 1 worker | `EvictsLeastRecent`, `ImplementsService` |
| `VaftRaces` | 2 channels that take turns in 1 context, 2 workers, 2 player types | `Owned`, `StaleForever` |
| `VaftAnswered` | as above with 2 generations, fair workers | `EveryPlaylistAnswered` |
| `RouteSlots` | 3 channels, masters that repeat a URL, share one and list more than the 2 slots, ring of 2, counter that wraps at 8 | `LookupsFresh`, `ImplementsStreamTable`, `LostRoutesExplained` |
| `UrlProtocol` | 3 loads, fair | `CallbacksInOrder`, `TaskAccounted`, `QuietAfterStop`, `EveryLoadEnds` |
| `AdSegments` | 2 ads, 1 live segment, 3 playlists (two refreshes of one, another with a common ad), ring of 2, lifetime 1, clock 4, 2 threads, 1 request at a time | `LeakExplained`, `BlankJustified` |
| `EmoteRooms` | 3 rooms, 2 slots, 1 receiver, clock 3, 5 generations | `SetsOwned`, `PendingWhileFetching`, `EvictsIdleOrOldest`, `LoadedStays` |
| `EmoteImages` | 2 rooms, 1 slot, 2 names, 2 URLs, a hash that collides, limits 2 and 1, history of 2 that lasts 2, clock 4 | `OneImagePerNumber`, `KeepsServed` |
| `Services` | names: 3 providers with lists of up to 3 of 3 names, 2 places; rooms: 1 room, 2 providers, fair; log: 2 threads, lines of 1 and 2, limit 2, 2 lines a launch, 2 launches; labels: 4 keys, 4 identifiers, 3 slots, counter that wraps at 6; frames of up to 3 lines of up to 4 characters over {a, w, mark, blank}; messages of up to 5 characters | `RankDecides`, `PendingEnds`, `SizeBounded`, `ReportAgrees`, `QuietWhenOff`, `LabelsHeld`, `FrameRewritten`, `LocalTextKept` |
| `Composer` | text: up to 3 units, 2 attachments, names that are a word, a longer one and a `:` word; catalogue: 2 managers, 1 selector, 2 addresses, 2 versions, 2 switches; images: 5, 3 of them broken, 2 at a time; clock: 2 animations of 2 and 3 frames, gaps from -1 to 30; library: 2 changes and 2 aspects; palette: 2 palettes, 3 layouts; sheets: 2 emotes | `TextKept`, `CatalogCurrent`, `CatalogCatchesUp`, `SelectorRestored`, `TilesLoad`, `FrameDue`, `FooterRestored`, `LibraryCurrent`, `PaletteLent`, `OneHandoff`, `DetailsFresh`, `StripReturns` |
| `VaftRenditions` | 2 renditions of one channel | finding: violates `RenditionsMatch` |
| `VaftExpiry` | the same | finding: violates `ExpiredUnused` |

Why the bounds are enough: each table has fewer slots than there are channels,
URLs or rooms, so that every lookup can hit, miss, find a free slot and evict;
the clock runs past every lifetime (TTL, reuse of a backup, idle rooms, sweep,
back-off, ad segments, history); the rings are shorter than what is put into
them; generations suffice for a slot to be emptied and refilled, and
refilled again, while an old reference or fetch is alive. Two workers are as
many as can hold a reference to two incarnations of one slot while a third
exists. Beyond the bounds, the theorems of section 5 hold for every value of the
constants. `MaxClock` and `MaxGeneration` bound `now`, `nextGeneration` and
`generation` in the guards of `Tick`, `MasterPlaylist`, `EnsureRoom` and
`ResetAll`; `MaxEntries` bounds the lists of `EmoteNames` and `MaxDelay` how long
a thread of `EmoteImages` waits for the lock; `MaxLines` and `MaxLaunches` bound
the log, `MaxPublished`, `MaxSwitches` and `MaxRevision` what Twitch and the sets
do to the composer, `MaxLength` its text, `Selectable` the sections Twitch selects.
The code has no such bounds.

Words about single ones. The texts of the composer are long enough for two
attachments with a unit between them and a caret at every side of either; the
labels' counter wraps after the table has been filled twice; a log of two lines
of different sizes meets its limit exactly, below and above. `TilesLoad` claims
something only of rows with few enough broken images (`FewBroken`): a broken one
takes a request for up to 10 s in every 70, so that fewer than 8 * 70 / 10 = 56 of
them leave a request to the others now and then, and the table of failures (128)
must hold them, since a full one is wiped. A strip has up to 64 tiles: with 56 or
more that time out, the ones behind them may wait for ever, and nothing is claimed
of those. The instance is at the edge: with 2 requests at a time, a back-off and
a timeout of 1, three broken images are the most that `FewBroken` allows, and
with four of them the last tile does starve. The library's cells and the
previews ask through the same eight requests; they count as tiles. The instance
of the picker runs in two halves: the library with its writers and no palette,
and the palette with sets that stay. `FrameDue` holds with 13 steps a tick and
fails with 12; the code has 16.

Deadlock is checked except where an instance ends by itself: `EmoteRooms` stops
when its clock and its generations are used up and every fetch has ended, and in
`Services` and `Composer` a chosen part may be done (every list has arrived, the
frame is delivered, the launches are used up). Nothing in these modules waits for
another process, except for a lock that its holder always gives up.

Symmetry is used for workers, stripping threads and rooms, in runs
without liveness properties (the hash of `MCEmoteImages` does not tell the rooms
apart).

## 4. Fairness

- `VaftFetch!FairSpec`: weak fairness of each worker's own steps. A synchronous
  request returns, at the latest when `NSURLConnection` times out, and the
  thread is then scheduled. Nothing is assumed of the clock, of masters or of
  what the network returns.
- `UrlProtocol!FairSpec`: weak fairness of each load's own steps: tasks end
  (they time out), `process_manifest` returns (the previous property),
  callbacks return. A client need not stop anything.
- `EmoteRooms!FairSpec`: weak fairness of `Finish` for each fetch: its task ends
  with some result, or there is none and the thread that marked it finishes it.
- `ComposerCatalog!CatFairness`: weak fairness of `Tick` (`ssTick:` runs every
  second while the composer is in use), of the head of Twitch's queue and of the
  main queue.
- `ComposerImages!ImgFairness`: time passes, the tick refreshes the tiles, and
  each request is answered, at the latest by the 10 s timeout.
- `ComposerDetails!DetFairness`: the run loop calls `ssDetails:` and `ssTick:`.

## 5. Theorems

All are proved for every value of the constants that satisfies the named
assumptions: any number of channels, URLs, slots, threads, loads, rooms, lines,
managers, palettes, emotes.

| Theorem | Says |
|---|---|
| `VaftFetchProofs!TypeCorrect` | `Spec => []TypeOK`; in particular the routes in use never exceed the array |
| `VaftFetchProofs!AlwaysOwned` | routes, contexts, references and answers belong to the channel they should (`Owned`) |
| `VaftFetchProofs!NeverReused` | `Spec => StaleForever` |
| `VaftFetchProofs!AlwaysEvictsLeastRecent` | `Spec => EvictsLeastRecent` |
| `VaftFetchProofs!Implements` | `Spec => Service!Spec`: refinement of `PlaylistService` |
| `RouteSlotsProofs!AlwaysInv`, `AlwaysLookupsFresh`, `AlwaysLostRoutesExplained` | the tables keep their types; the safety properties of the array and the ring |
| `RouteSlotsProofs!AlwaysImplementsStreamTable` | `Spec => RouteTable!TableSpec`: refinement of `StreamTable` |
| `ServicesProofs!TypeCorrect`, `AlwaysQuiet`, `AlwaysInOrder`, `AlwaysAccounted` | the queue, and the safety properties of a load |
| `AdSegmentsProofs!TypeCorrect`, `AlwaysRecentHeld`, `AlwaysLeakExplained`, `AlwaysBlankJustified` | the safety properties of the ring, for any number of threads and requests |
| `EmoteImagesProofs!TypeCorrect`, `AlwaysOneImagePerNumber`, `AlwaysKeepsServed` | limits of the sets, identities and their history, for any hash |
| `EmoteRoomsProofs!TypeCorrect`, `AlwaysPendingWhileFetching`, `AlwaysSetsOwned`, `AlwaysLoadedStays`, `AlwaysEvictsIdleOrOldest` | the safety properties of rooms |
| `ServicesProofs!AlwaysBounded`, `AlwaysAgrees`, `AlwaysQuietWhenOff` | the three properties of the log, for any number of threads, lines and launches |
| `ServicesProofs!AlwaysRanked` | `NamesSpec => []RankDecides`, for any number of providers and names and any order of arrival |
| `ServicesProofs!AlwaysHeld` | `LabelsSpec => []LabelsHeld`, for any table and a counter that wraps |
| `ServicesProofs!AlwaysRewritten`, `AlwaysSpelled` | `FrameSpec => []FrameRewritten`, `MessagesSpec => []LocalTextKept`, for any frames, messages, names and limits |
| `ComposerProofs!AlwaysCatalogCurrent`, `AlwaysSelectorRestored`, `AlwaysLibraryCurrent`, `AlwaysFooterRestored`, `AlwaysOneHandoff`, `AlwaysDetailsFresh` | the safety of the catalogue, the suggestion table, the library, the footer and the sheet |
| `ComposerProofs!AlwaysFrameDue`, `AlwaysLent` | `ClockSpec => []FrameDue`, `PickSpec => []PaletteLent`, for any delays, gaps and layouts |
| `ComposerProofs!AlwaysTextKept` | `TextSpec => []TextKept`, for any text and names, and any limits on attachments and on the text that is rendered |

**VaftFetch.** The ownership properties are not inductive alone. `IInv` adds
that every generation in use was given out before (`GenerationsGiven`), the same
of the references the threads hold (`RefsGiven`), and that what a thread carries
between two sections, the cached variant it fetches or the master it reads, is
of the channel it looked up (`HeldOwned`). With these a write that passes
`stream_ref_matches_locked` reaches the incarnation it was meant for
(`RefsOwned`), hence the same channel. The first part of `VaftFetchProofs` shows
what each critical section of `StreamTable` does to `TableInv`; the second has one
step per action of a worker. The bound on the routes is `KeptRoutesBound`: the sets kept by
`KeptRoutes` have at most `MaxRoutes` members. `AlwaysEvictsLeastRecent` looks at
the one action that gives a slot to a channel, once for a slot that pruning has
emptied and once for the one that is taken.

**Refinement.** `Implements` maps every action to a step of the service
or a stutter: `MasterPlaylist` is `Announce`, a lookup is `Ask`, the steps that
produce an answer are `Answer`, `Deliver` is `Take`, and the rest leave the
owners and the requests alone, since no fetch writes a route and no write
changes a context's channel.

**Loops and folds.** The library's rules of induction take an operator, which the
provers cannot instantiate. `Loops` gets rules about sets from the well-founded
order of the naturals: a set of naturals that is not empty has a least member
(`Least`), and one that has 0 and, with each index, the next one has them all
(`UpTo`). With them a recursive function is defined (`LoopExists`), and a fold of
the community modules is the last value of a trace that starts with its base and
takes a step an element (`FoldTrace`). A proof about a scan names what every value
of the trace keeps, and shows it for one step.

**RouteSlots.** `Inv`: the tables have their types, a used slot has a context of
its generation, no URL is in two slots, and no route was seen in the future. The three loops
(retiring the routes of a context, pruning, entering the lines of a playlist)
have a trace each. Two things go along it: what was `Entered`, the set of URLs
that are found afterwards and when they were seen, which is what `StreamTable`
says of a master playlist; and what was `Tracked`, that every route lost so far
is in the ring at the place its turn gave it, unless overtaken. `CounterDistance`
says that two turns less than a ring apart have two places, through the wrap of
the counter, since the ring's size divides its range. Refinement: `RegisterRefines`,
`RouteHitRefines`, `RouteMissRefines`, one for each action.

**UrlProtocol.** `LoadsOK` relates the program counters, the stopped mark, the
task and the callbacks made so far, load by load. `QueueOK` says of the delegate
queue what `TypeOK` needs: it holds each load once, and exactly those between
their completion and its end (`JoinQueue`, `LeaveQueue`, `SameQueue`).

**EmoteRooms.** `IInv` says, beside the types, that a slot with a room has a
generation given out and not older than the global set's, that no two slots hold
one room, that a loaded provider is not pending, that a set was fetched for the
room and incarnation that holds it, and that pending marks count the running
fetches, of which none is for a generation still to come. The sweep, the taking
of a slot and the marking are separate lemmas, composed in `EnsureGlobalInv` and
`EnsureRoomInv`.

**AdSegments.** `IInv` ties each entry of the ring to the mark of its segment:
a mark that has not been overtaken is `since` places behind `next` (`Distance`)
and its entry is there unless it is too old; an entry belongs to an ad and is no
newer than that ad's mark; a stripping thread that holds the flag is at an ad,
and every ad it has passed is marked. From these, a test that fails finds the
mark overtaken or old (`LeakStep`), and one that succeeds finds an ad
(`BlankStep`), whichever clock reading it uses.

**EmoteImages.** `IInv` adds to the types and `OneImagePerNumber` that the sets
are finite, that whoever retires read the clock at most `MaxDelay` ago, and that
a set which is parsed into is occupied. `Known` is what `OneImagePerNumber` is
about without the union of sets and ring: `NewImage` covers the one action that
adds an image, which was available, and `NoNewImage` the others, among them
retiring, which only moves one. `AddedOK` bounds a set: at most one item gives
way, and one must before a full set takes another. `KeepsServed` follows from
`OnlyAge`, for steps that retire nothing, and `RetireServes`; it needs the
assumption that a thread waits for the lock for less than the 45 minutes.

**DiagnosticLog.** A thread is inside the lock exactly while it holds it
(`Held`), has a line when it is to write one (`Formatted`), and writes to a file
that is not full (`Room`), whence `SizeBounded`. `Late` says that a thread may
write only the line it had begun when the switch went off. `Counted` is the
heart of `ReportAgrees`: at any moment, between any two writes, the count agrees
with the lines of this launch, the ones that could not be written and the one
on its way; `Reported` keeps it for a report that was copied then, whose log may
be missing.

**EmoteNames.** `Ranked` relates a set to what has been offered: its items were
offered, a name is in it once and by the best provider that offered it, and unless
the set is full nothing offered is missing; a full one has no item that is worse
than what was left out. `AddedRanked` keeps it through one offer, of which an
inserted item, a replaced one and a full set are the cases, `ListRanked` through a
list.

**PrivacyLabels.** `TableOK` says that keys and identifiers are not shared.
`GivenOK` follows a label that was given: its entry is there, and the turns left
to its slot are at least the slots less the keys that have found none since
(`TurnsTo`, `Safe`). Each new label takes one turn (`SafeStep`); a new label has a
whole round ahead of it (`SafeNew`).

**ChatFrames.** What takes work here is not the invariant (`FrameOK`: a line that
has been written is what `Additions` gives for the names it was read by) but that
scanning finds what `Codes` says without scanning. The scan's trace (`ScanTrace`)
finds the words up to a character, each once and in order (`RunsOK`); two words
that share a character are one (`RunUnique`). A code lies in one word, of which
it is all or what is left without the marks, and `CodeIn` finds it (`IsCodeInWord`,
`TrimmedOK`, `CodeInOK`). Words are in order, so the codes joined are (`FoundOK`), and a
sequence that lists each once is as long as there are codes (`AdditionsOK`). That a
range of Twitch's has a first character not after its last is an assumption on
the frames: two ranges overlap by `overlaps_native` when they share a character.

**LocalMessages.** `Spread` is what each token of a sequence gives, joined: its
text, or itself when it is of a kind. Of two sequences it gives both
(`SpreadConcat`), and of parts that give what the tokens give, the same
(`SpreadFlatten`). `PutWordOK` is the step of the loop that replaces the codes:
what has been put out spells the text so far, although the loop finds words with
other blanks than the ones the codes were found with (`ReplacedOK`).

**Composer.** The names: `CatInv` says that a copy on its way is of the present
generation only if it is of the bound manager (`OfItsManager`), and that what was
copied at an address is what the manager holds for as long as its buffer is
there (`InStep`): Twitch publishes at no address that is retained, and the copy
retains what it remembers (`ReturnOK`, `NativeOK`, used in `PublishCat`). The
suggestion table: of a suppressed one, what is saved is what Twitch set, and both
halves are saved together (`StockOK`); `StockUpdateOK` is the lemma about
`stock_update`, and every action is an application of it. The library: a change
is one version and one revision, which comes one step after it or before it
(`Numbered`), and what is copied under the lock is at least what the revision said
that was read before (`AtLeast`): it may be newer than it says and is never older,
and a snapshot of the present revision has the aspects that were known when it
was raised. `WriterStep` is the lemma about the writers. The footer:
`PaintOK` says that at most one row paints, and keeps below it what Twitch asked
for (`Below`); one lemma per operator. The sheet: `SheetOK` relates the sheet, the
strip and the URL that is retained; `PresentStep`, `StripStep` and `LeaveStep` are
the three kinds of steps. The clock: `ClockOK` says that no frame has been shown
for longer than its delay. In a tick at most `MaxDelta` is added, the first step
takes off what was saved up and each other one at least the shortest delay, so
that `MaxSteps` of them catch up: `StepsAssumption`, 250 ms in 16 steps of at least
20 ms in the code. The palette: the gap opens at the top of a section
(`GapAtSection`) or behind the last; sections and rows stack (`TopUp`,
`CellInside`), so a cell lies before the gap or, moved by its height, behind it
(`CellPlace`), and a rectangle that is shown meets what is asked for (`CellAsked`).

**Composer, the text.** `TextOK` is about the view, the storage with its selection:
it stands for the ghosts (`IsView`), Twitch has the text unless some of it is
marked, and there are no more attachments than `expanded_copy` converts. The last is
what makes it inductive: one attachment more would be sent as it is displayed. What
the callbacks are made of each gets a lemma about any view. `Width` is what the first
cells of a storage stand for; it grows with every cell (`WidthGrows`), so a place of
the text is displayed at one position at most. `SpansLocate` follows the scan of the
storage: its spans are the cells with attachments, and `PlainPosition` of a position is
the width before it; so `ExpandOK`, and with `SpliceOK` also `EditOK`, which says that
UIKit's range and the one Twitch validates are one. `WithAttachmentsOK` follows the
loop that makes the attachments: after `k` words every place that lies inside none of
them has moved by what the words before it hold (`WordsPlaced`), which is where
`DisplayPosition` looks for the next (`MeetsOK`). A focused editor's caret lies
inside none: of the words that were attachments it is outside because it is between
cells (`CellClear`), of the others because `TokenSafe` asks for it (`CaretClear`); so
`RenderOK`.

Assumptions on the constants are what the code gives: sizes are positive, a ring's
size divides the range of its counter, an inset is a natural, what Twitch hands
over (layouts, playlists, catalogues) has its type, and the numbers above.

Model-checked only: the liveness properties (`EveryPlaylistAnswered`,
`EveryLoadEnds`, `PendingEnds`, `CatalogCatchesUp`, `TilesLoad`, `StripReturns`),
since fairness and ENABLED are out of TLAPS's reach here. Every safety property of a
passing run is a theorem.

## 6. Findings

Two places where a document says something else than the code does:

- `README.md:31`: "Matches alternate renditions by resolution and frame rate."
  A context has one active clean variant; it is reused for whichever rendition
  asks next (`Streamside.c:1515`). Run `VaftRenditions`.
- `docs/ARCHITECTURE.md:34`: "Inactive contexts expire after 30 minutes".
  Contexts are pruned only when a master playlist is recorded; until then a
  lookup uses and revives an older one (`Streamside.c:871`). Run `VaftExpiry`.

Not contradictions that a run could show, but worth knowing:

- `README.md:116-117` caps the log at 512 KiB; the file passes that by up to one
  line (`SizeBounded`). A kill between the truncation of a full log and its
  `LOG_ROTATED` line loses the old lines without a trace.
- The report says that labels stay the same until Twitch restarts;
  `README.md:117-118` adds that a full table may change them sooner, which is
  what the code does (`LabelsHeld`).
- A clearing that cannot write the file still resets the count (`uncleared`).
- A log that cannot be read is reported as "No diagnostic entries yet.", beside a
  count of the lines it has (`unread`; `TASDiagnostics.c:254-258`, `368-369`).
- An image's aspect that is learnt after the library was copied is not in the
  snapshot until something else raises the revision (`update_image_aspect`,
  `TASEmotes.c:1024-1039`); without one the composer takes the image's own.
- With 56 or more tiles that time out, the tiles behind them may never ask for
  their images (`FewBroken`).
- A colour that one of Twitch's workers writes under the recent row's paint is
  lost when the row goes (`lost` in `ComposerFooter`).

## 7. Not modelled

- Manifest text (`parse_attribute`, `variant_metadata`, `variant_for_resolution`,
  `rewrite_manifest_urls`): sequential functions of strings, where a model would
  be the scan character by character; `AdSegments` has what `strip_ad_segments`
  decides and remembers, `VaftFetch` which rendition is asked for and served.
- Credentials, GraphQL bodies and session hooks: the last headers seen, under
  one lock, on which no other state depends; swizzling at start.
- The relaying of responses and redirects by the AVURLAsset loader, which waits
  for each; its questions to the ring are in `AdSegments`.
- The parsing of JSON and of IRC tags; login names, owners and aspects of emotes.
- Chat-menu rows, settings screens, probes and counters of `TASDiagnostics.c`, the
  installation of hooks, drawing and geometry (`TASEmoteGeometry.h`), recent
  emotes, pinned headers: UIKit glue without state that interleaves.
- The upstream script, tools and packaging: not part of the running system.
