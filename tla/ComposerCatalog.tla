-------------------------- MODULE ComposerCatalog --------------------------
\* Twitch's own emote names in the composer (SSComposer.c): which autocomplete
\* manager the chat uses, the copy of its catalogue that is made on Twitch's
\* queue and installed on the main thread, and Twitch's suggestion table, which
\* is squeezed while the composer completes a ':' word itself.
\*
\* Twitch's objects are known from how the composer reads them: the manager's
\* catalogue is a Swift array, identified by the address of its buffer, that
\* Twitch changes in place only while nobody else retains it.
\*
\* A definition introduced as a fault is a plausible mistake in the one after
\* it; no specification uses it.
EXTENDS Integers, Sequences, FiniteSets, SequencesExt

CONSTANTS
    None,
    Managers, Selectors, Addresses,
    Heights,        \* what Twitch sets a selector's height to; 0 is one
    Unreadable,     \* versions snapshot_native refuses
    MaxPublished,   \* bound: catalogues Twitch publishes
    MaxSwitches     \* bound: changes of the chat's objects

ASSUME CatalogAssumption ==
    /\ None \notin Managers \cup Selectors \cup Addresses
    /\ Heights \subseteq Nat /\ 0 \in Heights
    /\ MaxPublished \in Nat /\ MaxSwitches \in Nat

VARIABLES
    link,           \* the manager and selector connection_for finds
    buffer,         \* the address of each manager's catalogue, None is 0
    version,        \* and its contents
    native,         \* the catalogue half of State
    queued,         \* copies not yet made, in the order of the request
    returns,        \* blocks on the main queue
    stock,          \* the suggestion half of State
    table,          \* each selector's view: hidden, and the height constraint
    asked,          \* ghost: what Twitch last set them to
    unseen,         \* ghost: heights set that no layout has looked at
    switches        \* bound: how often Twitch changed its objects

catVars == <<link, buffer, version, native, queued, returns, stock, table,
             asked, unseen, switches>>

Catalogue(m, v) == [manager |-> m, version |-> v]
Fresh == [manager |-> None, generation |-> 0, marker |-> None, ready |-> FALSE,
          pending |-> FALSE, entries |-> None, snapshot |-> None]
Untouched == [selector |-> None, colon |-> FALSE, hidden |-> FALSE,
              savedHidden |-> FALSE, heightSaved |-> FALSE, height |-> 0]
Jobs == ToSet(queued) \cup ToSet(returns)

\* Buffers something besides its manager retains: the snapshot that was
\* installed, and the ones on their way.
Retained == ({native.snapshot} \cup {j.array : j \in ToSet(returns)}) \ {None}
InUse == Retained \cup {buffer[m] : m \in Managers}

CatInit ==
    /\ link = [manager |-> None, selector |-> None]
    /\ buffer = [m \in Managers |-> None] /\ version = [m \in Managers |-> 0]
    /\ native = Fresh /\ queued = <<>> /\ returns = <<>>
    /\ stock = Untouched
    /\ table = [x \in Selectors |-> [hidden |-> FALSE, height |-> 0]]
    /\ asked = table /\ unseen = {} /\ switches = 0

\* stock_update, as a function of the state and the view it is about.
Suppress(s, ready) == s.colon /\ ready

StockUpdate(s, view, ready) ==
    IF Suppress(s, ready)
    THEN [state |-> [s EXCEPT
              !.hidden = TRUE,
              !.savedHidden = IF s.hidden THEN @ ELSE view.hidden,
              !.height = IF ~s.heightSaved \/ view.height > 0 THEN view.height ELSE @,
              !.heightSaved = TRUE],
          view |-> [hidden |-> TRUE, height |-> 0]]
    ELSE [state |-> [s EXCEPT !.hidden = FALSE, !.heightSaved = FALSE],
          view |-> IF s.hidden
                   THEN [hidden |-> s.savedHidden,
                         height |-> IF s.heightSaved THEN s.height ELSE view.height]
                   ELSE view]

\* The height it has then saved is the one Twitch set last.
Seen(s, view, ready) ==
    IF Suppress(s, ready) /\ view.height > 0 THEN {s.selector} ELSE {}

\* Fault: the request of the manager before counts as one of this.
ReboundPending ==
    IF native.manager = link.manager THEN native
    ELSE [Fresh EXCEPT !.manager = link.manager, !.pending = native.pending,
                       !.generation = native.generation + 1]

\* request_native_catalog, the catalogue: another manager starts anew, and one
\* copy at a time is requested of the one there is.
Rebound ==
    IF native.manager = link.manager THEN native
    ELSE [Fresh EXCEPT !.manager = link.manager,
                       !.generation = native.generation + 1]

RequestCatalog(bound) ==
    IF bound.manager = None \/ bound.pending
    THEN native' = bound /\ UNCHANGED queued
    ELSE /\ native' = [bound EXCEPT !.pending = TRUE]
         /\ queued' = Append(queued, [manager |-> bound.manager,
                                      generation |-> bound.generation,
                                      previous |-> bound.marker])

\* Fault: the selector before is forgotten as it is.
Abandoned(s, tables, ready) == tables

\* request_native_catalog, the selector: the previous one gets back what was
\* taken from it before its state is forgotten.
Released(s, tables, ready) ==
    IF s.selector = None THEN tables
    ELSE [tables EXCEPT ![s.selector] =
             StockUpdate([s EXCEPT !.colon = FALSE], @, ready).view]

\* refresh: `colon` is whether the caret is now behind a ':' word and the user
\* lets the composer complete it.
Refresh(colon) ==
    LET bound == Rebound
        moved == stock.selector # link.selector
        tables == IF moved THEN Released(stock, table, bound.ready) ELSE table
        kept == IF moved THEN [Untouched EXCEPT !.selector = link.selector] ELSE stock
        x == link.selector
        s == [kept EXCEPT !.colon = colon]
    IN  /\ RequestCatalog(bound)
        /\ IF x = None THEN stock' = s /\ table' = tables /\ UNCHANGED unseen
           ELSE LET update == StockUpdate(s, tables[x], bound.ready)
                IN  /\ stock' = update.state
                    /\ table' = [tables EXCEPT ![x] = update.view]
                    /\ unseen' = unseen \ Seen(s, tables[x], bound.ready)
        /\ UNCHANGED <<link, buffer, version, returns, asked, switches>>

\* selector_layout, for the selector that is associated with the delegate.
SelectorLayout ==
    LET x == stock.selector
        update == StockUpdate(stock, table[x], native.ready)
    IN  /\ x # None
        /\ stock' = update.state
        /\ table' = [table EXCEPT ![x] = update.view]
        /\ unseen' = unseen \ Seen(stock, table[x], native.ready)
        /\ UNCHANGED <<link, buffer, version, native, queued, returns, asked, switches>>

\* The block on the manager's serial queue, where Twitch publishes too: the
\* address first, and the array behind it when it is not the one copied last.
Copy(i) ==
    LET job == queued[i]
        marker == buffer[job.manager]
        v == version[job.manager]
        made == marker \notin {None, job.previous} /\ v \notin Unreadable
    IN  /\ \A k \in 1..i - 1 : queued[k].manager # job.manager
        /\ queued' = RemoveAt(queued, i)
        /\ returns' = Append(returns,
              [generation |-> job.generation, manager |-> job.manager, marker |-> marker,
               catalog |-> IF made THEN Catalogue(job.manager, v) ELSE None,
               array |-> IF made THEN marker ELSE None])
        /\ UNCHANGED <<link, buffer, version, native, stock, table, asked, unseen, switches>>

\* Fault: whatever copy comes is installed.
InstalledAnyway(n, job) ==
    IF job.catalog = None THEN [n EXCEPT !.pending = FALSE]
    ELSE [n EXCEPT !.pending = FALSE, !.ready = TRUE, !.entries = job.catalog,
                   !.snapshot = job.array, !.marker = job.marker]

\* Its block on the main queue: a copy for another manager is dropped.
Installed(n, job) ==
    IF n.generation # job.generation THEN n
    ELSE IF job.catalog = None THEN [n EXCEPT !.pending = FALSE]
    ELSE [n EXCEPT !.pending = FALSE, !.ready = TRUE, !.entries = job.catalog,
                   !.snapshot = job.array, !.marker = job.marker]

Install ==
    /\ returns # <<>>
    /\ native' = Installed(native, Head(returns))
    /\ returns' = Tail(returns)
    /\ UNCHANGED <<link, buffer, version, queued, stock, table, asked, unseen, switches>>

\* delegate_dealloc, once no copy holds the delegate, and the delegate_for of
\* the view that follows.
Replace ==
    /\ Jobs = {} /\ switches < MaxSwitches
    /\ table' = Released(stock, table, native.ready)
    /\ native' = Fresh /\ stock' = Untouched
    /\ switches' = switches + 1
    /\ UNCHANGED <<link, buffer, version, queued, returns, asked, unseen>>

-----------------------------------------------------------------------------
\* Twitch: a new catalogue, in place when nobody else retains the buffer.
Publish(m, a) ==
    /\ m = link.manager
    /\ \A k \in Managers : version[k] < MaxPublished
    /\ \/ a \notin InUse
       \/ a = buffer[m] /\ a \notin Retained
    /\ buffer' = [buffer EXCEPT ![m] = a]
    /\ \E n \in 0..MaxPublished :
          /\ \E k \in Managers : version[k] = n
          /\ \A k \in Managers : version[k] <= n
          /\ version' = [version EXCEPT ![m] = n + 1]
    /\ UNCHANGED <<link, native, queued, returns, stock, table, asked, unseen, switches>>

\* The chat is switched; the objects of the last one may go, but a manager
\* stays while a copy holds it, and its weak reference is cleared then.
Switch(m, x) ==
    /\ switches < MaxSwitches /\ switches' = switches + 1
    /\ <<m, x>> # <<link.manager, link.selector>>
    /\ link' = [manager |-> m, selector |-> x]
    /\ UNCHANGED <<buffer, version, native, queued, returns, stock, table, asked, unseen>>

ManagerDies(m) ==
    /\ m # link.manager /\ buffer[m] # None
    /\ \A j \in Jobs : j.manager # m
    /\ buffer' = [buffer EXCEPT ![m] = None]
    /\ native' = [native EXCEPT !.manager = IF @ = m THEN None ELSE @]
    /\ UNCHANGED <<link, version, queued, returns, stock, table, asked, unseen, switches>>

\* Twitch lays its table out: it shows and hides it while nothing is taken from
\* it, and sets the height at any time, one more layout away from us.
TwitchSets(x, hidden, height) ==
    LET ours == x = stock.selector /\ stock.hidden
        set == [hidden |-> IF ours THEN table[x].hidden ELSE hidden, height |-> height]
    IN  /\ ours => hidden = asked[x].hidden
        /\ table' = [table EXCEPT ![x] = set]
        /\ asked' = [asked EXCEPT ![x] = [hidden |-> hidden, height |-> height]]
        /\ unseen' = IF ours THEN unseen \cup {x} ELSE unseen \ {x}
        /\ UNCHANGED <<link, buffer, version, native, queued, returns, stock, switches>>

Tick == \E colon \in BOOLEAN : Refresh(colon)
CopyNext == queued # <<>> /\ Copy(1)

CatNext ==
    \/ Tick
    \/ SelectorLayout
    \/ \E i \in DOMAIN queued : Copy(i)
    \/ Install
    \/ Replace
    \/ \E m \in Managers, a \in Addresses : Publish(m, a)
    \/ \E m \in Managers \cup {None}, x \in Selectors \cup {None} : Switch(m, x)
    \/ \E m \in Managers : ManagerDies(m)
    \/ \E x \in Selectors, hidden \in BOOLEAN, h \in Heights : TwitchSets(x, hidden, h)

\* ssTick: runs every second while the composer is in use, and both queues are
\* served.
CatFairness == WF_catVars(Tick) /\ WF_catVars(CopyNext) /\ WF_catVars(Install)
CatSpec == CatInit /\ [][CatNext]_catVars /\ CatFairness

-----------------------------------------------------------------------------
\* An equal address means equal contents: while the manager's buffer is the one
\* copied last, the names offered are those it holds, so that skipping the copy
\* loses no update (native_snapshot forces Twitch to copy on write).  And the
\* names are never those of another chat's manager than the last one bound.
CatalogCurrent ==
    native.manager # None /\ native.marker # None =>
        /\ native.entries.manager = native.manager
        /\ native.marker = buffer[native.manager] =>
               native.entries.version = version[native.manager]

\* Twitch's table is never left squeezed: whatever chat, manager or delegate
\* came and went, a table the composer does not suppress now is shown as Twitch
\* set it, and has no height of 0 unless Twitch gave it that or changed it
\* unseen, after the last layout (stock_update).
SelectorRestored ==
    \A x \in Selectors \ (IF stock.hidden THEN {stock.selector} ELSE {}) :
        /\ table[x].hidden = asked[x].hidden
        /\ table[x].height = 0 => asked[x].height = 0 \/ x \in unseen

\* Once Twitch leaves its objects alone, the composer has its catalogue: no
\* request that was overtaken by a switch leaves native_pending set for good.
CatalogCatchesUp ==
    <>[](LET m == link.manager
         IN  m # None /\ buffer[m] # None /\ version[m] \notin Unreadable =>
                 native.ready /\ native.entries = Catalogue(m, version[m]))
=============================================================================
