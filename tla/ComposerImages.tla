--------------------------- MODULE ComposerImages ---------------------------
\* The thumbnails of the composer (SSComposer.c): tiles ask for their images,
\* a few requests run at a time, an image that failed is not asked for again
\* for a while, and what was loaded is kept in a cache that may drop it.
\*
\* All of it runs on the main thread; a request's answer is one block there.
\*
\* A definition introduced as a fault is a plausible mistake in the one after
\* it; no specification uses it.
EXTENDS Integers, Sequences, FiniteSets, SequencesExt

CONSTANTS
    Images,       \* image URLs
    Broken,       \* those that never load
    Rows,         \* what the tiles may show: sequences of URLs
    MaxPending,   \* requests at a time (8)
    MaxFailed,    \* failures remembered (128)
    Backoff,      \* how long a failure counts (60 s)
    RequestTime   \* how long a request takes at most (10 s)

ASSUME ImagesAssumption ==
    /\ Broken \subseteq Images
    /\ Rows \subseteq Seq(Images)
    /\ {MaxPending, MaxFailed, Backoff} \subseteq Nat \ {0} /\ RequestTime \in Nat

VARIABLES
    tiles,        \* the URLs of the row's tiles, in order
    displayed,    \* those whose tile holds an image (thumbnail_record_key)
    cache,        \* images
    asking,       \* pending: how long each request has taken
    failures      \* failed: how long ago each failure was

imgVars == <<tiles, displayed, cache, asking, failures>>

Urls(row) == ToSet(row)
Aged(table, most) == [u \in DOMAIN table |-> IF table[u] < most THEN table[u] + 1 ELSE most]
With(table, u) == [v \in DOMAIN table \cup {u} |-> IF v = u THEN 0 ELSE table[v]]
Without(table, u) == [v \in DOMAIN table \ {u} |-> table[v]]
Empty == [u \in {} |-> 0]

ImgInit ==
    /\ tiles = <<>> /\ displayed = {} /\ cache = {}
    /\ asking = Empty /\ failures = Empty

\* image_request's early returns.
MayAsk(u, held, ask, fails) ==
    /\ u \notin held \cup DOMAIN ask
    /\ Cardinality(DOMAIN ask) < MaxPending
    /\ u \in DOMAIN fails => fails[u] >= Backoff

\* set_thumbnail of every tile in turn: a tile keeps the image it has, shows
\* the cached one, or asks for it.
Thumbnails(row, shows, held, ask, fails) ==
    /\ tiles' = row
    /\ displayed' = shows \cup (Urls(row) \cap held)
    /\ asking' = FoldLeft(LAMBDA a, u : IF u \notin shows /\ MayAsk(u, held, a, fails)
                                        THEN With(a, u) ELSE a,
                          ask, row)
    /\ cache' = held /\ failures' = fails

\* fill_strip: other tiles, none of which shows anything yet.
Fill(row) ==
    /\ row # tiles
    /\ Thumbnails(row, {}, cache, asking, failures)

\* The tick, and every other refresh: refresh_strip_images.
RefreshImages ==
    /\ Thumbnails(tiles, displayed, cache, asking, failures)

\* Fault: only the last failure is remembered.
RecordedAlone(fails, u) == With(Empty, u)

\* The answer's block: a failure makes room in a full table by forgetting all
\* of it.  The notice that ends it refreshes the tiles at once.
Recorded(fails, u) ==
    With(IF Cardinality(DOMAIN fails) >= MaxFailed THEN Empty ELSE fails, u)

Arrived(u) ==
    /\ u \in DOMAIN asking
    /\ Thumbnails(tiles, displayed, cache \cup {u}, Without(asking, u), failures)

Failed(u) ==
    /\ u \in DOMAIN asking
    /\ Thumbnails(tiles, displayed, cache, Without(asking, u), Recorded(failures, u))

Answer(u) == IF u \in Broken THEN Failed(u) ELSE Arrived(u)

\* NSCache drops what it likes.
Evict(u) ==
    /\ u \in cache
    /\ cache' = cache \ {u}
    /\ UNCHANGED <<tiles, displayed, asking, failures>>

\* Time: no request outlasts the session's timeout.
Pass ==
    /\ \A u \in DOMAIN asking : asking[u] < RequestTime
    /\ asking' = Aged(asking, RequestTime)
    /\ failures' = Aged(failures, Backoff)
    /\ UNCHANGED <<tiles, displayed, cache>>

ImgNext ==
    \/ \E row \in Rows : Fill(row)
    \/ RefreshImages
    \/ \E u \in Images : Answer(u) \/ Evict(u)
    \/ Pass

\* Every request is answered, and ssTick: runs while the tiles are visible.
ImgFairness ==
    /\ WF_imgVars(RefreshImages) /\ WF_imgVars(Pass)
    /\ \A u \in Images : WF_imgVars(Answer(u))
ImgSpec == ImgInit /\ [][ImgNext]_imgVars /\ ImgFairness

-----------------------------------------------------------------------------
\* The broken images of a row leave requests to the others: each takes one of
\* MaxPending for RequestTime at most, and not again for Backoff; and the table of
\* failures holds them all.  With the code's constants that is up to 55 images
\* that time out, and a strip has up to 64 tiles.
FewBroken(row) ==
    LET broken == Cardinality(Urls(row) \cap Broken)
    IN  /\ broken * RequestTime < MaxPending * (Backoff + RequestTime)
        /\ broken < MaxFailed

\* No tile starves in a row with few enough broken images: one whose image loads
\* comes to show it in a row that stays, whatever of the tiles before it fail and
\* are retried, and whatever the cache drops.  With more broken ones it may wait
\* for ever, since the tiles ask in their order.
TilesLoad ==
    \A row \in Rows : FewBroken(row) =>
        \A u \in Urls(row) \ Broken : <>[](tiles = row) => <>(u \in displayed)
=============================================================================
