----------------------------- MODULE VaftFetch -----------------------------
(***************************************************************************)
(* The threads that run process_manifest, over the tables of StreamTable.  *)
(*                                                                         *)
(* A worker is a thread that has a media playlist in hand: the completion  *)
(* queue of the URL protocol's session, or the queue of one AVURLAsset's   *)
(* resource loader.  It takes g_lock for single reads and writes and       *)
(* blocks in the network between them, so everything it read may be stale  *)
(* when it writes.  A master playlist is handled by a thread of its own in *)
(* one critical section (MasterPlaylist).                                  *)
(*                                                                         *)
(* A network answer depends on nothing here, so its arrival and the        *)
(* critical section that follows it are one step.                          *)
(***************************************************************************)
EXTENDS StreamTable

CONSTANTS
    Workers,        \* threads that may run process_manifest at one time
    RenditionOf     \* the rendition a media playlist URL is listed with

ASSUME RenditionOfAssumption == RenditionOf \in [Urls -> Renditions]

VARIABLE worker     \* the local variables of each worker

vars == <<streams, routes, nextGeneration, now, worker>>

\* What process_manifest returns: which branch chose the playlist, whose it
\* is, for which rendition, and whether it has ad markers.
Kind == {"passthrough", "original", "cached", "alternate", "fallback", "suppressed"}
NoAnswer == [kind |-> "none", channel |-> None, rendition |-> None, ads |-> FALSE]
Answer == [kind : Kind \cup {"none"}, channel : Channels \cup {None},
           rendition : Renditions \cup {None}, ads : BOOLEAN]

\* pc: "clean" before clear_active_backup, "cached" fetching the snapshot's
\* backup variant, "load" before load_backup_master's lookup, "master" and
\* "variant" fetching one, "done" with the answer ready.
Pc == {"idle", "clean", "cached", "load", "master", "variant", "done"}

IdleWorker ==
    [pc |-> "idle", url |-> None, ref |-> NoRef, channel |-> None,
     backup |-> NoBackup, player |-> 1, attempt |-> 1, wasCached |-> FALSE,
     master |-> None, fallback |-> FALSE, answer |-> NoAnswer]
Worker ==
    [pc : Pc, url : Urls \cup {None}, ref : Ref, channel : Channels \cup {None},
     backup : Backup, player : 1 .. Players + 1, attempt : {1, 2},
     wasCached : BOOLEAN, master : Channels \cup {None}, fallback : BOOLEAN,
     answer : Answer]

Init == TableInit /\ worker = [w \in Workers |-> IdleWorker]

\* A worker with an answer keeps nothing else.
Answered(w, kind, channel, rendition, ads) ==
    worker' = [worker EXCEPT ![w] =
                 [IdleWorker EXCEPT
                    !.pc = "done", !.url = worker[w].url, !.ref = worker[w].ref,
                    !.channel = worker[w].channel,
                    !.answer = [kind |-> kind, channel |-> channel,
                                rendition |-> rendition, ads |-> ads]]]

----------------------------------------------------------------------------
(* snapshot_stream_for_variant                                             *)

\* The age of the snapshot's backup is tested against the clock a moment
\* after the lock is released; a worker that finds it too old then goes on
\* like one whose fetch of it fails.
BackupUsable(stream) ==
    stream.backup.channel # None /\ now - stream.backupCreated < BackupLife

VariantMapped(w, u, ads) ==
    /\ worker[w].pc = "idle"
    /\ StreamForVariant(u)
    /\ LET stream == streams[routes[u].slot]
       IN worker' = [worker EXCEPT ![w] =
                       [IdleWorker EXCEPT
                          !.pc = IF ~ads THEN "clean"
                                 ELSE IF BackupUsable(stream) THEN "cached" ELSE "load",
                          !.url = u, !.ref = RouteRef(u),
                          !.channel = stream.channel,
                          !.backup = IF ads /\ BackupUsable(stream)
                                     THEN stream.backup ELSE NoBackup]]

\* An unknown playlist passes through with its URLs rewritten.
VariantUnmapped(w, u, ads) ==
    /\ worker[w].pc = "idle"
    /\ NoStreamForVariant(u)
    /\ worker' = [worker EXCEPT ![w] =
                    [IdleWorker EXCEPT
                       !.pc = "done", !.url = u,
                       !.answer = [kind |-> "passthrough", channel |-> None,
                                   rendition |-> RenditionOf[u], ads |-> ads]]]

\* The original has no ads: the ad break is over, and so is the backup.
CleanOriginal(w) ==
    /\ worker[w].pc = "clean"
    /\ ClearActiveBackup(worker[w].ref)
    /\ Answered(w, "original", worker[w].channel, RenditionOf[worker[w].url], FALSE)

----------------------------------------------------------------------------
(* The backup variant of the snapshot                                      *)

CachedClean(w) ==
    /\ worker[w].pc = "cached"
    /\ Answered(w, "cached", worker[w].backup.channel, worker[w].backup.rendition, FALSE)
    /\ UNCHANGED tableVars

CachedHasAds(w) ==
    /\ worker[w].pc = "cached"
    /\ ClearActiveBackup(worker[w].ref)
    /\ worker' = [worker EXCEPT ![w].pc = "load", ![w].backup = NoBackup]

CachedFails(w) ==
    /\ worker[w].pc = "cached"
    /\ worker' = [worker EXCEPT ![w].pc = "load", ![w].backup = NoBackup]
    /\ UNCHANGED tableVars

----------------------------------------------------------------------------
(* fetch_vaft_variant: each player type in turn, twice if its first master *)
(* came from the cache                                                     *)

\* load_backup_master: the lookup, before anything is fetched.
LoadBackupMaster(w) ==
    LET ref == worker[w].ref
        p == worker[w].player
        cached == StreamRefMatches(ref) /\ streams[ref.slot].masters[p] # None
    IN /\ worker[w].pc = "load" /\ p \in Player
       /\ worker' = [worker EXCEPT ![w].pc = IF cached THEN "variant" ELSE "master",
                                   ![w].wasCached = cached,
                                   ![w].master = IF cached THEN streams[ref.slot].masters[p]
                                                 ELSE None]
       /\ UNCHANGED tableVars

\* The token and the alternate master arrive.  The master is cached if it fits
\* TAS_MANIFEST_CAPACITY.
MasterFetched(w, fits) ==
    /\ worker[w].pc = "master"
    /\ IF fits
       THEN StoreBackupMaster(worker[w].ref, worker[w].player, worker[w].channel)
       ELSE UNCHANGED tableVars
    /\ worker' = [worker EXCEPT ![w].pc = "variant", ![w].master = worker[w].channel]

NextPlayer(w) ==
    [worker[w] EXCEPT !.pc = "load", !.player = @ + 1, !.attempt = 1,
                      !.wasCached = FALSE, !.master = None]

\* No token, or no alternate master: on to the next player type.
MasterFails(w) ==
    /\ worker[w].pc = "master"
    /\ worker' = [worker EXCEPT ![w] = NextPlayer(w)]
    /\ UNCHANGED tableVars

\* The alternate has no ads: it becomes the context's backup variant.
AlternateClean(w) ==
    LET alternate == [channel |-> worker[w].master,
                      rendition |-> RenditionOf[worker[w].url]]
    IN /\ worker[w].pc = "variant"
       /\ PublishBackup(worker[w].ref, alternate)
       /\ Answered(w, "alternate", alternate.channel, alternate.rendition, FALSE)

\* Fault: an alternate whose master came from the cache is always retried.
RetryForever(w, arrived) ==
    /\ worker[w].pc = "variant"
    /\ worker' = [worker EXCEPT ![w] =
                    IF worker[w].wasCached
                    THEN [worker[w] EXCEPT !.pc = "load", !.attempt = 2,
                                           !.wasCached = FALSE, !.master = None]
                    ELSE NextPlayer(w)]
    /\ UNCHANGED tableVars

\* The alternate has ads, or (~arrived) could not be fetched: its master is
\* dropped from the cache.  The first player type's playlist is remembered as
\* the fallback, the last one's if there is none yet.
AlternateUnusable(w, arrived) ==
    LET p == worker[w].player
        fallback == worker[w].fallback \/ (arrived /\ p \in {1, Players})
    IN /\ worker[w].pc = "variant"
       /\ ClearBackupMaster(worker[w].ref, p)
       /\ worker' = [worker EXCEPT ![w] =
                       IF worker[w].wasCached /\ worker[w].attempt = 1
                       THEN [worker[w] EXCEPT !.pc = "load", !.attempt = 2,
                                              !.wasCached = FALSE, !.master = None,
                                              !.fallback = fallback]
                       ELSE [NextPlayer(w) EXCEPT !.fallback = fallback]]

\* Every player type has been tried: the fallback, or the original, with its
\* ad segments suppressed.
AlternatesExhausted(w) ==
    /\ worker[w].pc = "load" /\ worker[w].player = Players + 1
    /\ Answered(w, IF worker[w].fallback THEN "fallback" ELSE "suppressed",
                worker[w].channel, RenditionOf[worker[w].url], TRUE)
    /\ UNCHANGED tableVars

\* process_manifest returns.
Deliver(w) ==
    /\ worker[w].pc = "done"
    /\ worker' = [worker EXCEPT ![w] = IdleWorker]
    /\ UNCHANGED tableVars

----------------------------------------------------------------------------
\* What a worker does once it has a playlist in hand.
Work(w) ==
    \/ CleanOriginal(w)
    \/ CachedClean(w) \/ CachedHasAds(w) \/ CachedFails(w)
    \/ LoadBackupMaster(w)
    \/ \E fits \in BOOLEAN : MasterFetched(w, fits)
    \/ MasterFails(w)
    \/ AlternateClean(w)
    \/ \E arrived \in BOOLEAN : AlternateUnusable(w, arrived)
    \/ AlternatesExhausted(w)
    \/ Deliver(w)

Environment ==
    \/ Tick /\ UNCHANGED worker
    \/ \E channel \in Channels : \E listing \in Listings[channel] :
         MasterPlaylist(channel, listing) /\ UNCHANGED worker

Next ==
    \/ Environment
    \/ \E w \in Workers :
         \/ \E u \in Urls, ads \in BOOLEAN :
              VariantMapped(w, u, ads) \/ VariantUnmapped(w, u, ads)
         \/ Work(w)

Spec == Init /\ [][Next]_vars

\* A synchronous request always returns (NSURLConnection times out), and the
\* thread that runs process_manifest is scheduled.
FairSpec == Spec /\ \A w \in Workers : WF_vars(Work(w))

----------------------------------------------------------------------------
(* Properties                                                              *)

\* Every context, route and worker holds what its C type holds, and the route
\* table never outgrows its array.
TypeOK == TableTypeOK /\ worker \in [Workers -> Worker]

\* A playlist is answered with content of the channel that owned its URL when
\* it arrived, whatever happened to the context during the fetches, and an
\* unknown playlist is answered with nobody's.
AnswersOwned ==
    \A w \in Workers : worker[w].pc = "done" =>
      worker[w].answer.channel = worker[w].channel

\* The same channel, said of a context that is still the one the worker
\* looked up: the worker's reference never comes to mean another channel.
RefsOwned ==
    \A w \in Workers : StreamRefMatches(worker[w].ref) =>
      streams[worker[w].ref.slot].channel = worker[w].channel

\* What belongs to a channel stays with it: routes and contexts (StreamTable),
\* the answers the player gets, and the references the workers hold across
\* their fetches.
Owned == RoutesOwned /\ ContextsOwned /\ AnswersOwned /\ RefsOwned

\* A reference that no longer matches never matches again: no incarnation of
\* a slot repeats a generation while a worker still holds the old one.
StaleForever ==
    [][\A w \in Workers :
         LET ref == worker[w].ref
         IN worker'[w].ref = ref /\ ref.slot \in Slot
              /\ streams[ref.slot].generation # ref.generation
            => streams'[ref.slot].generation # ref.generation]_vars

\* A context disappears only because nothing touched it for the TTL, or
\* because a new channel needed a slot of a full table and no context had
\* gone untouched longer.
EvictsLeastRecent ==
    [][\A i \in Slot :
         streams[i].active /\ streams'[i].generation # streams[i].generation
         => \/ now - streams[i].lastSeen > StreamTtl
            \/ \A j \in Slot : /\ streams[j].active
                               /\ now - streams[j].lastSeen <= StreamTtl
                               /\ streams[i].lastSeen <= streams[j].lastSeen]_vars

\* Every media playlist handed to process_manifest is answered, whatever the
\* network does and however often other threads refill and drop the same
\* cached masters: the retries end.
EveryPlaylistAnswered ==
    \A w \in Workers : worker[w].pc # "idle" ~> worker[w].pc = "done"

\* README.md:31: alternate renditions are matched by resolution and frame
\* rate.  The backup variant of another rendition is reused all the same.
RenditionsMatch ==
    \A w \in Workers : worker[w].pc = "done" =>
      worker[w].answer.rendition = RenditionOf[worker[w].url]

\* docs/ARCHITECTURE.md:34: a context nobody touched for the TTL has expired.
\* It is pruned only when some master playlist arrives; until then a media
\* playlist is still classified by it, and revives it.
ExpiredUnused ==
    [][\A w \in Workers :
         worker[w].pc = "idle" /\ worker'[w].ref.slot \in Slot
         => now - streams[worker'[w].ref.slot].lastSeen <= StreamTtl]_vars

\* The owner of a URL is the channel of the context its route names; a worker
\* is asked when it takes the snapshot and answers when it is done.
OwnerOf(u) == IF Routed(u) THEN streams[routes[u].slot].channel ELSE None
RequestOf(w) ==
    [state |-> IF worker[w].pc = "idle" THEN "none"
               ELSE IF worker[w].pc = "done" THEN "answered" ELSE "asked",
     channel |-> IF worker[w].pc = "done" THEN worker[w].answer.channel
                 ELSE worker[w].channel,
     ads |-> IF worker[w].pc = "done" THEN worker[w].answer.ads
             ELSE worker[w].pc \notin {"idle", "clean"}]

Service == INSTANCE PlaylistService WITH
             owner <- [u \in Urls |-> OwnerOf(u)],
             request <- [w \in Workers |-> RequestOf(w)]

\* Through every expiry, eviction, refresh, stale answer and retry, the
\* threads implement the service.
ImplementsService == Service!Spec

----------------------------------------------------------------------------
(* The inductive invariant of the proofs in VaftFetchProofs                *)

\* A worker holds no reference but NoRef and those it was once given.
RefsGiven ==
    \A w \in Workers :
      /\ worker[w].ref.generation < nextGeneration
      /\ worker[w].ref.slot # 0 => worker[w].ref.generation >= 1

\* What a worker holds between two critical sections is of the channel it
\* looked up.
HeldOwned ==
    \A w \in Workers :
      /\ worker[w].pc # "idle" => worker[w].url \in Urls
      /\ worker[w].pc \in {"master", "variant"} => worker[w].player \in Player
      /\ worker[w].pc = "cached" => worker[w].backup.channel = worker[w].channel
      /\ worker[w].pc = "variant" => worker[w].master = worker[w].channel

IInv ==
    /\ TypeOK
    /\ TableInv
    /\ RefsGiven
    /\ RefsOwned
    /\ HeldOwned
    /\ AnswersOwned

============================================================================
