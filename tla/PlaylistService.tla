--------------------------- MODULE PlaylistService ---------------------------
(***************************************************************************)
(* What the interception of playlists promises a viewer, with no contexts, *)
(* references, caches or retries: a media playlist URL belongs to at most  *)
(* one channel, a channel's master playlist decides what belongs to it,    *)
(* and whoever asks for a URL is answered once, with a playlist of the     *)
(* channel that owned the URL at that moment, and never with more ads than *)
(* the playlist came with.  VaftFetch implements this.                     *)
(***************************************************************************)
CONSTANTS Channels, Urls, Workers, Listings, None

VARIABLES
    owner,          \* the channel each URL belongs to
    request         \* what each thread was asked and answers

serviceVars == <<owner, request>>

NoRequest == [state |-> "none", channel |-> None, ads |-> FALSE]

Init ==
    /\ owner = [u \in Urls |-> None]
    /\ request = [w \in Workers |-> NoRequest]

\* A channel's master playlist: it owns nothing but what is listed, and takes
\* from the others nothing but that and what is forgotten.
Announce(channel, listing) ==
    /\ \A u \in listing : owner'[u] \in {channel, None}
    /\ \A u \in Urls \ listing : owner'[u] \in {owner[u], None} \ {channel}
    /\ owner' \in [Urls -> Channels \cup {None}]
    /\ UNCHANGED request

\* A playlist arrives; one that belongs to nobody is answered as it is.
Ask(w, u, ads) ==
    /\ request[w].state = "none"
    /\ request' = [request EXCEPT ![w] =
                     [state |-> IF owner[u] = None THEN "answered" ELSE "asked",
                      channel |-> owner[u], ads |-> ads]]
    /\ UNCHANGED owner

\* The answer is the owner's, and has ads only if what arrived has.
Answer(w, ads) ==
    /\ request[w].state = "asked"
    /\ ads => request[w].ads
    /\ request' = [request EXCEPT ![w] = [state |-> "answered",
                                          channel |-> request[w].channel, ads |-> ads]]
    /\ UNCHANGED owner

Take(w) ==
    /\ request[w].state = "answered"
    /\ request' = [request EXCEPT ![w] = NoRequest]
    /\ UNCHANGED owner

Next ==
    \/ \E channel \in Channels : \E listing \in Listings[channel] :
         Announce(channel, listing)
    \/ \E w \in Workers :
         \/ \E u \in Urls, ads \in BOOLEAN : Ask(w, u, ads)
         \/ \E ads \in BOOLEAN : Answer(w, ads)
         \/ Take(w)

Spec == Init /\ [][Next]_serviceVars

============================================================================
