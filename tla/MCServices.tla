----------------------------- MODULE MCServices -----------------------------
\* An instance, for TLC, of the services around the players: the names of a
\* room's emotes, its fetches, the messages that are rewritten, and the log with
\* its labels.  The parts share no variable, so their interleaving shows nothing
\* that they do not show one by one: a behaviour picks a part and runs it.
EXTENDS EmoteNames, DiagnosticLog, PrivacyLabels, LocalMessages

CONSTANTS RoomIds, PendingProviders, Receivers, Main, MaxRooms, RoomIdle,
          SweepSeconds, RetrySeconds, MaxFailures, MaxDoublings, MaxClock,
          MaxGeneration, Global, None,
          a, w, Do, Sp, Nb, u1, u2

VARIABLES chosen, rooms, generation, lastRoom, lastSweep, now, fetches, thread

roomVars == <<rooms, generation, lastRoom, lastSweep, now, fetches, thread>>
all == <<chosen, namesVars, logVars, labelVars, frameVars, messageVars, roomVars>>

\* The rooms, whose providers have a name of their own here.
Fetching == INSTANCE EmoteRooms WITH Providers <- PendingProviders

\* Lists of up to MaxEntries, more than the set holds, but not two such lists.
FewEntries == \A p, q \in Providers : p # q => Len(lists[p]) + Len(lists[q]) <= MaxEntries + 1

\* The codes of a room and the global ones: two that share a name, one with a
\* mark at its end, one too long to be looked up.
CodeSets ==
    {[room |-> {}, global |-> {}],
     [room |-> {<<a>>, <<a, Do>>}, global |-> {<<a>>, <<w, a>>}],
     [room |-> {}, global |-> {<<w>>, <<a, a>>, <<w, w>>}]}

\* Messages with no emote of Twitch's, or one, at different places; and frames
\* of several lines, one of which has more codes than its line can take.
Ranges == {{}, {[first |-> 0, last |-> 1]}, {[first |-> 2, last |-> 2]}}
LineOf(body, natives) == [body |-> body, natives |-> natives]
Bodies == UNION {[1..n -> {a, w, Do, Sp}] : n \in 1..4}
Full1 == LineOf(<<a, Sp, a, Sp, a>>, {})
Some == {LineOf(<<a, Sp, w>>, {}), LineOf(<<Do, a, Do>>, {}), Full1}
FewFrames ==
    {<<LineOf(b, n)>> : b \in Bodies, n \in Ranges}
    \cup {<<x, y>> : x, y \in Some} \cup {<<Full1, x, y>> : x, y \in Some}

\* Messages of the user and of somebody else.
Texts == UNION {[1..n -> {a, w, Sp, Nb}] : n \in 1..5}
NativeToken == [kind |-> "native", text |-> <<w, w>>]
Sent(u, tokens) == [sender |-> u, tokens |-> tokens]
FewBatches ==
    {<<Sent(u1, <<TextToken(t)>>)>> : t \in Texts}
    \cup {<<Sent(u, <<TextToken(t), NativeToken, TextToken(<<a>>)>>),
            Sent(u1, <<TextToken(<<a, Sp, a>>)>>)>> :
             u \in Users, t \in {<<a, Sp>>, <<a, Nb, a>>, <<w, Sp, a>>}}

\* The parts that do not run stand still in one state.
Init ==
    /\ chosen \in {"names", "rooms", "log", "labels", "frames", "messages"}
    /\ IF chosen = "names" THEN NamesInit /\ FewEntries
       ELSE lists = [p \in Providers |-> <<>>] /\ arrived = {} /\ items = {}
    /\ IF chosen = "frames" THEN FrameInit
       ELSE /\ frame = <<>> /\ written = <<>> /\ delivered = {}
            /\ names \in IF chosen = "messages" THEN CodeSets ELSE {CHOOSE n \in CodeSets : TRUE}
    /\ IF chosen = "messages" THEN MessagesInit
       ELSE batch = <<>> /\ reader = NoUser /\ shownAs = {}
    /\ LogInit /\ (chosen # "log" => enabled)
    /\ LabelsInit /\ Fetching!Init

OthersThan(p) ==
    /\ chosen = p /\ UNCHANGED chosen
    /\ p # "names" => UNCHANGED namesVars
    /\ p # "rooms" => UNCHANGED roomVars
    /\ p # "log" => UNCHANGED logVars
    /\ p # "labels" => UNCHANGED labelVars
    /\ p # "frames" => UNCHANGED frameVars
    /\ p # "messages" => UNCHANGED messageVars

Next ==
    \/ OthersThan("names") /\ NamesNext
    \/ OthersThan("rooms") /\ Fetching!Next
    \/ OthersThan("log") /\ LogNext
    \/ OthersThan("labels") /\ LabelsNext
    \/ OthersThan("frames") /\ FrameNext
    \/ OthersThan("messages") /\ ReceiveMessages

\* The fairness of Fetching!FairSpec.
Fairness ==
    \A f \in Fetching!Fetch :
        WF_all(OthersThan("rooms") /\ \E result \in Fetching!Result : Fetching!Finish(f, result))

Spec == Init /\ [][Next]_all /\ Fairness

\* TASEmotes.c:462: all exits release pending state.  No provider of a room
\* stays pending for ever, whatever becomes of its task.
PendingEnds == Fetching!PendingEnds
=============================================================================
