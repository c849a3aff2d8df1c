---------------------------- MODULE LocalMessages ----------------------------
\* The user's own messages (TASEmoteUI.c): the chat shows them from a list of
\* tokens before they come back from the server, and the codes in its text
\* tokens become emote tokens.  The codes are looked up with one notion of a
\* blank (tas_emotes_local_matches_copy) and replaced with another
\* (NSCharacterSet), which finds the ends of the words itself.
\*
\* A definition introduced as a fault is a plausible mistake in the one after
\* it; no specification uses it.
EXTENDS ChatFrames

CONSTANTS
    OtherBlanks,    \* blanks of NSCharacterSet's alone
    Users,
    NoUser,         \* 0
    Batches         \* sequences of messages: [sender, tokens]

Character == Narrow \cup Wide \cup Marks \cup Blanks \cup OtherBlanks
Token == [kind : {"text", "native"}, text : Seq(Character)]

ASSUME MessagesAssumption ==
    /\ NoUser \notin Users
    /\ Batches \subseteq Seq([sender : Users \cup {NoUser}, tokens : Seq(Token)])

VARIABLES
    batch,      \* the messages received, and for which user
    reader,
    shownAs     \* what the chat is given: each message's tokens, none before

messageVars == <<batch, reader, shownAs>>

MessagesInit ==
    /\ batch \in Batches /\ reader \in Users \cup {NoUser}
    /\ shownAs = {}

TextToken(text) == [kind |-> "text", text |-> text]
EmoteToken(known, text) == [kind |-> "emote", text |-> text, id |-> <<Owner(known, text), text>>]

\* tas_emotes_local_matches_copy: the codes among the words of a text.
Matches(known, text) ==
    {w \in {Text(text, r) : r \in ToSet(RunsOf(text, Blanks))} :
        Bytes(w) <= MaxWord /\ Known(known, w)}

\* append_text: nothing for an empty range.
Piece(text, from, to) ==
    IF from = to THEN <<>> ELSE <<TextToken(SubSeq(text, from + 1, to))>>

\* Fault: the text in front of an emote is dropped when there is another emote
\* before it.
PieceAfterFirst(text, from, to) ==
    IF from = to \/ (from > 0 /\ to < Len(text)) THEN <<>>
    ELSE <<TextToken(SubSeq(text, from + 1, to))>>

\* The text between two emotes, up to where the next one starts.
Between(text, from, to) == Piece(text, from, to)

\* The inner loop of rewrite_local_message: `done` is what has been put out.
Replaced(known, text, matches) ==
    LET acc == FoldLeft(LAMBDA s, r :
                   IF Text(text, r) \in matches
                   THEN [out |-> s.out \o Between(text, s.done, r.first)
                                      \o <<EmoteToken(known, Text(text, r))>>,
                         done |-> r.last + 1]
                   ELSE s,
                   [out |-> <<>>, done |-> 0], RunsOf(text, Blanks \cup OtherBlanks))
    IN  acc.out \o Piece(text, acc.done, Len(text))

\* rewrite_local_message: native tokens, and text without a code, stay the
\* same objects.
LocalTokens(known, tokens) ==
    FlattenSeq([i \in DOMAIN tokens |->
        IF tokens[i].kind # "text" \/ Matches(known, tokens[i].text) = {}
        THEN <<tokens[i]>>
        ELSE Replaced(known, tokens[i].text, Matches(known, tokens[i].text))])

\* A message of somebody else's is not touched.
Rewritten(known, message, user) ==
    IF user = NoUser \/ message.sender # user THEN message.tokens
    ELSE LocalTokens(known, message.tokens)

\* receive_messages
ReceiveMessages ==
    /\ shownAs = {}
    /\ shownAs' = {[i \in DOMAIN batch |-> Rewritten(names, batch[i], reader)]}
    /\ UNCHANGED <<batch, reader>>

MessagesSpec == MessagesInit /\ [][ReceiveMessages]_messageVars

-----------------------------------------------------------------------------
TextOf(tokens) == FlattenSeq([i \in DOMAIN tokens |-> tokens[i].text])
Those(tokens, kind) ==
    FlattenSeq([i \in DOMAIN tokens |-> IF tokens[i].kind = kind THEN <<tokens[i]>> ELSE <<>>])

\* The user reads what was written: the tokens of a message still spell its
\* text, character by character, Twitch's own tokens are all there and in their
\* order, only the user's own messages have new ones, and every new one is a
\* whole word of the text for one of the two notions of a blank at least.
LocalTextKept ==
    \A out \in shownAs : \A i \in DOMAIN batch :
        LET new == Those(out[i], "emote")
            texts == {t.text : t \in {t \in ToSet(batch[i].tokens) : t.kind = "text"}}
        IN  /\ TextOf(out[i]) = TextOf(batch[i].tokens)
            /\ Those(out[i], "native") = Those(batch[i].tokens, "native")
            /\ new # <<>> => batch[i].sender = reader
            /\ \A t \in ToSet(new) :
                  \E text \in texts : \E r \in ToSet(RunsOf(text, Blanks)) : Text(text, r) = t.text
=============================================================================
