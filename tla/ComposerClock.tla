--------------------------- MODULE ComposerClock ---------------------------
\* The clock of the animated attachments in the composer (SSComposer.c): one
\* display link that advances every animation in the text, stops while nothing
\* is to be seen, and never replays the time it stood still.
\*
\* Times are whole hundredths of a second.
\*
\* A definition introduced as a fault is a plausible mistake in the one after
\* it; no specification uses it.
EXTENDS Integers, Sequences, SequencesExt

CONSTANTS
    Animated,     \* attachments with more than one frame
    Delays,       \* the delays an animation states, one per frame
    Gaps,         \* how far two ticks of the display link may be apart
    MaxFrames,    \* bound: frames of an animation
    MaxDelta,     \* the most one tick advances (0.25 s)
    MaxSteps      \* the most frames one tick skips (16)

ASSUME ClockAssumption ==
    /\ Delays \in [Animated -> Seq(Nat)]
    /\ \A a \in Animated : Len(Delays[a]) \in 2..MaxFrames
    /\ Gaps \subseteq Int /\ MaxDelta \in Nat /\ MaxSteps \in Nat

\* 0.25 s at the shortest delay, 0.02 s, are fewer frames than one tick skips.
ASSUME StepsAssumption == MaxDelta <= 2 * MaxSteps

VARIABLES
    playing,      \* animation_frames: the position of each animation in the text
    running,      \* animation_link is set
    stamped,      \* animation_timestamp is not 0
    onScreen,     \* visible_in_window of the editor
    editing       \* busy, a due preview, a read by Twitch, or marked text

clockVars == <<playing, running, stamped, onScreen, editing>>

\* preview_frame_delay: anything but 0.02 to 10 s is a tenth of a second.
FrameDelay(a, i) ==
    LET stated == Delays[a][i] IN IF 2 <= stated /\ stated <= 1000 THEN stated ELSE 10

Begin == [index |-> 1, elapsed |-> 0]
Frames == {f \in Animated \X (1..MaxFrames) : f[2] <= Len(Delays[f[1]])}

ClockInit ==
    /\ playing = [a \in {} |-> Begin] /\ running = FALSE /\ stamped = FALSE
    /\ onScreen = FALSE /\ editing = FALSE

\* sync_preview_clock and stop_preview_clock.
Sync(frames, visible) ==
    /\ running' = (frames # {} /\ visible)
    /\ stamped' = (stamped /\ running /\ frames # {} /\ visible)

\* update_preview_frames, after a rendering or an expansion: the animations now
\* in the text; one that was there goes on.
UpdateFrames(frames) ==
    /\ playing' = [a \in frames |-> IF a \in DOMAIN playing THEN playing[a] ELSE Begin]
    /\ Sync(frames, onScreen)
    /\ UNCHANGED <<onScreen, editing>>

\* layout, whenever UIKit lays the input out, sees whether it is on screen.
ClockLayout == Sync(DOMAIN playing, onScreen) /\ UNCHANGED <<playing, onScreen, editing>>

ScreenChanges == onScreen' = ~onScreen /\ UNCHANGED <<playing, running, stamped, editing>>
EditingChanges == editing' = ~editing /\ UNCHANGED <<playing, running, stamped, onScreen>>

\* Fault: the time an animation waits for its decoder is saved up.
StepUnclamped(a, frame, decoded) ==
    LET delay == FrameDelay(a, frame.index)
        next == (frame.index % Len(Delays[a])) + 1
    IN  IF frame.elapsed < delay \/ <<a, next>> \notin decoded THEN frame
        ELSE [index |-> next, elapsed |-> frame.elapsed - delay]

\* The inner loop of animate_preview: frames that are due are skipped, up to
\* one the lazy decoder does not have.
Step(a, frame, decoded) ==
    LET delay == FrameDelay(a, frame.index)
        next == (frame.index % Len(Delays[a])) + 1
    IN  IF frame.elapsed < delay THEN frame
        ELSE IF <<a, next>> \notin decoded THEN [frame EXCEPT !.elapsed = delay]
        ELSE [index |-> next, elapsed |-> frame.elapsed - delay]

Advance(a, delta, decoded) ==
    FoldLeft(LAMBDA frame, i : Step(a, frame, decoded),
             [playing[a] EXCEPT !.elapsed = @ + delta], [i \in 1..MaxSteps |-> i])

\* animate_preview.  The first tick of a clock only notes the time, and so does
\* every tick while the text is being edited.
Animate(gap, decoded) ==
    /\ running
    /\ IF ~onScreen
       THEN running' = FALSE /\ stamped' = FALSE /\ UNCHANGED playing
       ELSE /\ stamped' = TRUE /\ UNCHANGED running
            /\ playing' =
                  IF ~stamped \/ editing \/ gap <= 0 THEN playing
                  ELSE LET delta == IF gap > MaxDelta THEN MaxDelta ELSE gap
                       IN  [a \in DOMAIN playing |-> Advance(a, delta, decoded)]
    /\ UNCHANGED <<onScreen, editing>>

ClockNext ==
    \/ \E frames \in SUBSET Animated : UpdateFrames(frames)
    \/ ClockLayout \/ ScreenChanges \/ EditingChanges
    \/ \E gap \in Gaps, decoded \in SUBSET Frames : Animate(gap, decoded)

ClockSpec == ClockInit /\ [][ClockNext]_clockVars

-----------------------------------------------------------------------------
\* No animation falls behind: after every tick the frame shown is the one that
\* is due, or the one before a frame that is not decoded yet, and then it has
\* saved up no more than its own delay, so that it does not rush afterwards.
\* This needs the cap on the steps never to bind: the longest delta and the
\* shortest delay leave it three steps to spare.
FrameDue ==
    \A a \in DOMAIN playing :
        playing[a].elapsed <= FrameDelay(a, playing[a].index)
=============================================================================
