----------------------------- MODULE MCComposer -----------------------------
\* An instance of the composer for TLC.  Its seven parts share no variable, so
\* their interleaving shows nothing that they do not show one by one: a
\* behaviour picks a part and runs it.  Of the picker, which is one part, it runs
\* the library while no palette is shown, or the palette while the sets stay.
EXTENDS ComposerText, ComposerCatalog, ComposerImages, ComposerClock,
        ComposerFooter, ComposerPicker, ComposerDetails, TLC

CONSTANTS a, Sp, Co, Ba, Ob, m1, m2, x1, a1, a2, b1, b2, b3, g1,
          g2, n1, n2, p1, p2, c1, e1, e2

VARIABLE chosen

all == <<chosen, textVars, catVars, imgVars, clockVars, footVars, pickVars, detVars>>

\* The names of a room: none yet, or a word, a longer one, and a ':' word.
RoomNames == {<<a>>, <<a, a>>, <<Co, a>>}
RoomCatalogs == {{}, RoomNames}

\* Tiles whose images fail before some that load: as many as FewBroken allows.
TileRows == {<<b1, b2, g1>>, <<b3, b1, g2, b2, g1>>}

\* The shortest delay, a delay below it, and ticks that stand still, are due,
\* and come after a long gap.
FrameDelays == (n1 :> <<2, 2>>) @@ (n2 :> <<1, 7, 2>>)
TickGaps == {-1, 1, 3, 30}

\* Layouts without sections, with a recent one, and with an empty one.
Sec(h, t, b, c) == [header |-> h, top |-> t, bottom |-> b, cells |-> c]
PaletteLayouts ==
    {<<>>,
     <<Sec(1, 1, 0, <<2, 1>>), Sec(1, 0, 1, <<1, 1>>)>>,
     <<Sec(2, 0, 0, <<1>>), Sec(0, 0, 0, <<>>), Sec(1, 1, 1, <<2, 1>>)>>}

Init ==
    /\ chosen \in {"text", "catalog", "images", "clock", "footer", "library", "palette",
                  "details"}
    /\ TextInit /\ CatInit /\ ImgInit /\ ClockInit /\ FootInit /\ PickInit /\ DetInit
    /\ known = {}

OthersThan(p) ==
    /\ chosen = p /\ UNCHANGED chosen
    /\ p # "text" => UNCHANGED textVars
    /\ p # "catalog" => UNCHANGED catVars
    /\ p # "images" => UNCHANGED imgVars
    /\ p # "clock" => UNCHANGED clockVars
    /\ p # "footer" => UNCHANGED footVars
    /\ p \notin {"library", "palette"} => UNCHANGED pickVars
    /\ p # "details" => UNCHANGED detVars

Next ==
    \/ OthersThan("text") /\ TextNext
    \/ OthersThan("catalog") /\ CatNext
    \/ OthersThan("images") /\ ImgNext
    \/ OthersThan("clock") /\ ClockNext
    \/ OthersThan("footer") /\ FootNext
    \/ OthersThan("library") /\ PickNext /\ UNCHANGED placeVars
    \/ OthersThan("palette") /\ PickNext /\ UNCHANGED <<catalogue, revision>>
    \/ OthersThan("details") /\ DetNext

\* The fairness of the chosen that runs: CatFairness, ImgFairness, DetFairness.
Fairness ==
    /\ WF_all(OthersThan("catalog") /\ Tick) /\ WF_all(OthersThan("catalog") /\ CopyNext)
    /\ WF_all(OthersThan("catalog") /\ Install)
    /\ WF_all(OthersThan("images") /\ RefreshImages) /\ WF_all(OthersThan("images") /\ Pass)
    /\ \A u \in Images : WF_all(OthersThan("images") /\ Answer(u))
    /\ WF_all(OthersThan("details") /\ ShowDue) /\ WF_all(OthersThan("details") /\ Ticks)

Spec == Init /\ [][Next]_all /\ Fairness
=============================================================================
