-------------------------------- MODULE MCVideo --------------------------------
(***************************************************************************)
(* Instances of Video on a screen of 32 x 24 pixels.                       *)
(***************************************************************************)
EXTENDS Video

(***************************************************************************)
(* Journeys in all four directions, on the spot and across, to targets     *)
(* that are and are not a whole number of steps away.  No step leads below *)
(* 0: the greatest is 10.  The image is three pixels wide, so that lines   *)
(* beginning at 27 are the last that vg_drawline draws to their end.       *)
(***************************************************************************)
MCJourneys ==
    { <<10, 5, 17, 5>>, <<17, 5, 10, 5>>, <<3, 2, 3, 14>>, <<3, 22, 3, 10>>,
      <<3, 3, 3, 3>>, <<10, 10, 12, 13>>,
      <<27, 4, 22, 4>>, <<29, 4, 24, 4>>, <<27, 4, 27, 9>> }

\* A pixel every third and every second frame, none, one, several per frame.
MCSpeeds == {-3, -2, 0, 1, 2, 3, 5, 10}

\* 90 frames per second are more than there are interrupts.
MCFrameRates == {30, 60, 90}

\* Inside, up to both borders, over the right border, over the lower border,
\* without an extent.
MCRectangles ==
    { <<2, 3, 5, 4>>, <<20, 20, 12, 4>>, <<28, 5, 10, 3>>, <<5, 20, 3, 8>>, <<7, 7, 0, 5>> }

\* 1, a divisor of both resolutions, divisors of none.
MCGrids == {1, 4, 3, 5}

\* Two of the modes vg_set_mode knows and one it does not.
MCModes == {"0x105", "0x115", "0x118"}

===============================================================================
