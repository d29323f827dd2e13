----------------------------- MODULE MCFakeOnline -----------------------------
(***************************************************************************)
(* One module of either side of the DSSD behind two PPACs, one particle    *)
(* through both planes, one past the second, and one that piles up.  The   *)
(* dead time is no multiple of the unit of the timestamps, so that two     *)
(* particles a dead time apart may be nearer than the window.              *)
(***************************************************************************)
EXTENDS FakeOnline

\* The slots that the analysis counts on, and those the simulation has by default.
Configured == [m \in Modules |-> IF m = 0 THEN 2 ELSE m + 3]
DefaultSlots == [m \in Modules |-> m + 2]

Tracks ==
    { [tx |-> 1, ty |-> 0, dx |-> 1, dy |-> -1, x |-> 1, y |-> 0, xlate |-> 1, ylate |-> 0,
        peak |-> 0, long |-> TRUE],
      [tx |-> 0, ty |-> 1, dx |-> 2, dy |-> 0, x |-> 0, y |-> 1, xlate |-> 0, ylate |-> 0,
        peak |-> 1, long |-> TRUE],
      [tx |-> -1, ty |-> 1, dx |-> 0, dy |-> 0, x |-> 0, y |-> 0, xlate |-> 0, ylate |-> 1,
        peak |-> 1, long |-> FALSE] }

\* For two modules of two strips on either side.
Corners ==
    { [tx |-> 0, ty |-> 0, dx |-> 0, dy |-> 0, x |-> x, y |-> y, xlate |-> 0, ylate |-> 0,
        peak |-> 0, long |-> TRUE] : x \in {0, 2}, y \in {0, 2} }
==============================================================================
