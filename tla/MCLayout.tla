------------------------------- MODULE MCLayout -------------------------------
(***************************************************************************)
(* The three ways windows get their boxes, in one run: a tiled workspace   *)
(* (Arranging), a floating window (Floating), and the scrollable strip     *)
(* (ScrollLayout).  They share no state; a behaviour is one of the three,  *)
(* chosen at the start, and the variables of the others stay as they are.  *)
(***************************************************************************)
EXTENDS Arranging, Floating, ScrollLayout

CONSTANTS v1, v2, v3, v4, outer, inner, c1, c2, c3

VARIABLE way   \* "tiled", "floating" or "scrollable"

MCKids == [s \in {outer, inner} |-> IF s = outer THEN <<v1, inner, v2>> ELSE <<v3, v4>>]
MCSplits == <<outer, inner>>
MCAreas == {[h |-> 1001, v |-> 400], [h |-> 320, v |-> 35]}
MCMinSane == [h |-> 100, v |-> 60]

Pair(h, v) == [h |-> h, v |-> v]
Box(left, top, h, v) == [pos |-> Pair(left, top), size |-> Pair(h, v)]
MCScreens == {[output |-> Box(0, 0, 400, 300), usable |-> Box(0, 20, 400, 280)],
              [output |-> Box(100, 0, 300, 200), usable |-> Box(100, 0, 300, 200)]}
MCMin == Pair(75, 50)
MCMax == Pair(350, 260)
MCViewMin == Pair(60, 60)
MCViewMax == Pair(310, 1000)
MCNatural == Pair(200, 133)
MCContents == {Pair(201, 120), Pair(330, 40)}
MCCursors == {Pair(0, 0), Pair(-150, 37)}
MCSpots == {Pair(-10, 5)}

LayoutInit ==
  /\ way \in {"tiled", "floating", "scrollable"}
  /\ ArrangingInit
  /\ way # "tiled" => /\ tiles.area = [h |-> 1001, v |-> 400] /\ tiles.gap = 0
                      /\ tiles.layout = [s \in {outer, inner} |-> "horiz"]
  /\ FloatingInit
  /\ way # "floating" => screen = CHOOSE s \in MCScreens : TRUE
  /\ ScrollInit
  /\ way # "scrollable" => strip.box = 4

LayoutNext ==
  \/ way = "tiled" /\ ArrangingNext /\ UNCHANGED <<way, floatVars, scrollVars>>
  \/ way = "floating" /\ FloatingNext /\ UNCHANGED <<way, arVars, scrollVars>>
  \/ way = "scrollable" /\ ScrollNext /\ UNCHANGED <<way, arVars, floatVars>>

LayoutSpec == LayoutInit /\ [][LayoutNext]_<<way, arVars, floatVars, scrollVars>>
=============================================================================
