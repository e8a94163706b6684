------------------------------- MODULE Arranging -------------------------------
(***************************************************************************)
(* How tiled containers share the room of a workspace (tree/arrange.c,     *)
(* workspace_add_gaps) and how the command resize divides it again         *)
(* (commands/resize.c), for both axes alike. Floating has the others.      *)
(*                                                                         *)
(* A child has a fraction of its row, 0 when it is new.  The code keeps    *)
(* fractions as doubles that sum to 1; only their ratios matter, so here   *)
(* they are integers and their sums stand for the 1: the arithmetic is     *)
(* exact.  The tree has a fixed shape; its views come and go, and a split  *)
(* without views is gone.  The scrollable layout is in ScrollLayout, moves *)
(* and splits are in TreeCommands; edges that are dragged resize alike.    *)
(***************************************************************************)
EXTENDS Integers, Sequences, SequencesExt, Folds

CONSTANTS
  Views,       \* tiled views
  Splits,      \* splits, from the top down; the first is the workspace
  Kids,        \* Kids[s]: the children a split may have, in order
  Layouts,     \* the layouts that commands choose
  Areas,       \* the usable areas the output may have: [h, v]
  Gaps,        \* the values of gaps_inner
  Outer,       \* gaps_outer, the same at the four sides
  MinSane,     \* MIN_SANE_W, MIN_SANE_H
  Tiny,        \* a window smaller than this is given no room
  Titlebar,    \* container_titlebar_height
  Amounts,     \* the amounts of resize grow and shrink, px
  Percents,    \* the same, ppt
  Sizes,       \* what resize set asks for; 0 leaves an axis as it is
  MaxSteps     \* bound: how many commands and events there are

Axes == {"h", "v"}
Cross(axis) == IF axis = "h" THEN "v" ELSE "h"
Workspace == Splits[1]
SplitSet == Range(Splits)
Containers == Views \cup (SplitSet \ {Workspace})

ASSUME ArrangingConstants ==
  /\ \A s \in SplitSet : Kids[s] \in Seq(Containers)
  /\ \A c \in Containers : \E s \in SplitSet : c \in Range(Kids[s])
  /\ Areas \subseteq [Axes -> Nat] /\ Gaps \subseteq Nat /\ Outer \in Nat
  /\ MinSane \in [Axes -> Nat]

VARIABLES
  tiles,    \* the tiling of the workspace, a record: see ArrangingInit
  did,      \* history: the last command
  steps     \* history: how many steps were taken

arVars == <<tiles, did, steps>>

ParentOf == [c \in Containers |-> CHOOSE s \in SplitSet : c \in Range(Kids[s])]
Parent(c) == ParentOf[c]

\* A container and its ancestors below the workspace, innermost first.
ChainOf ==
  [c \in Containers |->
     LET up[i \in Nat] == IF i = 0 THEN c ELSE Parent(up[i - 1])
         top == CHOOSE i \in 0..Len(Splits) : Parent(up[i]) = Workspace
     IN [i \in 1..(top + 1) |-> up[i - 1]]]
Chain(c) == ChainOf[c]
Inside == [c \in Containers |-> {v \in Views : c \in Range(Chain(v))}]

Alive(t, c) == t.here \cap Inside[c] # {}
Children(t, s) == SelectSeq(Kids[s], LAMBDA c : Alive(t, c))
Siblings(t, c) == Children(t, Parent(c))
IndexOf(row, c) == CHOOSE i \in DOMAIN row : row[i] = c
RowSum(row, n(_)) == FoldLeft(LAMBDA sum, c : sum + n(c), 0, row)

Floor0(n) == IF n < 0 THEN 0 ELSE n
AtMost(a, b) == IF a > b THEN b ELSE a

------------------------------------------------------------------------------
(***************************************************************************)
(* Arranging.                                                              *)
(***************************************************************************)
Splitting(layout) == IF layout = "vert" THEN "v" ELSE "h"

\* A new child takes the average of the others.
Shares(t, row, axis) ==
  LET settled == SelectSeq(row, LAMBDA c : t.weight[c][axis] > 0)
      old == RowSum(settled, LAMBDA c : t.weight[c][axis])
  IN [c \in Range(row) |->
        IF settled = <<>> THEN 1
        ELSE IF t.weight[c][axis] > 0 THEN t.weight[c][axis] * Len(settled)
        ELSE old]

\* Descendants of tabbed containers don't have gaps.
GapIn(t, s) ==
  LET above == IF s = Workspace THEN {s} ELSE Range(Chain(s)) \cup {Workspace}
  IN IF \E a \in above : t.layout[a] \in {"tabbed", "stacked"} THEN 0 ELSE t.gap

Rounded(n, d) == (2 * n + d) \div (2 * d)

SlipExtent(share, rest, last) == share
\* "Make last child use remaining width of parent".
Extent(share, rest, last) == IF last THEN rest ELSE share

\* apply_horiz_layout, apply_vert_layout: the children stand side by side and
\* the last one takes what is left; one that would be tiny gets nothing.
SideBySide(t, s, row, axis) ==
  LET b == t.box[s]
      n == Len(row)
      share == Shares(t, row, axis)
      whole == RowSum(row, LAMBDA c : share[c])
      gaps == AtMost(GapIn(t, s) * (n - 1), Floor0(b.size[axis] - MinSane[axis] * n))
      room == b.size[axis] - gaps
      between == IF n = 1 THEN 0 ELSE gaps \div (n - 1)
      place(acc, c) ==
        LET size == Extent(Rounded(share[c] * room, whole),
                           b.pos[axis] + b.size[axis] - acc.x, c = Last(row))
            tiny == size < Tiny \/ b.size[Cross(axis)] < Tiny
            given == IF tiny THEN [a \in Axes |-> 0]
                     ELSE [b.size EXCEPT ![axis] = size]
        IN [x |-> acc.x + given[axis] + between,
            box |-> [acc.box EXCEPT ![c] = [pos |-> [b.pos EXCEPT ![axis] = acc.x],
                                            size |-> given]]]
  IN [t EXCEPT !.box = FoldLeft(place, [x |-> b.pos[axis], box |-> t.box], row).box,
               !.weight = [c \in Containers |-> IF c \in Range(row)
                             THEN [@[c] EXCEPT ![axis] = share[c]] ELSE @[c]],
               !.total = [c \in Containers |-> IF c \in Range(row)
                            THEN [@[c] EXCEPT ![axis] = room] ELSE @[c]]]

\* apply_tabbed_layout, apply_stacked_layout
OneOverAnother(t, s, row) ==
  LET b == t.box[s]
      offset(c) == IF c \in Views THEN 0
                   ELSE IF t.layout[s] = "stacked" THEN Titlebar * Len(row) ELSE Titlebar
  IN [t EXCEPT !.box = [c \in DOMAIN @ |->
        IF c \in Range(row)
        THEN [pos |-> [b.pos EXCEPT !["v"] = @ + offset(c)],
              size |-> [b.size EXCEPT !["v"] = @ - offset(c)]]
        ELSE @[c]]]

ArrangeChildren(t, s) ==
  LET row == Children(t, s)
  IN IF row = <<>> THEN t
     ELSE IF t.layout[s] \in {"tabbed", "stacked"} THEN OneOverAnother(t, s, row)
     ELSE SideBySide(t, s, row, Splitting(t.layout[s]))

Beneath ==
  [s \in SplitSet \ {Workspace} |->
     SelectSeq(Tail(Splits), LAMBDA x : s \in Range(Chain(x)))]
\* A split and the splits in it, from the top down.
ArrangeContainer(t, s) ==
  FoldLeft(ArrangeChildren, t, IF s = Workspace THEN Splits ELSE Beneath[s])

\* workspace_add_gaps: the gaps at both ends of an axis, clamped when they
\* make the area too small.
AddGaps(area, gap, axis) ==
  LET side == Outer + gap
      left == Floor0(area[axis] - MinSane[axis])
  IN IF area[axis] - 2 * side < MinSane[axis] /\ side > 0
     THEN [before |-> left \div 2, after |-> left - left \div 2]
     ELSE [before |-> side, after |-> side]

ArrangeWorkspace(t) ==
  LET gaps == [a \in Axes |-> AddGaps(t.area, t.gap, a)]
      b == [pos |-> [a \in Axes |-> gaps[a].before],
            size |-> [a \in Axes |-> t.area[a] - gaps[a].before - gaps[a].after]]
  IN ArrangeContainer([t EXCEPT !.box[Workspace] = b], Workspace)

ArrangingInit ==
  /\ \E area \in Areas, gap \in Gaps, l \in [SplitSet -> Layouts] :
       tiles = ArrangeWorkspace(
         [here |-> Views, layout |-> l, area |-> area, gap |-> gap,
          weight |-> [c \in Containers |-> [a \in Axes |-> 0]],
          total |-> [c \in Containers |-> [a \in Axes |-> 0]],
          box |-> [c \in Containers \cup {Workspace} |->
                     [pos |-> [a \in Axes |-> 0], size |-> [a \in Axes |-> 0]]]])
  /\ did = [kind |-> "none"]
  /\ steps = 0

------------------------------------------------------------------------------
(***************************************************************************)
(* Resizing a tiled container.  end is the edge that moves, "after" (right *)
(* or bottom) or "before" (left or top), or "both".                        *)
(***************************************************************************)
Resizable(t, c, axis, end) ==
  LET row == Siblings(t, c)
      i == IndexOf(row, c)
  IN /\ t.layout[Parent(c)] = (IF axis = "h" THEN "horiz" ELSE "vert")
     /\ Len(row) > 1
     /\ end = "before" => i > 1
     /\ end = "after" => i < Len(row)

\* container_find_resize_parent
ResizeParents(t, c, axis, end) ==
  SelectSeq(Chain(c), LAMBDA x : Resizable(t, x, axis, end))

\* The container that grows, by how much, and the neighbours that give.
Moving(row, i, end, amount) ==
  IF end = "both" /\ 1 < i /\ i < Len(row)
  THEN [con |-> row[i], amount |-> amount, next |-> {row[i - 1], row[i + 1]}]
  ELSE IF end = "before" \/ (end = "both" /\ i = Len(row))
  THEN [con |-> row[i - 1], amount |-> -amount, next |-> {row[i]}]
  ELSE [con |-> row[i], amount |-> amount, next |-> {row[i + 1]}]

HalfUp(n) == -((-n) \div 2)   \* ceil(n / 2.0)

SlipSnapped(t, row, axis, m) ==
  LET each == IF \E c, d \in m.next : c # d THEN 1 ELSE 2
  IN [c \in Range(row) |->
        IF c = m.con THEN t.weight[c][axis] * 2 + 2 * m.amount
        ELSE IF c \in m.next THEN t.weight[c][axis] * 2 - each * m.amount
        ELSE 2 * t.weight[c][axis]]
\* The fractions, snapped to full pixels, counted in half pixels.
Snapped(t, row, axis, m) ==
  LET pixels(c) == t.box[c].size[axis]
      each == IF \E c, d \in m.next : c # d THEN 1 ELSE 2
  IN [c \in Range(row) |->
        IF c = m.con THEN 2 * pixels(c) + 2 * m.amount
        ELSE IF c \in m.next THEN 2 * pixels(c) - each * m.amount
        ELSE 2 * pixels(c)]

Fits(t, axis, m) ==
  LET give == IF \E c, d \in m.next : c # d THEN HalfUp(m.amount) ELSE m.amount
  IN /\ t.box[m.con].size[axis] + m.amount >= MinSane[axis]
     /\ \A c \in m.next : t.box[c].size[axis] - give >= MinSane[axis]
     /\ t.total[m.con][axis] > 0

\* container_resize_tiled
ResizeTiled(t, c, axis, end, amount) ==
  LET found == ResizeParents(t, c, axis, end)
  IN IF found = <<>> THEN t
     ELSE LET con == Head(found)
              row == Siblings(t, con)
              m == Moving(row, IndexOf(row, con), end, amount)
              snapped == Snapped(t, row, axis, m)
              u == [t EXCEPT !.weight = [x \in Containers |->
                      IF x \in Range(row) THEN [@[x] EXCEPT ![axis] = snapped[x]] ELSE @[x]]]
          IN IF ~Fits(t, axis, m) THEN t
             ELSE IF Parent(con) = Workspace THEN ArrangeWorkspace(u)
             ELSE ArrangeContainer(u, Parent(con))

Percent(n, of) == IF n < 0 THEN -((-n * of) \div 100) ELSE (n * of) \div 100

\* The room a percentage is of: the nearest split along the axis, or the
\* workspace.
RoomFor(t, c, axis) ==
  LET along == SelectSeq(Tail(Chain(c)), LAMBDA s :
                 t.layout[s] = (IF axis = "h" THEN "horiz" ELSE "vert"))
  IN t.box[IF along = <<>> THEN Workspace ELSE Head(along)].size[axis]

ResizeAdjustTiled(c, axis, end, n, unit) ==
  /\ c \in Containers /\ Alive(tiles, c)
  /\ tiles' = ResizeTiled(tiles, c, axis, end,
                IF unit = "ppt" THEN Percent(n, RoomFor(tiles, c, axis)) ELSE n)

\* Width, then height; a command that leaves an axis out asks for the size
\* that it has.
ResizeSetTiled(c, want) ==
  /\ c \in Containers /\ Alive(tiles, c)
  /\ LET amount(t, axis) == IF want[axis] = 0 THEN tiles.box[c].size[axis] - t.box[c].size[axis]
                            ELSE want[axis] - t.box[c].size[axis]
         asked(axis) == want[axis] # 0 \/ tiles.box[c].size[axis] # 0
         wide == IF asked("h") THEN ResizeTiled(tiles, c, "h", "both", amount(tiles, "h")) ELSE tiles
     IN tiles' = IF asked("v") THEN ResizeTiled(wide, c, "v", "both", amount(wide, "v")) ELSE wide

------------------------------------------------------------------------------
(***************************************************************************)
(* What else has the workspace arranged.                                   *)
(***************************************************************************)
Open(v) ==
  /\ v \in Views \ tiles.here
  /\ Children(tiles, Parent(v)) # <<>>
  /\ tiles' = ArrangeWorkspace([tiles EXCEPT !.here = @ \cup {v},
                                             !.weight[v] = [a \in Axes |-> 0]])

Close(v) ==
  /\ v \in tiles.here /\ tiles.here # {v}
  /\ tiles' = ArrangeWorkspace([tiles EXCEPT !.here = @ \ {v}])

CmdLayout(s, l) ==
  /\ Children(tiles, s) # <<>>
  /\ tiles.layout[s] # l
  /\ tiles' = ArrangeWorkspace([tiles EXCEPT !.layout[s] = l])

ArrangeOutput(area) ==
  /\ area # tiles.area
  /\ tiles' = ArrangeWorkspace([tiles EXCEPT !.area = area])

CmdGaps(gap) ==
  /\ gap # tiles.gap
  /\ tiles' = ArrangeWorkspace([tiles EXCEPT !.gap = gap])

Ends == {"before", "after", "both"}
Signed == Amounts \cup {-n : n \in Amounts}

Rearrange ==
  \/ \E v \in Views : Open(v) \/ Close(v)
  \/ \E s \in SplitSet, l \in Layouts : CmdLayout(s, l)
  \/ \E area \in Areas : ArrangeOutput(area)
  \/ \E gap \in Gaps : CmdGaps(gap)

CmdResize ==
  \/ \E c \in Containers, axis \in Axes, end \in Ends :
       /\ did' = [kind |-> "adjust", con |-> c, axis |-> axis, end |-> end]
       /\ \/ \E n \in Signed : ResizeAdjustTiled(c, axis, end, n, "px")
          \/ \E n \in Percents : ResizeAdjustTiled(c, axis, end, n, "ppt")
  \/ \E c \in Containers, want \in [Axes -> Sizes] :
       did' = [kind |-> "set", con |-> c, want |-> want] /\ ResizeSetTiled(c, want)

ArrangingNext ==
  /\ steps < MaxSteps /\ steps' = steps + 1
  /\ \/ Rearrange /\ did' = [kind |-> "none"]
     \/ CmdResize

ArrangingSpec == ArrangingInit /\ [][ArrangingNext]_arVars

------------------------------------------------------------------------------
End(t, c, axis) == t.box[c].pos[axis] + t.box[c].size[axis]
Shown(t, c) == \A a \in Axes : t.box[c].size[a] > 0
Rows(t) == {s \in SplitSet : Children(t, s) # <<>> /\ t.layout[s] \in {"horiz", "vert"}}

\* The children of a split never overlap and never leave it; when all of them
\* are shown they fill it to the last pixel, with no less than the gap asked
\* for between two unless room is short (apply_horiz_layout,
\* apply_vert_layout, workspace_add_gaps).
TilesParent ==
  \A s \in Rows(tiles) :
    LET row == Children(tiles, s)
        axis == Splitting(tiles.layout[s])
    IN /\ \A i \in DOMAIN row : Shown(tiles, row[i]) =>
            /\ tiles.box[row[i]].pos[axis] >= tiles.box[s].pos[axis]
            /\ End(tiles, row[i], axis) <= End(tiles, s, axis)
       /\ \A i, j \in DOMAIN row : i < j =>
            End(tiles, row[i], axis) <= tiles.box[row[j]].pos[axis]
       /\ (\A i \in DOMAIN row : Shown(tiles, row[i])) =>
            /\ End(tiles, Last(row), axis) = End(tiles, s, axis)
            /\ \A i \in 1..(Len(row) - 1) :
                 LET gap == tiles.box[row[i + 1]].pos[axis] - End(tiles, row[i], axis)
                 IN gap <= GapIn(tiles, s)

\* Resizing by an edge moves that edge and no other: the container and the
\* neighbour behind the edge share their room anew, neither gets below the
\* least size, and all other windows of the row stay (container_resize_tiled).
EdgeMoves ==
  [][(did'.kind = "adjust" /\ did'.end # "both") =>
       LET axis == did'.axis
           found == ResizeParents(tiles, did'.con, axis, did'.end)
           row == Siblings(tiles, Head(found))
           i == IndexOf(row, Head(found))
           pair == {i, IF did'.end = "after" THEN i + 1 ELSE i - 1}
       IN found # <<>> /\ (\A k \in DOMAIN row : Shown(tiles, row[k])) =>
            /\ \A k \in DOMAIN row \ pair : tiles'.box[row[k]] = tiles.box[row[k]]
            /\ tiles' # tiles => \A k \in pair : tiles'.box[row[k]].size[axis] >= MinSane[axis]]_arVars

\* resize set gives a window exactly the size asked for, through whatever
\* splits it takes, or leaves the size as it was (resize_set_tiled).
SetReaches ==
  [][did'.kind = "set" =>
       \A axis \in Axes :
         did'.want[axis] # 0 /\ Shown(tiles, did'.con) /\ Shown(tiles', did'.con) =>
           tiles'.box[did'.con].size[axis] \in {did'.want[axis], tiles.box[did'.con].size[axis]}]_arVars

\* Both ways to resize a tiled window do what they say, no more and no less.
ResizesExactly == EdgeMoves /\ SetReaches
=============================================================================
