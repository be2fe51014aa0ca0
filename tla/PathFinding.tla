---------------------------- MODULE PathFinding -----------------------------
(***************************************************************************)
(* The search for a path (pathfinding.c), one action for each node taken    *)
(* from the open set.  Nodes are kept in an array of `depth` entries; a     *)
(* second array of that length holds the open set from its front and the    *)
(* closed set from its back.  When the nodes run out the search goes on     *)
(* with the ones it has.                                                    *)
(*                                                                         *)
(* A world says how large the map is, which cells have a weight (a wall or   *)
(* somebody standing there), from where to where one walks, with how wide a  *)
(* body, and how many nodes there are.  A cell is a pair of coordinates.    *)
(***************************************************************************)
EXTENDS Integers, Sequences, SequencesExt

CONSTANT Worlds

ASSUME WorldAssumption ==
  \A w \in Worlds : w.depth > 0 /\ w.bsize >= 0 /\ w.width > 0 /\ w.height > 0

VARIABLES world,
          nodes,        \* P->n: cell, camefrom, gscore, fscore
          open, closed, \* the two sets, as the indices of nodes
          full,         \* add_open has found no node left
          found,        \* the node returned, 0 while searching
          best          \* reference: the least cost of every cell, -1 if none

pathVars == <<world, nodes, open, closed, full, found, best>>

Off == <<<<-1, 0>>, <<0, 1>>, <<1, 0>>, <<0, -1>>, <<1, 1>>, <<-1, 1>>, <<-1, -1>>, <<1, -1>>>>
StepLength(i) == IF i <= 4 THEN 5 ELSE 7
By(c, i) == <<c[1] + Off[i][1], c[2] + Off[i][2]>>

Inside(w, c) == c[1] \in 0 .. w.width - 1 /\ c[2] \in 0 .. w.height - 1
Weighs(w, c) == ~Inside(w, c) \/ c \in w.blocked

Distance(c, d) ==
  LET abs(n) == IF n < 0 THEN -n ELSE n
      dx == abs(c[1] - d[1])
      dy == abs(c[2] - d[2])
  IN IF dx < dy THEN dx * 7 + (dy - dx) * 5 ELSE dy * 7 + (dx - dy) * 5

(* Fault: only the middle of the body is looked at.                         *)
FitsMiddle(w, c) == ~Weighs(w, c) \/ c = w.goal

(* The body fits: nothing under it has a weight, but for the goal itself.   *)
Fits(w, c) ==
  \A p, q \in -w.bsize .. w.bsize :
    LET e == <<c[1] + p, c[2] + q>> IN ~Weighs(w, e) \/ e = w.goal

Node(w, c, from, g) == [cell |-> c, camefrom |-> from, gscore |-> g, fscore |-> g + Distance(c, w.goal)]
-----------------------------------------------------------------------------
(* The reference: costs improved along every step until none improves.      *)
CellsOf(w) == (0 .. w.width - 1) \X (0 .. w.height - 1)
MayStand(w, c) ==
  \A e \in (c[1] - w.bsize .. c[1] + w.bsize) \X (c[2] - w.bsize .. c[2] + w.bsize) :
    e = w.goal \/ (e \in CellsOf(w) /\ e \notin w.blocked)

RECURSIVE Improve(_, _)
Improve(w, cost) ==
  LET via(c) == {cost[By(c, i)] + 2 * StepLength(i) :
                   i \in {j \in 1 .. 8 : By(c, j) \in CellsOf(w) /\ cost[By(c, j)] >= 0}}
      next == [c \in CellsOf(w) |->
                 LET all == (IF MayStand(w, c) THEN via(c) ELSE {})
                              \cup (IF cost[c] >= 0 THEN {cost[c]} ELSE {})
                 IN IF all = {} THEN -1 ELSE CHOOSE m \in all : \A n \in all : m <= n]
  IN IF next = cost THEN cost ELSE Improve(w, next)

(* path_finding begins: the start is the only node.                         *)
PathInit ==
  /\ world \in Worlds
  /\ nodes = <<Node(world, world.start, 0, 0)>>
  /\ open = <<1>> /\ closed = <<>> /\ full = FALSE /\ found = 0
  /\ best = Improve(world, [c \in CellsOf(world) |-> IF c = world.start THEN 0 ELSE -1])
-----------------------------------------------------------------------------
(* lowest_fscore: the first of the least ones; the last takes its place.     *)
LowestAt ==
  CHOOSE i \in DOMAIN open :
    \A j \in DOMAIN open : \/ nodes[open[i]].fscore < nodes[open[j]].fscore
                           \/ nodes[open[i]].fscore = nodes[open[j]].fscore /\ i <= j
WithoutLowest ==
  LET last == Len(open) IN [i \in 1 .. last - 1 |-> IF i = LowestAt THEN open[last] ELSE open[i]]

HasRoom(s) == Len(s.nodes) < world.depth

(* One neighbour: better than known, new, or nothing; without a node left    *)
(* the other neighbours are not looked at either.                           *)
Neighbour(cur, s, i) ==
  LET c == By(nodes[cur].cell, i)
      g == nodes[cur].gscore + 2 * StepLength(i)
      shut == \E k \in Range(closed) \cup {cur} : nodes[k].cell = c
      known == {k \in Range(s.open) : s.nodes[k].cell = c}
  IN IF s.full \/ shut \/ ~Fits(world, c) THEN s
     ELSE IF known # {}
     THEN LET k == CHOOSE k \in known : TRUE
          IN IF g < s.nodes[k].gscore THEN [s EXCEPT !.nodes[k] = Node(world, c, cur, g)] ELSE s
     ELSE IF HasRoom(s)
     THEN [s EXCEPT !.nodes = Append(@, Node(world, c, cur, g)), !.open = Append(@, Len(s.nodes) + 1)]
     ELSE [s EXCEPT !.full = TRUE]

Search ==
  LET cur == open[LowestAt] IN
  /\ found = 0 /\ open # <<>>
  /\ IF nodes[cur].cell = world.goal
     THEN found' = cur /\ open' = WithoutLowest /\ UNCHANGED <<nodes, closed, full>>
     ELSE LET look(s, i) == Neighbour(cur, s, i)
              s == FoldLeft(look, [nodes |-> nodes, open |-> WithoutLowest, full |-> FALSE],
                            [i \in 1 .. 8 |-> i]) IN
          /\ nodes' = s.nodes /\ open' = s.open /\ closed' = Append(closed, cur)
          /\ full' = (full \/ s.full)
          /\ UNCHANGED found
  /\ UNCHANGED <<world, best>>

(* nearest: the least fscore of the closed nodes, the last one first.        *)
GiveUp ==
  /\ found = 0 /\ open = <<>>
  /\ found' = CHOOSE k \in Range(closed) :
                \A j \in Range(closed) : nodes[k].fscore <= nodes[j].fscore
  /\ UNCHANGED <<world, nodes, open, closed, full, best>>

PathNext == Search \/ GiveUp

PathSpec == PathInit /\ [][PathNext]_pathVars
-----------------------------------------------------------------------------
(* A closed node is never looked at again, so its cost must be the least     *)
(* there is when it is closed, which the estimate must allow.               *)
ClosedBest ==
  ~full => \A i \in DOMAIN closed : nodes[closed[i]].gscore = best[nodes[closed[i]].cell]

(* The open and the closed set never meet in their array, and no cell has    *)
(* two nodes, also when the nodes run out.                                  *)
SetsApart ==
  /\ Len(open) + Len(closed) <= world.depth
  /\ \A i, j \in DOMAIN nodes : nodes[i].cell = nodes[j].cell => i = j

(* lpath walks back over camefrom: the path is a walk of steps to a          *)
(* neighbour where the body fits, each cheaper than the next, from the       *)
(* start; it reaches the goal at the least cost if there is a way and the    *)
(* nodes suffice, and else it is the start alone.  On the way there the two  *)
(* sets are sound (ClosedBest, SetsApart).                                  *)
PathRight ==
  /\ ClosedBest /\ SetsApart
  /\ found # 0 =>
       /\ \A k \in DOMAIN nodes :
            IF nodes[k].camefrom = 0 THEN nodes[k].cell = world.start
            ELSE /\ MayStand(world, nodes[k].cell)
                 /\ \E i \in 1 .. 8 :
                      /\ nodes[k].cell = By(nodes[nodes[k].camefrom].cell, i)
                      /\ nodes[k].gscore >= nodes[nodes[k].camefrom].gscore + 2 * StepLength(i)
       /\ nodes[found].cell \in {world.start, world.goal}
       /\ ~full => /\ (nodes[found].cell = world.goal) = (best[world.goal] >= 0)
                   /\ nodes[found].gscore = best[nodes[found].cell]
=============================================================================
