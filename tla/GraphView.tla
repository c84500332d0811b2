------------------------------ MODULE GraphView -----------------------------
(***************************************************************************)
(* GraphPage: the resources in a box for each group of services, and the   *)
(* resources that depend on the selected one, found by a search along the  *)
(* references.                                                             *)
(***************************************************************************)
EXTENDS Integers, Sequences, SequencesExt

CONSTANTS MaxGroup, None  \* bound: resources in a group

VARIABLES
  graph,  \* edges: pairs from, to; sizes: of the groups, largest first
  selectedNode,
  blastRadius,
  asked   \* the request for the graph has not been answered

view == <<graph, selectedNode, blastRadius, asked>>

\* Three groups; the references are among the first resources of each.
Groups == 1..3
Node == [group : Groups, no : 1..MaxGroup]
Lead(g) == [group |-> g, no |-> 1]
NodesOf(sizes) == {n \in Node : n.group \in DOMAIN sizes /\ n.no <= sizes[n.group]}
Sizes == {s \in UNION {[1..k -> 1..MaxGroup] : k \in 0..3} : \A i, j \in DOMAIN s : i < j => s[i] >= s[j]}
Edges(sizes) == {Lead(g) : g \in DOMAIN sizes} \X {Lead(g) : g \in DOMAIN sizes}

TypeOK ==
  /\ graph.sizes \in Sizes /\ graph.edges \subseteq Edges(graph.sizes)
  /\ selectedNode \in NodesOf(graph.sizes) \cup {None}
  /\ blastRadius \subseteq NodesOf(graph.sizes) /\ asked \in BOOLEAN

Init ==
  /\ graph = [sizes |-> << >>, edges |-> {}]
  /\ selectedNode = None /\ blastRadius = {} /\ asked = TRUE

-----------------------------------------------------------------------------
(* The layout                                                              *)

GroupPadding == 24
GroupHeader == 32
SpacingX == 100
SpacingY == 80
GroupGap == 40
PerRow == 3
MaxRowWidth == 1200
NodeRadius == 26

Larger(a, b) == IF a > b THEN a ELSE b
Width(n) == (IF n < PerRow THEN n ELSE PerRow) * SpacingX + 2 * GroupPadding
Height(n) == ((n + PerRow - 1) \div PerRow) * SpacingY + GroupHeader + 2 * GroupPadding

\* A group of n resources comes to the right of the last, or starts a row.
Place(cursor, n) ==
  LET wraps == cursor.right + Width(n) + GroupGap > MaxRowWidth /\ cursor.right > GroupGap + 1
      left  == IF wraps THEN GroupGap ELSE cursor.right
  IN [left |-> left, right |-> left + Width(n) + GroupGap,
      y    |-> IF wraps THEN cursor.y + cursor.high + GroupGap ELSE cursor.y,
      high |-> IF wraps THEN Height(n) ELSE Larger(cursor.high, Height(n))]

Corner == [left |-> GroupGap, right |-> GroupGap, y |-> GroupGap, high |-> 0]

\* The cursor after each group.
Cursors(sizes) ==
  LET cursor[i \in 0 .. Len(sizes)] ==
        IF i = 0 THEN Corner ELSE Place(cursor[i - 1], sizes[i])
  IN cursor

Layout(sizes) ==
  LET cursor == Cursors(sizes)
      end    == cursor[Len(sizes)]
  IN [boxes  |-> [i \in DOMAIN sizes |->
                    [x |-> cursor[i].left, y |-> cursor[i].y,
                     width |-> Width(sizes[i]), height |-> Height(sizes[i])]],
      width  |-> Larger(MaxRowWidth, end.right + GroupGap),
      height |-> end.y + end.high + GroupGap]

\* nodePositions
Position(layout, n) ==
  LET box == layout.boxes[n.group]
  IN [x |-> box.x + GroupPadding + ((n.no - 1) % PerRow) * SpacingX + SpacingX \div 2,
      y |-> box.y + GroupHeader + GroupPadding + ((n.no - 1) \div PerRow) * SpacingY + SpacingY \div 2]

-----------------------------------------------------------------------------
(* The dependents of a resource                                            *)

\* A call of findDependents: what is affected so far, the resource whose
\* dependents are looked for, and how many references it has seen.
Calls(edges) == [affected : SUBSET Node, id : Node, seen : 0 .. Len(edges)]

\* What is affected afterwards: a resource that is already is not searched again.
FindDependents(edges) ==
  LET find[call \in Calls(edges)] ==
        IF call.seen = 0 THEN call.affected
        ELSE LET before == find[[call EXCEPT !.seen = @ - 1]]
                 from   == edges[call.seen][1]
             IN IF edges[call.seen][2] = call.id /\ from \notin before
                THEN find[[affected |-> before \cup {from}, id |-> from, seen |-> Len(edges)]]
                ELSE before
  IN find

\* Seeded: the search ends at the resources that refer to the selected one.
DirectDependents(edges, id) == {e[1] : e \in {f \in edges : f[2] = id}}

GetBlastRadius(edges, id) ==
  LET list == SetToSeq(edges)
  IN FindDependents(list)[[affected |-> {}, id |-> id, seen |-> Len(list)]]

-----------------------------------------------------------------------------
(* The page                                                                *)

OnGraph ==
  /\ asked
  /\ \E sizes \in Sizes : \E edges \in SUBSET {e \in Edges(sizes) : e[1] # e[2]} :
       graph' = [sizes |-> sizes, edges |-> edges]
  /\ asked' = FALSE
  /\ UNCHANGED <<selectedNode, blastRadius>>

HandleNodeClick(n) ==
  /\ selectedNode' = n
  /\ blastRadius' = GetBlastRadius(graph.edges, n)
  /\ UNCHANGED <<graph, asked>>

CloseDetail ==
  /\ selectedNode # None
  /\ selectedNode' = None /\ blastRadius' = {}
  /\ UNCHANGED <<graph, asked>>

Next == OnGraph \/ (\E n \in NodesOf(graph.sizes) : HandleNodeClick(n)) \/ CloseDetail

-----------------------------------------------------------------------------
(* Properties                                                              *)

Closed(set, id) == \A e \in graph.edges : e[2] = id \/ e[2] \in set => e[1] \in set

\* The blast radius is the least set that holds what refers to the selected
\* resource and what refers to a resource in it, in whatever order the
\* references are listed and with cycles among them (GraphPage.js:133-151).
BlastRadiusIsClosed ==
  IF selectedNode = None THEN blastRadius = {}
  ELSE /\ Closed(blastRadius, selectedNode)
       /\ \A set \in SUBSET {Lead(g) : g \in Groups} :
            Closed(set, selectedNode) => blastRadius \subseteq set

Apart(a, b) == \/ a.x + a.width < b.x \/ b.x + b.width < a.x
               \/ a.y + a.height < b.y \/ b.y + b.height < a.y

\* The boxes do not overlap, they lie in the picture, and each resource lies
\* in its box below the header (GraphPage.js:68-131).
BoxesAreApart ==
  LET layout == Layout(graph.sizes) IN
  /\ \A i, j \in DOMAIN graph.sizes : i # j => Apart(layout.boxes[i], layout.boxes[j])
  /\ \A i \in DOMAIN graph.sizes :
       /\ layout.boxes[i].x + layout.boxes[i].width <= layout.width
       /\ layout.boxes[i].y + layout.boxes[i].height <= layout.height
  /\ \A n \in NodesOf(graph.sizes) :
       LET at == Position(layout, n)
           box == layout.boxes[n.group]
       IN /\ box.x <= at.x - NodeRadius /\ at.x + NodeRadius <= box.x + box.width
          /\ box.y + GroupHeader <= at.y - NodeRadius /\ at.y + NodeRadius <= box.y + box.height

=============================================================================
