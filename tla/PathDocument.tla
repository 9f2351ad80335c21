---------------------------- MODULE PathDocument ----------------------------
(***************************************************************************)
(* What becomes of a path document: a client sends it, write_document      *)
(* normalises, checks and stores it, read_document normalises it again and *)
(* the trajectory service expands it to the trajectory of a run; travel    *)
(* between two positions is planned from it (app/trajectory, path_parser). *)
(*                                                                         *)
(* A point of the catalogue is its id; joint values only matter when the   *)
(* robot's position is matched, which gives a list of ids.  The matrix of  *)
(* safe routes is the set of its true cells off the diagonal, which is     *)
(* always true.                                                            *)
(***************************************************************************)
EXTENDS Naturals, SequencesExt, FiniteSets, Turntable

CONSTANTS
    Documents,  \* the documents a client may send
    MaxStarts   \* bound: catalogue points the robot stands at

VARIABLES sent, file, trajectory, travel

vars == <<sent, file, trajectory, travel>>

Types == {"home", "basic_scan", "advanced_scan", "transition", "end"}

\* A node: the angles of a scan begin at start; by is the end of a range or the
\* step; next and prev are 0 where there is no link.
Nodes == [id : Nat \ {0}, type : Types, point : Nat, next : Nat, prev : Nat,
          mode : {"range", "step"}, start : Int, by : Int, count : Nat \ {0}]

\* What a client may send: nobody checks that the ids of the nodes differ.  A matrix
\* that is unmatched has another size than its list of ids.
ASSUME DocumentsAssumption ==
    Documents \subseteq [points : Seq(Nat), nodes : Seq(Nodes), pairs : SUBSET (Nat \X Nat),
                         matrix : {"absent", "empty", "given", "unmatched"}]

-----------------------------------------------------------------------------
(* Normalisation: path_nodes.py, path_normalize.py, position_ids.py. *)

\* The entries of s that are in S, in their order.  (SelectSeq with a set, whose
\* definition the prover can use.)
Those(s, S) ==
    LET kept[k \in 0..Len(s)] ==
            IF k = 0 THEN <<>>
            ELSE IF s[k] \in S THEN Append(kept[k - 1], s[k]) ELSE kept[k - 1]
    IN kept[Len(s)]

IsScan(node) == node.type \in {"basic_scan", "advanced_scan"}
HasLinks(nodes) == \E i \in DOMAIN nodes : nodes[i].next # 0 \/ nodes[i].prev # 0

LinkChain(nodes) ==
    [i \in DOMAIN nodes |-> [nodes[i] EXCEPT !.next = IF i = Len(nodes) THEN 0 ELSE nodes[i + 1].id,
                                            !.prev = IF i = 1 THEN 0 ELSE nodes[i - 1].id]]

\* Mutant: the nodes around a removed transition keep their links.
StripOnly(nodes) == Those(nodes, {n \in ToSet(nodes) : n.type # "transition"})

\* strip_transition_nodes
Strip(nodes) ==
    LET kept == Those(nodes, {n \in ToSet(nodes) : n.type # "transition"})
    IN IF kept # nodes \/ ~HasLinks(kept) THEN LinkChain(kept) ELSE kept

\* Mutant: the nodes of the chain are appended once more with those left out.
OrderedTwice(nodes) ==
    LET homes == {i \in DOMAIN nodes : nodes[i].type = "home"}
    IN IF homes = {} THEN nodes
       ELSE <<nodes[CHOOSE i \in homes : \A j \in homes : i <= j]>> \o nodes

Ids(nodes) == {n.id : n \in ToSet(nodes)}

\* One step of the walk of ordered_nodes: to the node the last one is linked to, of
\* two with one id the last; not if there is none, or the walk has been at its id.
Follow(nodes, walked) ==
    LET next == Those(nodes, {n \in ToSet(nodes) : n.id = Last(walked).next})
    IN IF next = <<>> \/ Last(walked).next \in Ids(walked) THEN walked
       ELSE Append(walked, Last(next))

Walk(nodes, first) ==
    LET chain[k \in 0..Len(nodes)] ==
            IF k = 0 THEN <<first>> ELSE Follow(nodes, chain[k - 1])
    IN chain[Len(nodes)]

\* ordered_nodes: the walk from the first home, then the nodes it leaves out; one
\* whose id it has been at is dropped.
Ordered(nodes) ==
    LET homes == Those(nodes, {n \in ToSet(nodes) : n.type = "home"})
        linked == Walk(nodes, Head(homes))
    IN IF homes = <<>> THEN nodes
       ELSE linked \o Those(nodes, {n \in ToSet(nodes) : n.id \notin Ids(linked)})

Mirror(pairs) == pairs \cup {<<r[2], r[1]>> : r \in pairs}

\* ensure_neighbor_safe_routes
NeighborRoutes(nodes, ids) ==
    Mirror({r \in ids \X ids : /\ r[1] # r[2]
                               /\ \E i \in 1..(Len(nodes) - 1) : nodes[i].point = r[1] /\ nodes[i + 1].point = r[2]})

\* _resolve_id_safe_routes, normalize_id_safe_routes: the cells of known points,
\* made symmetric; without a matrix, or with an unmatched one, two points are safe
\* for each other.
ResolvedRoutes(doc) ==
    LET ids == ToSet(doc.points)
    IN IF doc.matrix \in {"absent", "unmatched"}
       THEN {r \in ids \X ids : r[1] # r[2] /\ Cardinality(ids) <= 2}
       ELSE Mirror({r \in doc.pairs : r[1] \in ids /\ r[2] \in ids /\ r[1] # r[2]})

\* normalize_path_document: a matrix of any size keeps the neighbours' routes out.
Normalize(doc) ==
    LET kept == Strip(doc.nodes)
        nodes == IF HasLinks(kept) THEN Ordered(kept) ELSE LinkChain(Ordered(kept))
        ids == ToSet(doc.points)
    IN [points |-> doc.points, nodes |-> nodes,
        matrix |-> IF doc.points = <<>> THEN "empty" ELSE "given",
        pairs  |-> ResolvedRoutes(doc)
                     \cup IF doc.matrix \in {"given", "unmatched"} THEN {} ELSE NeighborRoutes(Ordered(nodes), ids)]

-----------------------------------------------------------------------------
(* Routing (routing.py) on a normalised document. *)

\* Mutant: the cell of the two points is looked up but not read.
IsKnown(doc, from, to) == from = to \/ {from, to} \subseteq ToSet(doc.points)

HasDirect(doc, from, to) == from = to \/ <<from, to>> \in doc.pairs

\* The queue of find_id_route at first, and after its first path was looked at: all
\* the points it leads to that were not seen are appended, in the catalogue's order.
SearchFrom(starts) ==
    [queue |-> [i \in DOMAIN starts |-> <<starts[i]>>], visited |-> ToSet(starts)]

Fresh(doc, search) ==
    {p \in ToSet(doc.points) \ search.visited : <<Last(Head(search.queue)), p>> \in doc.pairs}

Onward(doc, search) ==
    LET fresh == Those(doc.points, Fresh(doc, search))
    IN [i \in DOMAIN fresh |-> Append(Head(search.queue), fresh[i])]

\* Mutant: depth first.
SearchDeeper(doc, search, goal) ==
    IF search.queue = <<>> \/ Last(Head(search.queue)) = goal THEN search
    ELSE [queue |-> Onward(doc, search) \o Tail(search.queue),
          visited |-> search.visited \cup Fresh(doc, search)]

SearchOn(doc, search, goal) ==
    IF search.queue = <<>> \/ Last(Head(search.queue)) = goal THEN search
    ELSE [queue |-> Tail(search.queue) \o Onward(doc, search),
          visited |-> search.visited \cup Fresh(doc, search)]

\* No path is looked at twice, and each point is appended once.
SearchEnd(doc, starts, goal) ==
    LET search[k \in 0..(Len(starts) + Len(doc.points))] ==
            IF k = 0 THEN SearchFrom(starts) ELSE SearchOn(doc, search[k - 1], goal)
    IN search[Len(starts) + Len(doc.points)]

\* find_id_route: breadth first, from all starts; <<>> when there is no route.
FindRoute(doc, starts, goal) ==
    LET queue == SearchEnd(doc, starts, goal).queue
    IN IF Contains(starts, goal) THEN <<goal>>
       ELSE IF queue = <<>> THEN <<>> ELSE Head(queue)

\* expand_turntable_angles(_step) for a scan; any other node has one angle.
NodeAngles(node) ==
    CASE node.type = "advanced_scan" /\ node.mode = "step" -> StepAngles(node.start, node.by, node.count)
      [] node.type = "advanced_scan" /\ node.mode = "range" -> RangeAngles(node.start, node.by, node.count)
      [] OTHER -> <<Clamp(node.start)>>

\* entry_, exit_turntable_angle_from_merged_item: of a range, its ends.
Entry(node) == Clamp(node.start)
Exit(node) ==
    CASE node.type = "advanced_scan" /\ node.mode = "range" -> Clamp(node.by)
      [] node.type = "advanced_scan" /\ node.mode = "step"  -> Clamp(node.start + (node.count - 1) * node.by)
      [] OTHER -> Clamp(node.start)

\* The points between two nodes that have no direct route.
Between(doc, from, to) ==
    IF HasDirect(doc, from.point, to.point) THEN <<>>
    ELSE LET route == FindRoute(doc, <<from.point>>, to.point)
         IN SubSeq(route, 2, Len(route) - 1)

\* build_execution_items_with_transitions refuses a document when a node has no
\* point, or no route leads to it from the one before.
Expandable(doc) ==
    LET nodes == Ordered(doc.nodes)
    IN /\ \A i \in DOMAIN nodes : Contains(doc.points, nodes[i].point)
       /\ \A i \in 2..Len(nodes) :
             \/ HasDirect(doc, nodes[i - 1].point, nodes[i].point)
             \/ FindRoute(doc, <<nodes[i - 1].point>>, nodes[i].point) # <<>>

Transitions(doc, from, to) ==
    LET points == Between(doc, from, to)
        angles == Interpolate(Exit(from), Entry(to), Len(points))
    IN [i \in DOMAIN points |-> [point |-> points[i], node |-> 0, angle |-> angles[i]]]

\* parse_path_document: the items before the node, then its own.
Trajectory(doc) ==
    LET nodes == Ordered(doc.nodes)
        stops(i) == [k \in DOMAIN NodeAngles(nodes[i]) |->
                        [point |-> nodes[i].point, node |-> nodes[i].id, angle |-> NodeAngles(nodes[i])[k]]]
    IN FlattenSeq([i \in DOMAIN nodes |->
           (IF i = 1 THEN <<>> ELSE Transitions(doc, nodes[i - 1], nodes[i])) \o stops(i)])

\* The last node of an id (node_by_id).
Named(nodes, id) == Last(Those(nodes, {n \in ToSet(nodes) : n.id = id}))

\* build_travel_plan_by_id: the angle of a point is the one the last node at it
\* begins with, or the node of the goal's id; on the way it is interpolated.
TravelPlan(doc, route, goal) ==
    LET named == Named(doc.nodes, goal.id)
        at(p) == IF p = named.point THEN <<named>>
                 ELSE Those(doc.nodes, {n \in ToSet(doc.nodes) : n.point = p})
        entry(p) == IF at(p) = <<>> THEN 0 ELSE Entry(Last(at(p)))
        exit(p) == IF at(p) = <<>> THEN 0 ELSE Exit(Last(at(p)))
        onTheWay == Interpolate(exit(Head(route)), entry(goal.point), Len(route) - 2)
    IN [i \in DOMAIN route |->
          [point |-> route[i],
           angle |-> IF i \in 2..(Len(route) - 1) THEN onTheWay[i - 1] ELSE entry(route[i])]]

\* Mutant: a travel on which the robot stands at its goal is always skipped.
HopsWithoutForce(plan, starts, goal) ==
    IF Contains(starts, goal.point) THEN <<>> ELSE Tail(plan)

\* _travel_by_id_route: the start is left out of the moves; a basic scan is driven
\* to even when the robot stands there, for the angle of its table.
Hops(plan, starts, goal) ==
    CASE Contains(starts, goal.point) /\ goal.type = "basic_scan" -> <<Last(plan)>>
      [] Contains(starts, goal.point) /\ goal.type # "basic_scan" -> <<>>
      [] OTHER -> Tail(plan)

-----------------------------------------------------------------------------
(* The document's way: sent, stored, loaded, travelled. *)

NoFile == <<>>
NoTravel == <<>>

Init ==
    /\ sent \in Documents
    /\ file = NoFile
    /\ trajectory = <<>>
    /\ travel = NoTravel

\* _load_from_file: what is read is normalised again; without a trajectory when it
\* cannot be expanded.
Loaded(stored) ==
    LET doc == Normalize(stored) IN IF Expandable(doc) THEN Trajectory(doc) ELSE <<>>

\* save_active_document (PUT /paths/active): the normalised document is stored, loaded
\* and read for the answer; one that cannot be expanded is refused.
Stores(doc) ==
    /\ Expandable(Normalize(doc))
    /\ file' = Normalize(doc)
    /\ trajectory' = Loaded(file')
    /\ UNCHANGED <<sent, travel>>

Save == file = NoFile /\ Stores(sent)

\* The client saves what it was answered.
SaveAgain == file # NoFile /\ Stores(Normalize(file))

\* What a travel is planned on: the document that is read, normalised once more.
Planned == Normalize(Normalize(file))

\* match_current_ids: catalogue points within a degree of the robot, in their order.
Starts ==
    {Those(file.points, at) : at \in {s \in SUBSET ToSet(file.points) : Cardinality(s) \in 1..MaxStarts}}

\* Home and any node but a basic scan are driven to with the table at 0.
TurnsToZero(kind, goal) == kind = "home" \/ (kind = "move" /\ goal.type # "basic_scan")

\* plan_id_route_to_goal and _travel_by_id_route; no route, no travel.  (A route
\* never comes back to a start, so stripping the hops that match the robot's
\* position, as a move does, strips nothing.)
TravelTo(doc, kind, goal) ==
    \E starts \in Starts :
        LET route == FindRoute(doc, starts, goal.point)
            hops == Hops(TravelPlan(doc, route, goal), starts, goal)
        IN travel' = [kind |-> kind, goal |-> goal, starts |-> starts, route |-> route,
                      hops |-> IF route = <<>> THEN <<>>
                               ELSE [i \in DOMAIN hops |->
                                       IF TurnsToZero(kind, goal) THEN [hops[i] EXCEPT !.angle = 0] ELSE hops[i]]]

Scans(nodes) == Those(nodes, {n \in ToSet(nodes) : IsScan(n)})
Homes(nodes) == Those(nodes, {n \in ToSet(nodes) : n.type = "home"})

\* _execute_startup_travel: to the first scan node.
StartupTravel ==
    /\ file # NoFile /\ travel = NoTravel
    /\ LET doc == Planned
           scans == Scans(Ordered(doc.nodes))
       IN scans # <<>> /\ TravelTo(doc, "startup", Head(scans))
    /\ UNCHANGED <<sent, file, trajectory>>

\* _travel_to_home: to the first home node; the table turns to 0.
HomeTravel ==
    /\ file # NoFile /\ travel = NoTravel
    /\ LET doc == Planned
           homes == Homes(doc.nodes)
       IN homes # <<>> /\ TravelTo(doc, "home", Head(homes))
    /\ UNCHANGED <<sent, file, trajectory>>

\* move_to_path_position: to any node of a client's choice; the table turns to 0
\* but at a basic scan.
MoveTo ==
    /\ file # NoFile /\ travel = NoTravel
    /\ LET doc == Planned
       IN \E i \in DOMAIN doc.nodes : TravelTo(doc, "move", doc.nodes[i])
    /\ UNCHANGED <<sent, file, trajectory>>

Next == Save \/ SaveAgain \/ StartupTravel \/ HomeTravel \/ MoveTo

Spec == Init /\ [][Next]_vars

-----------------------------------------------------------------------------
(* Properties. *)

Wanted == Those(sent.nodes, {n \in ToSet(sent.nodes) : n.type # "transition"})

\* Each node has an id of its own.
UniqueIds(nodes) == \A i, j \in DOMAIN nodes : nodes[i].id = nodes[j].id => i = j

\* What a matrix marks; one that is unmatched counts as one of two points at most.
Cells ==
    LET ids == ToSet(sent.points)
    IN IF sent.matrix = "given" THEN Mirror(sent.pairs)
       ELSE {r \in ids \X ids : Cardinality(ids) <= 2}

\* Reference: the points at most k moves away from a set of points.
Onto(cells, from) == {r[2] : r \in {cell \in cells : cell[1] \in from}}
Within(cells, from, k) ==
    LET near[j \in 0..k] == IF j = 0 THEN from ELSE near[j - 1] \cup Onto(cells, near[j - 1])
    IN near[k]

\* Every angle the robot's table is sent to is one of the encoder's: no count is
\* negative or beyond a revolution, whatever the document says.
TypeOK ==
    /\ \A i \in DOMAIN trajectory : trajectory[i].angle \in Angles
    /\ travel # NoTravel => \A i \in DOMAIN travel.hops : travel.hops[i].angle \in Angles

\* A stored document is a fixed point: it reads as it was written, so that what the
\* client is answered, what a restart loads and what a travel is planned on agree.
\* (Of a document with an id twice a node may be dropped; if the last link was its,
\* the others are linked when the file is read.)
ReadsAsWritten ==
    (file # NoFile /\ (UniqueIds(sent.nodes) \/ HasLinks(file.nodes))) => Normalize(file) = file

\* The robot only makes moves the client marked safe, in either direction, between
\* any two points of the trajectory, whatever the ids of the nodes; without a matrix,
\* only the moves between neighbouring nodes (of nodes with ids of their own).
MovesAreSafe ==
    \A i \in 1..(Len(trajectory) - 1) :
        LET p == trajectory[i].point
            q == trajectory[i + 1].point
        IN \/ p = q
           \/ IF sent.matrix \in {"given", "unmatched"} THEN <<p, q>> \in Cells
              ELSE UniqueIds(sent.nodes) => trajectory[i].node # 0 /\ trajectory[i + 1].node # 0

\* Each node of the client's is run once, if each has an id of its own: as often as
\* it has scans, without anything in between.  First those that links lead to from the
\* first home, each right before the one it is linked to, unless that one was run
\* earlier; then the others in the order of the list, by which nodes are linked when
\* they come without links or with transition nodes, which are removed.
EveryNodeInItsPlace ==
    LET of(n) == {i \in DOMAIN trajectory : trajectory[i].node = n.id}
        count(n) == IF n.type = "advanced_scan" THEN n.count ELSE 1
        first(n) == CHOOSE i \in of(n) : \A j \in of(n) : i <= j
        links == IF Wanted = sent.nodes /\ HasLinks(Wanted)
                 THEN {<<n.id, n.next>> : n \in ToSet(Wanted)}
                 ELSE {<<Wanted[i].id, Wanted[i + 1].id>> : i \in 1..(Len(Wanted) - 1)}
        homes == Those(Wanted, {n \in ToSet(Wanted) : n.type = "home"})
        led == IF homes = <<>> THEN {} ELSE Within(links, {Head(homes).id}, Len(Wanted))
    IN (file # NoFile /\ UniqueIds(sent.nodes)) =>
          /\ \A n \in ToSet(Wanted) :
                Cardinality(of(n)) = count(n) /\ \A k \in of(n) : k < first(n) + count(n)
          /\ \A m, n \in ToSet(Wanted) :
                (m.id \in led /\ <<m.id, n.id>> \in links /\ first(m) < first(n)) =>
                    \A k \in (first(m) + count(m))..(first(n) - 1) : trajectory[k].node = 0
          /\ \A i, j \in DOMAIN Wanted :
                (Wanted[j].id \notin led /\ (i < j \/ Wanted[i].id \in led)) => first(Wanted[i]) <= first(Wanted[j])

\* The scans of a full revolution see the object from as many sides as there are
\* scans, evenly: 0 and 360 degrees, which are the same side, are not both taken, and
\* from each side to the next the table turns by the same angle, cut to whole counts.
\* (Nodes with ids of their own.)
RevolutionIsCutEvenly ==
    \A i \in DOMAIN Wanted :
        LET n == Wanted[i]
            seen == {trajectory[k].angle % Rev : k \in {k \in DOMAIN trajectory : trajectory[k].node = n.id}}
        IN (file # NoFile /\ UniqueIds(sent.nodes) /\ n.type = "advanced_scan" /\ n.mode = "range"
             /\ IsFullRevolution(n.start, n.by) /\ n.count <= Rev) =>
              /\ Cardinality(seen) = n.count
              /\ \A a \in seen : \E turn \in {Rev \div n.count, (Rev + n.count - 1) \div n.count} : (a + turn) % Rev \in seen

\* On a transition the table is on its way from where the last scan left it to
\* where the next node begins, never beyond: it turns with the robot, not against
\* it.  (Nodes with ids of their own; a range of one scan is left out: the code plans
\* from its end, where the table never was.)
TableTurnsOnTheWay ==
    LET from(i) == CHOOSE j \in 1..(i - 1) : trajectory[j].node # 0 /\ \A k \in (j + 1)..i : trajectory[k].node = 0
        to(i) == CHOOSE j \in (i + 1)..Len(trajectory) : trajectory[j].node # 0 /\ \A k \in i..(j - 1) : trajectory[k].node = 0
        node(j) == CHOOSE n \in ToSet(Wanted) : n.id = trajectory[j].node
        between(x, a, b) == (a <= x /\ x <= b) \/ (b <= x /\ x <= a)
    IN \A i \in DOMAIN trajectory :
          (/\ UniqueIds(sent.nodes) /\ trajectory[i].node = 0
           /\ ~(/\ node(from(i)).type = "advanced_scan"
                /\ node(from(i)).mode = "range" /\ node(from(i)).count = 1)) =>
              /\ between(trajectory[i].angle, trajectory[i - 1].angle, Entry(node(to(i))))
              /\ between(trajectory[i].angle, trajectory[from(i)].angle, Entry(node(to(i))))

\* A travel is the shortest way of safe moves from where the robot stands, and is
\* refused only when there is none.
TravelIsShortest ==
    travel # NoTravel =>
        LET near(k) == Within(file.pairs, ToSet(travel.starts), k)
        IN IF travel.route = <<>> THEN travel.goal.point \notin near(Len(file.points))
           ELSE /\ travel.goal.point \in near(Len(travel.route) - 1)
                /\ Len(travel.route) > 1 => travel.goal.point \notin near(Len(travel.route) - 2)
                /\ \A i \in DOMAIN travel.hops : Contains(travel.starts, travel.hops[i].point) => i = 1
                /\ \A i \in 1..(Len(travel.route) - 1) : <<travel.route[i], travel.route[i + 1]>> \in file.pairs

\* When the startup travel is done the robot stands where the trajectory has its
\* first scan, and at a basic scan the table has its angle: the run begins there.
\* (Nodes with ids of their own.)
RunBeginsWhereTravelEnds ==
    (UniqueIds(sent.nodes) /\ travel # NoTravel /\ travel.kind = "startup" /\ travel.route # <<>>) =>
        LET scans == Those(trajectory, {t \in ToSet(trajectory) : \E n \in ToSet(Wanted) : n.id = t.node /\ IsScan(n)})
        IN /\ IF travel.hops = <<>> THEN Contains(travel.starts, Head(scans).point)
              ELSE Last(travel.hops).point = Head(scans).point
           /\ travel.goal.type = "basic_scan" =>
                 travel.hops # <<>> /\ Last(travel.hops).angle = Head(scans).angle
=============================================================================
