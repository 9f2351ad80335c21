-------------------------- MODULE MC_PathDocument --------------------------
EXTENDS PathDocument

\* The scans a client may ask for: one angle, full revolutions either way, part of
\* one, and steps that leave it.
Node(id, type, point, mode, start, by, count) ==
    [id |-> id, type |-> type, point |-> point, next |-> 0, prev |-> 0, mode |-> mode,
     start |-> start, by |-> by, count |-> count]

Plain(id, type, point, start) == Node(id, type, point, "range", start, 0, 2)

NodeLists == {
    << >>,
    << Plain(1, "home", 1, 0), Plain(2, "basic_scan", 2, 5), Plain(3, "end", 1, 0) >>,
    << Plain(1, "basic_scan", 2, 15), Plain(2, "home", 1, 0), Node(3, "advanced_scan", 3, "range", 0, 12, 5) >>,
    << Plain(1, "home", 1, 3), Plain(2, "transition", 3, 0), Node(3, "advanced_scan", 2, "range", 12, 0, 3),
       Plain(4, "basic_scan", 4, 7) >>,
    << Plain(1, "home", 1, 0), Node(2, "advanced_scan", 4, "step", 9, -5, 3), Node(3, "advanced_scan", 1, "range", 2, 9, 3),
       Plain(4, "end", 1, 0) >>,
    << Plain(1, "basic_scan", 3, 4), Plain(2, "transition", 1, 0), Plain(3, "home", 2, 6), Plain(4, "end", 4, 0) >>,
    << Plain(1, "home", 2, 0), Node(2, "advanced_scan", 3, "range", 7, 2, 1), Plain(3, "basic_scan", 5, 1) >>,
    \* ids that come twice: a node that is dropped, with the last link, and that is not.
    << Plain(1, "home", 1, 0), Plain(2, "basic_scan", 2, 5), Plain(2, "basic_scan", 3, 1) >>,
    << Plain(1, "home", 1, 0), [Plain(1, "basic_scan", 2, 3) EXCEPT !.next = 3],
       Node(2, "advanced_scan", 3, "range", 0, 12, 3), Plain(2, "basic_scan", 4, 2), Plain(3, "end", 2, 0) >>,
    << Plain(1, "basic_scan", 2, 5), Plain(1, "basic_scan", 3, 1) >> }

\* No links, the links of the list, those that lead back alone, the list backwards, one
\* that closes a circle, one link past others that no link leads to.
Links(nodes) ==
    LET n == Len(nodes)
        backwards == [i \in 1..n |-> IF i = 1 THEN n ELSE IF i = 2 THEN 0 ELSE i - 1]
        with(next) == [i \in 1..n |-> [nodes[i] EXCEPT !.next = next[i]]]
        back == [i \in 1..n |-> [nodes[i] EXCEPT !.prev = IF i = 1 THEN 0 ELSE nodes[i - 1].id]]
    IN {nodes, LinkChain(nodes)} \cup
       IF n < 3 THEN {} ELSE {back, with(backwards), with([i \in 1..n |-> IF i = n THEN 1 ELSE IF i = n - 1 THEN 1 ELSE i + 1]),
                             with([i \in 1..n |-> IF i = 2 THEN n ELSE 0])}

Pairs == {<<i, j>> : i, j \in 1..4}
Upper == {r \in Pairs : r[1] < r[2]}

MCDocuments ==
    LET lists == UNION {Links(nodes) : nodes \in NodeLists}
        doc(nodes, matrix, pairs) == [points |-> <<1, 2, 3, 4>>, nodes |-> nodes, matrix |-> matrix, pairs |-> pairs]
    IN   {doc(nodes, "given", pairs) : nodes \in lists, pairs \in SUBSET Upper}
    \cup {doc(nodes, "given", {<<r[2], r[1]>> : r \in pairs}) : nodes \in NodeLists, pairs \in SUBSET Upper}
    \cup {[doc(nodes, matrix, {}) EXCEPT !.points = points] :
             nodes \in lists, matrix \in {"absent", "empty", "unmatched"}, points \in {<<1, 2>>, <<4, 3, 2, 1>>}}
=============================================================================
