------------------------- MODULE TrajectoryProofs -------------------------
(***************************************************************************)
(* Proofs about the trajectory of a stored document, for every document: it*)
(* only has moves that were marked safe and every angle is one of the      *)
(* encoder's; and for every document whose nodes have ids of their own     *)
(* (UniqueIds): a run begins where the startup travel ends, each node is   *)
(* run in its place, and how the table turns.                              *)
(*                                                                         *)
(* A trajectory is its nodes' parts, one after the other (LaidOut): what   *)
(* lies between the last node and this one, then this one's own items.  So *)
(* a property of all items is one of a part, and the order of the nodes,   *)
(* which OrderedPlaces gives, is the order of their items.                 *)
(***************************************************************************)
EXTENDS PathDocumentProofs

(* The trajectory. *)

LEMMA ChainedConcat ==
  ASSUME NEW X, NEW s \in Seq(X), NEW t \in Seq(X), NEW R, t # <<>>, Chained(s, R), Chained(t, R),
         s # <<>> => <<s[Len(s)], t[1]>> \in R
  PROVE  /\ s \o t \in Seq(X) /\ s \o t # <<>> /\ Chained(s \o t, R)
         /\ (s \o t)[Len(s \o t)] = t[Len(t)]
         /\ (s \o t)[1] = IF s = <<>> THEN t[1] ELSE s[1]
  <1> DEFINE u == s \o t
             m == Len(s)
             n == Len(t)
  <1>1. /\ u \in Seq(X) /\ Len(u) = m + n /\ m \in Nat /\ n \in Nat /\ n > 0
        /\ \A i \in 1..m : u[i] = s[i]
        /\ \A i \in 1..n : u[m + i] = t[i]
    OBVIOUS
  <1>2. (s = <<>> => m = 0) /\ (s # <<>> => m > 0)
    OBVIOUS
  <1>3. u # <<>>
    OBVIOUS
  <1>4. /\ \A i \in 1..(m - 1) : <<s[i], s[i + 1]>> \in R
        /\ \A i \in 1..(n - 1) : <<t[i], t[i + 1]>> \in R
    BY DEF Chained
  <1>5. s # <<>> => <<s[m], t[1]>> \in R
    OBVIOUS
  <1> HIDE DEF u, m, n
  <1>6. u[m + n] = t[n]
    <2>1. n \in 1..n
      BY <1>1
    <2> QED
      BY <1>1, <2>1
  <1>7. u[1] = IF s = <<>> THEN t[1] ELSE s[1]
    <2>1. CASE s = <<>>
      <3>1. 1 \in 1..n /\ m + 1 = 1
        BY <1>1, <1>2, <2>1
      <3> QED
        BY <1>1, <2>1, <3>1
    <2>2. CASE s # <<>>
      <3>1. 1 \in 1..m
        BY <1>1, <1>2, <2>2
      <3> QED
        BY <1>1, <2>2, <3>1
    <2> QED
      BY <2>1, <2>2
  <1>8. ASSUME NEW i \in 1..(m + n - 1) PROVE <<u[i], u[i + 1]>> \in R
    <2>1. CASE i < m
      <3>1. i \in 1..(m - 1) /\ i \in 1..m /\ i + 1 \in 1..m
        BY <1>1, <2>1
      <3> QED
        BY <1>1, <1>4, <3>1
    <2>2. CASE i = m
      <3>1. s # <<>> /\ i \in 1..m /\ i + 1 = m + 1 /\ 1 \in 1..n
        BY <1>1, <1>2, <2>2
      <3>2. u[i] = s[m] /\ u[i + 1] = t[1]
        BY <1>1, <2>2, <3>1
      <3> QED
        BY <1>5, <3>1, <3>2
    <2>3. CASE i > m
      <3> DEFINE j == i - m
      <3>1. j \in 1..(n - 1) /\ j \in 1..n /\ j + 1 \in 1..n /\ i = m + j /\ i + 1 = m + (j + 1)
        BY <1>1, <2>3
      <3> HIDE DEF j
      <3>2. u[i] = t[j] /\ u[i + 1] = t[j + 1]
        BY <1>1, <3>1
      <3> QED
        BY <1>4, <3>1, <3>2
    <2> QED
      BY <1>1, <2>1, <2>2, <2>3
  <1>9. Chained(u, R)
    <2>1. Len(u) - 1 = m + n - 1
      BY <1>1
    <2> QED
      BY <1>8, <2>1 DEF Chained
  <1> QED
    BY <1>1, <1>3, <1>6, <1>7, <1>9 DEF u, m, n

FlattensBy(f, seqs) ==
    /\ f[0] = seqs[1]
    /\ \A k \in 1..(Len(seqs) - 1) : f[k] = f[k - 1] \o seqs[k + 1]
    /\ FlattenSeq(seqs) = f[Len(seqs) - 1]

LEMMA FlattenStepwise ==
  ASSUME NEW X, NEW seqs \in Seq(Seq(X)), Len(seqs) > 0
  PROVE  \E f \in [0..(Len(seqs) - 1) -> Seq(X)] : FlattensBy(f, seqs)
  <1> DEFINE n == Len(seqs)
             m == n - 1
             Q == Seq(X)
             step == [k \in 0..m |-> [q \in Q |-> q \o seqs[k + 1]]]
             Body(f) == [i \in 1..n |-> IF i = 1 THEN seqs[i] ELSE f[i - 1] \o seqs[i]]
             flat == CHOOSE f : f = Body(f)
  <1>n. n \in Nat /\ n > 0 /\ \A k \in 1..n : seqs[k] \in Q
    OBVIOUS
  <1>6. FlattenSeq(seqs) = flat[n]
    BY <1>n DEF FlattenSeq
  <1> HIDE DEF n
  <1>m. m \in Nat /\ 1 \in 1..n /\ n = m + 1
    BY <1>n
  <1>1. step \in [0..m -> [Q -> Q]]
    <2> SUFFICES ASSUME NEW k \in 0..m, NEW q \in Q PROVE q \o seqs[k + 1] \in Q
      OBVIOUS
    <2>1. k + 1 \in 1..n
      BY <1>n
    <2>2. seqs[k + 1] \in Q
      BY <1>n, <2>1
    <2> QED
      BY <2>2
  <1> HIDE DEF m, Q
  <1>2. PICK f \in [0..m -> Q] :
           f[0] = seqs[1] /\ \A k \in 0..m : k # 0 => f[k] = step[k][f[k - 1]]
    <2> HIDE DEF step, Body, flat
    <2>3. \E f \in [0..m -> Q] : Iterates(f, m, seqs[1], step)
      BY <1>n, <1>1, <1>m, Recursion
    <2> QED
      BY <2>3 DEF Iterates
  <1>3. \A k \in 1..m : f[k] = f[k - 1] \o seqs[k + 1]
    <2> SUFFICES ASSUME NEW k \in 1..m PROVE f[k] = f[k - 1] \o seqs[k + 1]
      OBVIOUS
    <2>1. k \in 0..m /\ k # 0 /\ k - 1 \in 0..m
      BY <1>m
    <2>2. f[k - 1] \in Q
      BY <1>2, <2>1
    <2> QED
      BY <1>2, <2>1, <2>2
  <1> HIDE DEF step
  <1>4. \E g : g = Body(g)
    <2> DEFINE g == [i \in 1..n |-> f[i - 1]]
    <2> SUFFICES ASSUME NEW i \in 1..n
                 PROVE  g[i] = IF i = 1 THEN seqs[i] ELSE g[i - 1] \o seqs[i]
      <3>1. g = Body(g)
        OBVIOUS
      <3> QED
        BY <3>1
    <2>1. CASE i = 1
      BY <1>2, <2>1
    <2>2. CASE i # 1
      <3>1. i - 1 \in 1..m /\ i - 1 \in 1..n /\ (i - 1) + 1 = i
        BY <1>m, <2>2
      <3>2. f[i - 1] = f[(i - 1) - 1] \o seqs[i]
        BY <1>3, <3>1
      <3> QED
        BY <2>2, <3>1, <3>2
    <2> QED
      BY <2>1, <2>2
  <1>5. flat = Body(flat)
    <2> HIDE DEF Body
    <2> QED
      BY <1>4
  <1>7. \A k \in 0..m : flat[k + 1] = f[k]
    <2> DEFINE K == {k \in 0..m : flat[k + 1] = f[k]}
    <2> HIDE DEF flat
    <2>1. 0 \in K
      <3>1. flat[1] = Body(flat)[1]
        BY <1>5
      <3> QED
        BY <1>m, <1>2, <3>1
    <2>2. \A k \in 0..(m - 1) : k \in K => k + 1 \in K
      <3> SUFFICES ASSUME NEW k \in 0..(m - 1), k \in K PROVE k + 1 \in K
        OBVIOUS
      <3>1. k + 1 \in 1..m /\ (k + 1) - 1 = k /\ k + 1 \in 0..m
            /\ k + 2 \in 1..n /\ k + 2 # 1 /\ (k + 2) - 1 = k + 1 /\ (k + 1) + 1 = k + 2
        BY <1>m
      <3>2. flat[k + 2] = flat[k + 1] \o seqs[k + 2]
        <4>1. flat[k + 2] = Body(flat)[k + 2]
          BY <1>5
        <4> QED
          BY <3>1, <4>1
      <3>3. f[k + 1] = f[k] \o seqs[k + 2]
        BY <1>3, <3>1
      <3> QED
        BY <3>1, <3>2, <3>3
    <2>3. \A k \in 0..m : k \in K
      <3> HIDE DEF K
      <3> QED
        BY <1>m, <2>1, <2>2, Induction
    <2> QED
      BY <2>3
  <1>8. FlattenSeq(seqs) = f[m]
    <2> HIDE DEF flat
    <2>1. m \in 0..m
      BY <1>m
    <2> QED
      BY <1>6, <1>7, <1>m, <2>1
  <1> HIDE DEF flat, Body
  <1>9. FlattensBy(f, seqs)
    BY <1>2, <1>3, <1>8 DEF FlattensBy, m, n
  <1> QED
    BY <1>2, <1>9 DEF m, n, Q

LEMMA FlattenChained ==
  ASSUME NEW X, NEW seqs \in Seq(Seq(X)), NEW R,
         \A i \in 1..Len(seqs) : seqs[i] # <<>> /\ Chained(seqs[i], R),
         \A i \in 1..(Len(seqs) - 1) : <<seqs[i][Len(seqs[i])], seqs[i + 1][1]>> \in R
  PROVE  FlattenSeq(seqs) \in Seq(X) /\ Chained(FlattenSeq(seqs), R)
  <1>1. CASE Len(seqs) = 0
    <2>1. seqs = <<>>
      BY <1>1
    <2>2. FlattenSeq(seqs) = <<>>
      BY <1>1, <2>1 DEF FlattenSeq
    <2>3. Chained(<<>>, R)
      BY DEF Chained
    <2>4. <<>> \in Seq(X)
      OBVIOUS
    <2> QED
      BY <2>2, <2>3, <2>4
  <1>2. ASSUME Len(seqs) # 0 PROVE FlattenSeq(seqs) \in Seq(X) /\ Chained(FlattenSeq(seqs), R)
    <2> DEFINE m == Len(seqs) - 1
    <2>1. m \in Nat /\ Len(seqs) > 0 /\ Len(seqs) = m + 1 /\ \A i \in 1..(m + 1) : seqs[i] \in Seq(X)
      BY <1>2
    <2>2. PICK f \in [0..m -> Seq(X)] : FlattensBy(f, seqs)
      BY <2>1, FlattenStepwise
    <2> HIDE DEF m
    <2>3. /\ f[0] = seqs[1]
          /\ \A k \in 1..m : f[k] = f[k - 1] \o seqs[k + 1]
          /\ FlattenSeq(seqs) = f[m]
      BY <2>2 DEF FlattensBy, m
    <2> DEFINE Good(k) == /\ f[k] # <<>> /\ Chained(f[k], R)
                          /\ f[k][Len(f[k])] = seqs[k + 1][Len(seqs[k + 1])]
               K == {k \in 0..m : Good(k)}
    <2>4. 0 \in K
      <3>1. 0 \in 0..m /\ 1 \in 1..Len(seqs) /\ 0 + 1 = 1
        BY <2>1
      <3> QED
        BY <2>3, <3>1
    <2>5. \A k \in 0..(m - 1) : k \in K => k + 1 \in K
      <3> SUFFICES ASSUME NEW k \in 0..(m - 1), k \in K PROVE k + 1 \in K
        OBVIOUS
      <3> DEFINE t == seqs[k + 2]
                 s == f[k]
      <3>1. k + 1 \in 1..m /\ k + 1 \in 0..m /\ (k + 1) - 1 = k /\ (k + 1) + 1 = k + 2 /\ k \in 0..m
            /\ k + 2 \in 1..Len(seqs) /\ k + 1 \in 1..(Len(seqs) - 1)
        <4> DEFINE n == Len(seqs)
        <4>1. m \in Nat /\ n = m + 1 /\ k \in 0..(m - 1)
          BY <2>1
        <4> HIDE DEF n, K
        <4>2. k + 2 \in 1..n /\ k + 1 \in 1..(n - 1)
          BY <4>1
        <4> QED
          BY <4>1, <4>2 DEF n
      <3>2. f[k + 1] = s \o t
        BY <2>3, <3>1
      <3>3. t \in Seq(X) /\ s \in Seq(X) /\ t # <<>> /\ Chained(t, R)
        BY <2>1, <2>2, <3>1
      <3>4. Good(k)
        OBVIOUS
      <3>5. <<s[Len(s)], t[1]>> \in R
        <4>1. <<seqs[k + 1][Len(seqs[k + 1])], seqs[(k + 1) + 1][1]>> \in R
          BY <3>1
        <4> QED
          BY <3>1, <3>4, <4>1
      <3> HIDE DEF t, s
      <3>6. Chained(s, R)
        BY <3>4 DEF s
      <3>7. s \o t # <<>> /\ Chained(s \o t, R) /\ (s \o t)[Len(s \o t)] = t[Len(t)]
        BY <3>3, <3>5, <3>6, ChainedConcat
      <3>8. Good(k + 1)
        BY <3>1, <3>2, <3>7 DEF t
      <3> HIDE DEF Good
      <3> QED
        BY <3>1, <3>8
    <2>6. \A k \in 0..m : k \in K
      <3> HIDE DEF K
      <3> QED
        BY <2>1, <2>4, <2>5, Induction
    <2>7. m \in 0..m
      BY <2>1
    <2> QED
      BY <2>2, <2>3, <2>6, <2>7
  <1> QED
    BY <1>1, <1>2

Items == [point : Nat, node : Nat, angle : Angles]

Stops(n) == [k \in DOMAIN NodeAngles(n) |-> [point |-> n.point, node |-> n.id, angle |-> NodeAngles(n)[k]]]

\* A node is one stop or more, all at its point.
LEMMA StopsFacts ==
  ASSUME NEW n \in Nodes
  PROVE  /\ Stops(n) \in Seq(Items) /\ Stops(n) # <<>>
         /\ \A k \in 1..Len(Stops(n)) : Stops(n)[k] \in Items /\ Stops(n)[k].point = n.point /\ Stops(n)[k].node = n.id
         /\ n.id \in Nat /\ n.id # 0 /\ n.point \in Nat
  <1>1. PICK c \in Nat \ {0} : NodeAngles(n) \in [1..c -> Angles]
    BY NodeAnglesType
  <1>2. n.id \in Nat /\ n.id # 0 /\ n.point \in Nat
    BY DEF Nodes
  <1> DEFINE a == NodeAngles(n)
             s == [k \in 1..c |-> [point |-> n.point, node |-> n.id, angle |-> a[k]]]
  <1>3. DOMAIN a = 1..c
    BY <1>1
  <1>4. Stops(n) = s
    BY <1>3 DEF Stops
  <1>5. \A k \in 1..c : a[k] \in Angles
    BY <1>1
  <1> HIDE DEF a
  <1>6. s \in [1..c -> Items] /\ \A k \in 1..c : s[k].point = n.point /\ s[k].node = n.id
    BY <1>2, <1>5 DEF Items
  <1> HIDE DEF s
  <1>7. s \in Seq(Items) /\ Len(s) = c
    BY <1>6
  <1>8. s # <<>>
    BY <1>7
  <1>9. \A k \in 1..c : s[k] \in Items
    BY <1>6
  <1> QED
    BY <1>2, <1>4, <1>6, <1>7, <1>8, <1>9

\* What lies between two nodes leads from the one to the other.
Crosses(T, doc, from, to) ==
    /\ T \in Seq(Items)
    /\ HasDirect(doc, from, to) => T = <<>>
    /\ T = <<>> => HasDirect(doc, from, to)
    /\ T # <<>> => <<from, T[1].point>> \in doc.pairs /\ <<T[Len(T)].point, to>> \in doc.pairs
    /\ \A i \in 1..(Len(T) - 1) : <<T[i].point, T[i + 1].point>> \in doc.pairs

LEMMA TransitionsFacts ==
  ASSUME NEW doc, NEW from \in Nodes, NEW to \in Nodes, Searched(doc, <<from.point>>),
         HasDirect(doc, from.point, to.point) \/ FindRoute(doc, <<from.point>>, to.point) # <<>>
  PROVE  /\ Crosses(Transitions(doc, from, to), doc, from.point, to.point)
         /\ Len(Transitions(doc, from, to)) = Len(Between(doc, from, to))
  <1> DEFINE points == Between(doc, from, to)
             angles == Interpolate(Exit(from), Entry(to), Len(points))
             T == [i \in DOMAIN points |-> [point |-> points[i], node |-> 0, angle |-> angles[i]]]
             direct == HasDirect(doc, from.point, to.point)
             route == FindRoute(doc, <<from.point>>, to.point)
             start == <<from.point>>
  <1>1. Transitions(doc, from, to) = T
    BY DEF Transitions
  <1>2. Exit(from) \in Angles /\ Entry(to) \in Angles /\ from.point \in Nat /\ to.point \in Nat
    BY NodeAnglesType DEF Nodes
  <1>3. CASE direct
    <2>1. points = <<>>
      BY <1>3 DEF Between
    <2> HIDE DEF points
    <2>2. T = <<>>
      BY <2>1
    <2> HIDE DEF T
    <2>3. <<>> \in Seq(Items)
      OBVIOUS
    <2> QED
      BY <1>1, <1>3, <2>1, <2>2, <2>3 DEF Crosses, points
  <1>4. ASSUME ~direct
        PROVE  /\ Crosses(Transitions(doc, from, to), doc, from.point, to.point)
               /\ Len(Transitions(doc, from, to)) = Len(points)
    <2>1. route # <<>> /\ from.point # to.point
      BY <1>4 DEF HasDirect
    <2>2. Way(doc, start, route) /\ Last(route) = to.point
      BY <2>1, RouteFacts
    <2> DEFINE l == Len(route)
    <2>3. /\ route \in Seq(Nat) /\ l \in Nat /\ l > 0 /\ route[1] = from.point /\ route[l] = to.point
          /\ \A i \in 1..(l - 1) : <<route[i], route[i + 1]>> \in doc.pairs
      <3> HIDE DEF route
      <3>1. ToSet(start) = {from.point}
        BY DEF ToSet
      <3> HIDE DEF start
      <3> QED
        BY <2>1, <2>2, <3>1 DEF Way, Leads, Last
    <2> HIDE DEF route
    <2>4. l > 1
      <3>1. l # 1
        BY <2>1, <2>3
      <3> HIDE DEF l
      <3> QED
        BY <2>3, <3>1
    <2>5. l # 2
      <3> SUFFICES ASSUME l = 2 PROVE FALSE
        OBVIOUS
      <3>1. 1 \in 1..(l - 1) /\ 1 + 1 = l
        OBVIOUS
      <3>2. <<from.point, to.point>> \in doc.pairs
        BY <2>3, <3>1
      <3> QED
        BY <1>4, <3>2 DEF HasDirect
    <2> DEFINE n == l - 2
    <2>6. points = SubSeq(route, 2, l - 1)
      BY <1>4 DEF Between, route
    <2> HIDE DEF l
    <2>7. n \in Nat /\ n > 0 /\ l = n + 2
      BY <2>3, <2>4, <2>5
    <2>8. points \in Seq(Nat) /\ Len(points) = n /\ \A i \in 1..n : points[i] = route[i + 1]
      <3> HIDE DEF points
      <3>1. 2 \in Int /\ l - 1 \in Int /\ (l - 1) - 2 + 1 = n /\ l - 1 <= Len(route) /\ 2 <= l - 1
        BY <2>3, <2>7 DEF l
      <3>2. SubSeq(route, 2, l - 1) \in Seq(Nat) /\ Len(SubSeq(route, 2, l - 1)) = n
        BY <2>3, <2>7, <3>1
      <3>3. \A i \in 1..n : SubSeq(route, 2, l - 1)[i] = route[i + 1]
        BY <2>3, <2>7, <3>1
      <3> QED
        BY <2>6, <3>2, <3>3
    <2> HIDE DEF points, n
    <2>9. angles \in [1..n -> Angles]
      BY <1>2, <2>7, <2>8, InterpolateType
    <2> HIDE DEF angles
    <2>10. \A i \in 1..n : points[i] \in Nat /\ angles[i] \in Angles
      <3>1. \A i \in 1..n : points[i] \in Nat
        BY <2>8
      <3>2. \A i \in 1..n : angles[i] \in Angles
        BY <2>9
      <3> QED
        BY <3>1, <3>2
    <2>11. T = [i \in 1..n |-> [point |-> points[i], node |-> 0, angle |-> angles[i]]]
      BY <2>8
    <2> HIDE DEF T
    <2>12. T \in [1..n -> Items] /\ \A i \in 1..n : T[i].point = points[i]
      BY <2>10, <2>11 DEF Items
    <2>13. T \in Seq(Items) /\ Len(T) = n /\ \A i \in 1..n : T[i].point = route[i + 1]
      BY <2>7, <2>8, <2>12
    <2>14. T # <<>>
      BY <2>7, <2>13
    <2>15. <<from.point, T[1].point>> \in doc.pairs
      <3>1. 1 \in 1..n /\ 1 \in 1..(l - 1)
        BY <2>7
      <3> QED
        BY <2>3, <2>13, <3>1
    <2>16. <<T[n].point, to.point>> \in doc.pairs
      <3>1. n \in 1..n /\ n + 1 \in 1..(l - 1) /\ (n + 1) + 1 = l
        BY <2>7
      <3> QED
        BY <2>3, <2>13, <3>1
    <2>17. ASSUME NEW i \in 1..(n - 1) PROVE <<T[i].point, T[i + 1].point>> \in doc.pairs
      <3>1. i \in 1..n /\ i + 1 \in 1..n /\ i + 1 \in 1..(l - 1)
        BY <2>7
      <3> QED
        BY <2>3, <2>13, <3>1
    <2>18. Crosses(T, doc, from.point, to.point)
      BY <1>4, <2>13, <2>14, <2>15, <2>16, <2>17 DEF Crosses
    <2> QED
      BY <1>1, <2>8, <2>13, <2>18
  <1> QED
    BY <1>3, <1>4

Part(doc, i) ==
    (IF i = 1 THEN <<>> ELSE Transitions(doc, doc.nodes[i - 1], doc.nodes[i])) \o Stops(doc.nodes[i])

\* The client sent a matrix.
Marked == sent.matrix \in {"given", "unmatched"}

SafeMoves ==
    {r \in Items \X Items :
        \/ r[1].point = r[2].point
        \/ IF Marked THEN <<r[1].point, r[2].point>> \in Cells
           ELSE UniqueIds(sent.nodes) => r[1].node # 0 /\ r[2].node # 0}

\* What the trajectory is expanded from.
Driven(doc) ==
    /\ sent \in Typed /\ StoredOf(doc)
    /\ doc \in Typed /\ Ordered(doc.nodes) = doc.nodes /\ Expandable(doc)

\* ... if the nodes have ids of their own.
Stored(doc) == IsDocument(sent) /\ doc = Normalize(sent) /\ Expandable(doc)

LEMMA StoredIsDriven ==
  ASSUME NEW doc, Stored(doc)
  PROVE  Driven(doc)
  <1>1. IsDocument(sent) /\ doc = Normalize(sent) /\ Expandable(doc)
    BY DEF Stored
  <1>2. sent \in Typed
    BY <1>1 DEF IsDocument
  <1>3. StoredOf(doc)
    BY <1>1, <1>2, SentIsStored
  <1>4. doc \in Typed /\ Ordered(doc.nodes) = doc.nodes
    BY <1>1, <1>2, NormalIsTyped, NormalForm, PairsAgain
  <1> QED
    BY <1>1, <1>2, <1>3, <1>4 DEF Driven

LEMMA DrivenIsStored ==
  ASSUME NEW doc, Driven(doc), UniqueIds(sent.nodes)
  PROVE  Stored(doc)
  BY DEF Driven, Stored, StoredOf, IsDocument

LEMMA DrivenFacts ==
  ASSUME NEW doc, Driven(doc)
  PROVE  /\ doc.nodes \in Seq(Nodes) /\ Ordered(doc.nodes) = doc.nodes
         /\ \A p \in Nat : Searched(doc, <<p>>)
         /\ \A i \in 1..Len(doc.nodes) : Contains(doc.points, doc.nodes[i].point)
         /\ \A i \in 2..Len(doc.nodes) :
               \/ HasDirect(doc, doc.nodes[i - 1].point, doc.nodes[i].point)
               \/ FindRoute(doc, <<doc.nodes[i - 1].point>>, doc.nodes[i].point) # <<>>
  <1>1. doc.nodes \in Seq(Nodes) /\ Ordered(doc.nodes) = doc.nodes
    BY DEF Driven, Typed
  <1>2. ASSUME NEW p \in Nat PROVE Searched(doc, <<p>>)
    <2>1. <<p>> \in Seq(Nat)
      OBVIOUS
    <2> QED
      BY <2>1, FileSearched DEF Driven
  <1>3. DOMAIN doc.nodes = 1..Len(doc.nodes)
    BY <1>1
  <1> QED
    BY <1>1, <1>2, <1>3 DEF Driven, Expandable

LEMMA StoredFacts ==
  ASSUME NEW doc, Stored(doc)
  PROVE  /\ doc.nodes \in Seq(Nodes) /\ Ordered(doc.nodes) = doc.nodes
         /\ \A p \in Nat : Searched(doc, <<p>>)
         /\ \A i \in 1..Len(doc.nodes) : Contains(doc.points, doc.nodes[i].point)
         /\ \A i \in 2..Len(doc.nodes) :
               \/ HasDirect(doc, doc.nodes[i - 1].point, doc.nodes[i].point)
               \/ FindRoute(doc, <<doc.nodes[i - 1].point>>, doc.nodes[i].point) # <<>>
  <1>1. Driven(doc)
    BY StoredIsDriven
  <1> QED
    BY <1>1, DrivenFacts

\* With a matrix, the safe routes are cells that it marks; without one, neighbours are
\* safe for each other.
LEMMA DrivenPairs ==
  ASSUME NEW doc, Driven(doc)
  PROVE  /\ Marked => doc.pairs \subseteq Cells
         /\ ~Marked /\ UniqueIds(sent.nodes) =>
              \A i \in 2..Len(doc.nodes) : HasDirect(doc, doc.nodes[i - 1].point, doc.nodes[i].point)
  <1>1. /\ doc.points = sent.points /\ doc.pairs = NormalPairs(sent)
        /\ UniqueIds(sent.nodes) => doc.nodes = NormalNodes(sent)
    BY PairsAgain DEF Driven, StoredOf
  <1>2. doc.nodes \in Seq(Nodes) /\ doc.points \in Seq(Nat)
    BY DEF Driven, Typed
  <1>3. ASSUME Marked PROVE doc.pairs \subseteq Cells
    <2>1. doc.pairs = ResolvedRoutes(sent)
      BY <1>1, <1>3 DEF NormalPairs, Marked
    <2>2. CASE sent.matrix = "given"
      <3>1. ResolvedRoutes(sent) = Mirror({r \in sent.pairs : r[1] \in ToSet(sent.points) /\ r[2] \in ToSet(sent.points) /\ r[1] # r[2]})
        BY <2>2 DEF ResolvedRoutes
      <3> QED
        BY <2>1, <2>2, <3>1 DEF Mirror, Cells
    <2>3. CASE sent.matrix = "unmatched"
      BY <2>1, <2>3 DEF ResolvedRoutes, Cells
    <2> QED
      BY <1>3, <2>2, <2>3 DEF Marked
  <1>6. ASSUME ~Marked, UniqueIds(sent.nodes), NEW i \in 2..Len(doc.nodes)
        PROVE  HasDirect(doc, doc.nodes[i - 1].point, doc.nodes[i].point)
    <2> DEFINE p == doc.nodes[i - 1].point
               q == doc.nodes[i].point
               ids == ToSet(doc.points)
               j == i - 1
    <2>1. Len(doc.nodes) \in Nat /\ j \in 1..Len(doc.nodes) /\ i \in 1..Len(doc.nodes) /\ j + 1 = i
          /\ j \in 1..(Len(doc.nodes) - 1) /\ DOMAIN doc.nodes = 1..Len(doc.nodes)
      BY <1>2
    <2>2. p \in ids /\ q \in ids
      <3>1. Contains(doc.points, p) /\ Contains(doc.points, q)
        BY <2>1, DrivenFacts
      <3> HIDE DEF p, q
      <3> QED
        BY <1>2, <3>1 DEF Contains, ToSet
    <2>3. CASE p # q
      <3> DEFINE r == <<p, q>>
                 P == {x \in ids \X ids : /\ x[1] # x[2]
                               /\ \E k \in 1..(Len(doc.nodes) - 1) :
                                     doc.nodes[k].point = x[1] /\ doc.nodes[k + 1].point = x[2]}
      <3>1. r \in ids \X ids /\ r[1] = p /\ r[2] = q
        BY <2>2
      <3>2. doc.nodes[j].point = p /\ doc.nodes[j + 1].point = q
        BY <2>1
      <3> HIDE DEF p, q, ids, r, j
      <3>3. r \in P
        BY <2>1, <2>3, <3>1, <3>2
      <3>4. NeighborRoutes(doc.nodes, ids) = Mirror(P)
        BY DEF NeighborRoutes
      <3>5. r \in doc.pairs
        BY <1>1, <1>6, <3>3, <3>4 DEF NormalPairs, Marked, Mirror, ids
      <3> QED
        BY <3>5 DEF HasDirect, p, q, r
    <2> QED
      BY <2>3 DEF HasDirect
  <1> QED
    BY <1>3, <1>6

LEMMA TrajectoryForm ==
  ASSUME NEW doc, Ordered(doc.nodes) = doc.nodes
  PROVE  Trajectory(doc) = FlattenSeq([i \in DOMAIN doc.nodes |-> Part(doc, i)])
  BY DEF Trajectory, Part, Stops

\* A node's part of the trajectory.
PartIsSafe(doc, i) ==
    LET part == Part(doc, i)
    IN /\ part \in Seq(Items) /\ part # <<>> /\ Chained(part, SafeMoves)
       /\ part[Len(part)] \in Items /\ part[Len(part)].point = doc.nodes[i].point /\ part[Len(part)].node # 0
       /\ i > 1 => \A a \in Items : a.point = doc.nodes[i - 1].point /\ a.node # 0 => <<a, part[1]>> \in SafeMoves

LEMMA StopsAreSafe ==
  ASSUME NEW n \in Nodes
  PROVE  Chained(Stops(n), SafeMoves)
  <1> DEFINE s == Stops(n)
  <1>1. s \in Seq(Items) /\ \A k \in 1..Len(s) : s[k] \in Items /\ s[k].point = n.point
    BY StopsFacts
  <1> HIDE DEF s
  <1> SUFFICES ASSUME NEW i \in 1..(Len(s) - 1) PROVE <<s[i], s[i + 1]>> \in SafeMoves
    BY DEF Chained, s
  <1>2. i \in 1..Len(s) /\ i + 1 \in 1..Len(s)
    BY <1>1
  <1>3. s[i] \in Items /\ s[i + 1] \in Items /\ s[i].point = s[i + 1].point
    BY <1>1, <1>2
  <1> QED
    BY <1>3 DEF SafeMoves

LEMMA PartsAreSafe ==
  ASSUME NEW doc, Driven(doc), NEW i \in 1..Len(doc.nodes)
  PROVE  PartIsSafe(doc, i)
  <1> DEFINE to == doc.nodes[i]
             s == Stops(to)
  <1>1. doc.nodes \in Seq(Nodes) /\ to \in Nodes
    BY DrivenFacts
  <1>2. /\ s \in Seq(Items) /\ s # <<>> /\ Chained(s, SafeMoves)
        /\ \A k \in 1..Len(s) : s[k] \in Items /\ s[k].point = to.point /\ s[k].node = to.id
        /\ to.id # 0
    BY <1>1, StopsFacts, StopsAreSafe
  <1>3. 1 \in 1..Len(s) /\ Len(s) \in 1..Len(s)
    BY <1>2
  <1>4. CASE i = 1
    <2>1. Part(doc, i) = <<>> \o s
      BY <1>4 DEF Part
    <2> HIDE DEF s, to
    <2>2. Part(doc, i) = s
      BY <1>2, <2>1
    <2>3. ~(i > 1)
      BY <1>4
    <2> QED
      BY <1>2, <1>3, <2>2, <2>3 DEF PartIsSafe, to
  <1>5. CASE i > 1
    <2> DEFINE from == doc.nodes[i - 1]
               T == Transitions(doc, from, to)
    <2>1. from \in Nodes /\ i \in 2..Len(doc.nodes) /\ i # 1
      <3>1. i - 1 \in 1..Len(doc.nodes)
        BY <1>1, <1>5
      <3> QED
        BY <1>1, <1>5, <3>1
    <2>2. from.point \in Nat /\ Searched(doc, <<from.point>>)
      <3>1. from.point \in Nat
        BY <2>1 DEF Nodes
      <3> QED
        BY <3>1, DrivenFacts
    <2>3. HasDirect(doc, from.point, to.point) \/ FindRoute(doc, <<from.point>>, to.point) # <<>>
      BY <2>1, DrivenFacts
    <2>4. Crosses(T, doc, from.point, to.point)
      BY <1>1, <2>1, <2>2, <2>3, TransitionsFacts
    <2>5. Part(doc, i) = T \o s
      BY <2>1 DEF Part
    <2>6. /\ Marked => doc.pairs \subseteq Cells
          /\ ~Marked /\ UniqueIds(sent.nodes) => HasDirect(doc, from.point, to.point)
      BY <2>1, DrivenPairs
    <2> HIDE DEF T, s, to, from
    <2>7. /\ T \in Seq(Items)
          /\ \A k \in 1..Len(T) : T[k] \in Items
          /\ T # <<>> => (Marked \/ ~UniqueIds(sent.nodes)) /\ 1 \in 1..Len(T) /\ Len(T) \in 1..Len(T)
      BY <2>4, <2>6 DEF Crosses
    <2>8. Chained(T, SafeMoves)
      <3> SUFFICES ASSUME NEW k \in 1..(Len(T) - 1) PROVE <<T[k], T[k + 1]>> \in SafeMoves
        BY DEF Chained
      <3>1. k \in 1..Len(T) /\ k + 1 \in 1..Len(T) /\ T # <<>>
        BY <2>7
      <3>2. Marked => <<T[k].point, T[k + 1].point>> \in Cells
        BY <2>4, <2>6, <2>7, <3>1 DEF Crosses
      <3> QED
        BY <2>7, <3>1, <3>2 DEF SafeMoves
    <2>9. T # <<>> => <<T[Len(T)], s[1]>> \in SafeMoves
      <3> SUFFICES ASSUME T # <<>> PROVE <<T[Len(T)], s[1]>> \in SafeMoves
        OBVIOUS
      <3>1. Marked => <<T[Len(T)].point, s[1].point>> \in Cells
        BY <1>2, <1>3, <2>4, <2>6, <2>7 DEF Crosses
      <3> QED
        BY <1>2, <1>3, <2>7, <3>1 DEF SafeMoves
    <2> DEFINE part == T \o s
    <2>10. /\ part \in Seq(Items) /\ part # <<>> /\ Chained(part, SafeMoves)
           /\ part[Len(part)] = s[Len(s)]
           /\ part[1] = IF T = <<>> THEN s[1] ELSE T[1]
      BY <1>2, <2>7, <2>8, <2>9, ChainedConcat
    <2> HIDE DEF part
    <2>11. ASSUME NEW a \in Items, a.point = from.point, a.node # 0
           PROVE  <<a, part[1]>> \in SafeMoves
      <3>1. CASE T = <<>>
        <4>1. part[1] = s[1] /\ s[1] \in Items /\ s[1].point = to.point /\ s[1].node # 0
          BY <1>2, <1>3, <2>10, <3>1
        <4>2. HasDirect(doc, a.point, s[1].point)
          BY <2>4, <2>11, <3>1, <4>1 DEF Crosses
        <4>3. a.point = s[1].point \/ (Marked => <<a.point, s[1].point>> \in Cells)
          BY <2>6, <4>2 DEF HasDirect
        <4> QED
          BY <2>11, <4>1, <4>3 DEF SafeMoves
      <3>2. CASE T # <<>>
        <4>1. part[1] = T[1] /\ T[1] \in Items /\ (Marked \/ ~UniqueIds(sent.nodes))
          BY <2>7, <2>10, <3>2
        <4>2. Marked => <<a.point, T[1].point>> \in Cells
          BY <2>4, <2>6, <2>11, <3>2, <4>1 DEF Crosses
        <4> QED
          BY <4>1, <4>2 DEF SafeMoves
      <3> QED
        BY <3>1, <3>2
    <2>12. part[Len(part)] \in Items /\ part[Len(part)].point = to.point /\ part[Len(part)].node # 0
      BY <1>2, <1>3, <2>10
    <2>13. Part(doc, i) = part
      BY <2>5 DEF part
    <2> QED
      BY <2>10, <2>11, <2>12, <2>13 DEF PartIsSafe, from, to
  <1> QED
    BY <1>4, <1>5

\* The trajectory of a stored document: items, and each move between two is safe.
LEMMA TrajectoryIsSafe ==
  ASSUME NEW doc, Driven(doc)
  PROVE  Trajectory(doc) \in Seq(Items) /\ Chained(Trajectory(doc), SafeMoves)
  <1> DEFINE n == Len(doc.nodes)
             parts == [i \in DOMAIN doc.nodes |-> Part(doc, i)]
  <1>1. doc.nodes \in Seq(Nodes) /\ Ordered(doc.nodes) = doc.nodes
    BY DrivenFacts
  <1>2. n \in Nat /\ DOMAIN doc.nodes = 1..n
    BY <1>1
  <1>3. \A i \in 1..n : PartIsSafe(doc, i)
    BY PartsAreSafe
  <1> HIDE DEF n
  <1>4. parts \in [1..n -> Seq(Items)] /\ \A i \in 1..n : parts[i] = Part(doc, i)
    BY <1>2, <1>3 DEF PartIsSafe
  <1> HIDE DEF parts
  <1>5. parts \in Seq(Seq(Items)) /\ Len(parts) = n
    BY <1>2, <1>4
  <1>6. \A i \in 1..Len(parts) : parts[i] # <<>> /\ Chained(parts[i], SafeMoves)
    BY <1>3, <1>4, <1>5 DEF PartIsSafe
  <1>7. ASSUME NEW i \in 1..(Len(parts) - 1)
        PROVE  <<parts[i][Len(parts[i])], parts[i + 1][1]>> \in SafeMoves
    <2>1. i \in 1..n /\ i + 1 \in 1..n /\ i + 1 > 1 /\ (i + 1) - 1 = i
      BY <1>2, <1>5
    <2>2. parts[i] = Part(doc, i) /\ parts[i + 1] = Part(doc, i + 1)
      BY <1>4, <2>1
    <2> DEFINE a == parts[i][Len(parts[i])]
    <2>3. a \in Items /\ a.point = doc.nodes[i].point /\ a.node # 0
      BY <1>3, <2>1, <2>2 DEF PartIsSafe
    <2> HIDE DEF a
    <2>4. PartIsSafe(doc, i + 1)
      BY <1>3, <2>1
    <2>5. <<a, Part(doc, i + 1)[1]>> \in SafeMoves
      BY <2>1, <2>3, <2>4 DEF PartIsSafe
    <2> QED
      BY <2>2, <2>5 DEF a
  <1>8. FlattenSeq(parts) \in Seq(Items) /\ Chained(FlattenSeq(parts), SafeMoves)
    BY <1>5, <1>6, <1>7, FlattenChained
  <1>9. Trajectory(doc) = FlattenSeq(parts)
    BY <1>1, TrajectoryForm DEF parts
  <1> QED
    BY <1>8, <1>9

\* What is loaded is the trajectory of what is stored, and safe in any case.
LoadInv ==
    /\ file = NoFile => trajectory = <<>>
    /\ file # NoFile /\ UniqueIds(sent.nodes) => Stored(file) /\ trajectory = Trajectory(file)
    /\ trajectory \in Seq(Items) /\ Chained(trajectory, SafeMoves)

LEMMA NothingIsSafe == <<>> \in Seq(Items) /\ Chained(<<>>, SafeMoves)
  <1>1. <<>> \in Seq(Items)
    OBVIOUS
  <1>2. Chained(<<>>, SafeMoves)
    BY DEF Chained
  <1> QED
    BY <1>1, <1>2

\* What is read and expanded is driven.
LEMMA ReadIsDriven ==
  ASSUME sent \in Typed, NEW doc, StoredOf(doc), Expandable(doc)
  PROVE  Driven(doc)
  <1>1. PICK d \in Typed : doc = Normalize(d)
    BY DEF StoredOf
  <1>2. doc \in Typed /\ Ordered(doc.nodes) = doc.nodes
    BY <1>1, NormalIsTyped, NormalForm, PairsAgain
  <1> QED
    BY <1>2 DEF Driven

\* What is loaded of a stored document.
LEMMA LoadedFacts ==
  ASSUME sent \in Typed, NEW doc, StoredOf(doc)
  PROVE  /\ Loaded(doc) \in Seq(Items) /\ Chained(Loaded(doc), SafeMoves)
         /\ UniqueIds(sent.nodes) /\ Expandable(doc) => Stored(doc) /\ Loaded(doc) = Trajectory(doc)
  <1> DEFINE d == Normalize(doc)
  <1>1. StoredOf(d) /\ (UniqueIds(sent.nodes) => d = doc)
    BY StoredAgain
  <1>2. Loaded(doc) = IF Expandable(d) THEN Trajectory(d) ELSE <<>>
    BY DEF Loaded
  <1> HIDE DEF d
  <1>3. ASSUME Expandable(d) PROVE Trajectory(d) \in Seq(Items) /\ Chained(Trajectory(d), SafeMoves)
    BY <1>1, <1>3, ReadIsDriven, TrajectoryIsSafe
  <1>4. ASSUME UniqueIds(sent.nodes), Expandable(doc)
        PROVE  Stored(doc) /\ Loaded(doc) = Trajectory(doc)
    <2>1. Driven(doc)
      BY <1>4, ReadIsDriven
    <2> QED
      BY <1>1, <1>2, <1>4, <2>1, DrivenIsStored
  <1> QED
    BY <1>2, <1>3, <1>4, NothingIsSafe

LEMMA LoadInvariance == Spec => []LoadInv
  <1>1. Init => LoadInv
    BY NothingIsSafe DEF Init, LoadInv
  <1>2. StoreInv /\ StoreInv' /\ LoadInv /\ [Next]_vars => LoadInv'
    <2> SUFFICES ASSUME StoreInv, StoreInv', LoadInv, [Next]_vars PROVE LoadInv'
      OBVIOUS
    <2>1. sent \in Typed
      BY SentIsDocument DEF StoreInv
    <2>2. ASSUME NEW doc, Stores(doc), StoredOf(Normalize(doc)) PROVE LoadInv'
      <3> DEFINE d == Normalize(doc)
      <3>1. Expandable(d) /\ file' = d /\ trajectory' = Loaded(d) /\ sent' = sent /\ d # NoFile
        BY <2>2, StoredFile DEF Stores
      <3>2. /\ Loaded(d) \in Seq(Items) /\ Chained(Loaded(d), SafeMoves)
            /\ UniqueIds(sent.nodes) => Stored(d) /\ Loaded(d) = Trajectory(d)
        BY <2>1, <2>2, <3>1, LoadedFacts
      <3> HIDE DEF d
      <3>3. SafeMoves' = SafeMoves
        BY <3>1 DEF SafeMoves, Marked, Cells
      <3>4. trajectory' \in Seq(Items) /\ Chained(trajectory, SafeMoves)'
        BY <3>1, <3>2, <3>3 DEF Chained
      <3>5. UniqueIds(sent.nodes) => Stored(file)' /\ trajectory' = Trajectory(file')
        BY <3>1, <3>2 DEF Stored
      <3> QED
        BY <3>1, <3>4, <3>5 DEF LoadInv
    <2>3. CASE Save
      <3>1. Stores(sent) /\ StoredOf(Normalize(sent))
        BY <2>1, <2>3, SentIsStored DEF Save
      <3> QED
        BY <2>2, <3>1
    <2>4. CASE SaveAgain
      <3>1. Stores(Normalize(file)) /\ StoredOf(file)
        BY <2>4 DEF SaveAgain, StoreInv
      <3>2. StoredOf(Normalize(Normalize(file)))
        BY <2>1, <3>1, StoredAgain
      <3> QED
        BY <2>2, <3>1, <3>2
    <2>5. CASE UNCHANGED <<sent, file, trajectory>>
      <3>1. Stored(file)' <=> Stored(file)
        BY <2>5 DEF Stored
      <3>2. SafeMoves' = SafeMoves
        BY <2>5 DEF SafeMoves, Marked, Cells
      <3>3. Chained(trajectory, SafeMoves)' <=> Chained(trajectory, SafeMoves)
        BY <2>5, <3>2 DEF Chained
      <3> QED
        BY <2>5, <3>1, <3>3 DEF LoadInv
    <2> QED
      BY <2>3, <2>4, <2>5 DEF Next, StartupTravel, HomeTravel, MoveTo, vars
  <1> QED
    BY <1>1, <1>2, StoreInvariance, PTL DEF Spec

\* The robot only makes moves that the client marked safe, whatever the ids of the
\* nodes, or, without a matrix, moves between neighbouring nodes.
THEOREM MovesAreSafeCorrect == Spec => []MovesAreSafe
  <1>1. LoadInv => MovesAreSafe
    <2> SUFFICES ASSUME LoadInv, NEW i \in 1..(Len(trajectory) - 1)
                 PROVE  LET p == trajectory[i].point
                            q == trajectory[i + 1].point
                        IN \/ p = q
                           \/ IF Marked THEN <<p, q>> \in Cells
                              ELSE UniqueIds(sent.nodes) => trajectory[i].node # 0 /\ trajectory[i + 1].node # 0
      BY DEF MovesAreSafe, Marked
    <2>1. <<trajectory[i], trajectory[i + 1]>> \in SafeMoves
      BY DEF LoadInv, Chained
    <2> QED
      BY <2>1 DEF SafeMoves
  <1> QED
    BY <1>1, LoadInvariance, PTL

-----------------------------------------------------------------------------
(* Types. *)

LEMMA ZeroIsAngle == 0 \in Angles
  BY RevAssumption DEF Angles

\* The last node of a goal's id; the goal itself, if each node has an id of its own.
LEMMA NamedFacts ==
  ASSUME NEW M \in Seq(Nodes), NEW goal \in ToSet(M)
  PROVE  /\ Named(M, goal.id) \in ToSet(M) /\ Named(M, goal.id) \in Nodes /\ goal \in Nodes
         /\ UniqueIds(M) => Named(M, goal.id) = goal
  <1> DEFINE S == {n \in ToSet(M) : n.id = goal.id}
             x == Named(M, goal.id)
  <1>1. x = Last(Those(M, S))
    BY DEF Named
  <1>2. goal \in ToSet(M) \cap S
    OBVIOUS
  <1>3. x \in ToSet(M) \cap S
    BY <1>1, <1>2, ThoseEnds
  <1>4. ToSet(M) \subseteq Nodes
    BY DEF ToSet
  <1> HIDE DEF x
  <1>5. UniqueIds(M) => x = goal
    BY <1>3, UniqueForms DEF IdsTell
  <1> QED
    BY <1>3, <1>4, <1>5 DEF x

LEMMA PlanAngles ==
  ASSUME NEW doc, doc.nodes \in Seq(Nodes), NEW route \in Seq(Nat), route # <<>>,
         NEW goal \in ToSet(doc.nodes)
  PROVE  \A i \in 1..Len(route) : /\ TravelPlan(doc, route, goal)[i].angle \in Angles
                                  /\ [TravelPlan(doc, route, goal)[i] EXCEPT !.angle = 0].angle = 0
  <1> DEFINE named == Named(doc.nodes, goal.id)
             at(p) == IF p = named.point THEN <<named>>
                 ELSE Those(doc.nodes, {n \in ToSet(doc.nodes) : n.point = p})
             entry(p) == IF at(p) = <<>> THEN 0 ELSE Entry(Last(at(p)))
             exit(p) == IF at(p) = <<>> THEN 0 ELSE Exit(Last(at(p)))
             start == exit(Head(route))
             end == entry(goal.point)
             onTheWay == Interpolate(start, end, Len(route) - 2)
             angle(i) == IF i \in 2..(Len(route) - 1) THEN onTheWay[i - 1] ELSE entry(route[i])
             step(i) == [point |-> route[i], angle |-> angle(i)]
             n == Len(route)
             plan == [i \in 1..n |-> step(i)]
  <1>n. named \in Nodes
    BY NamedFacts
  <1>1. n \in Nat /\ n > 0 /\ DOMAIN route = 1..n
    OBVIOUS
  <1>2. TravelPlan(doc, route, goal) = plan
    BY <1>1 DEF TravelPlan
  <1>3. ASSUME NEW p, at(p) # <<>> PROVE Last(at(p)) \in Nodes
    <2>1. CASE p = named.point
      <3>1. at(p) = <<named>>
        BY <2>1
      <3> HIDE DEF named, at
      <3>2. Last(<<named>>) = named
        BY DEF Last
      <3> QED
        BY <1>n, <3>1, <3>2
    <2>2. CASE p # named.point
      <3> DEFINE S == {x \in ToSet(doc.nodes) : x.point = p}
      <3>1. at(p) = Those(doc.nodes, S)
        BY <2>2
      <3> HIDE DEF S, at
      <3>2. Last(at(p)) \in ToSet(doc.nodes)
        BY <1>3, <3>1, ThoseEnds
      <3>3. ToSet(doc.nodes) \subseteq Nodes
        BY DEF ToSet
      <3> QED
        BY <3>2, <3>3
    <2> QED
      BY <2>1, <2>2
  <1> HIDE DEF at
  <1>4. ASSUME NEW p PROVE entry(p) \in Angles /\ exit(p) \in Angles
    <2>1. CASE at(p) = <<>>
      BY <2>1, ZeroIsAngle
    <2>2. CASE at(p) # <<>>
      <3>1. Last(at(p)) \in Nodes
        BY <1>3, <2>2
      <3>2. Entry(Last(at(p))) \in Angles /\ Exit(Last(at(p))) \in Angles
        BY <3>1, NodeAnglesType
      <3> QED
        BY <2>2, <3>2
    <2> QED
      BY <2>1, <2>2
  <1>5. start \in Angles /\ end \in Angles
    BY <1>4
  <1> HIDE DEF entry, exit, start, end
  <1>6. ASSUME NEW i \in 1..n PROVE angle(i) \in Angles
    <2>1. CASE i \in 2..(n - 1)
      <3> DEFINE k == n - 2
      <3>1. k \in Nat /\ i - 1 \in 1..k
        BY <1>1, <2>1
      <3>2. Interpolate(start, end, k) \in [1..k -> Angles]
        BY <1>5, <3>1, InterpolateType
      <3> HIDE DEF k
      <3>3. Interpolate(start, end, k)[i - 1] \in Angles
        BY <3>1, <3>2
      <3> QED
        BY <2>1, <3>3 DEF k
    <2>2. CASE i \notin 2..(n - 1)
      BY <1>4, <2>2
    <2> QED
      BY <2>1, <2>2
  <1> HIDE DEF angle
  <1>7. \A i \in 1..n : step(i).angle = angle(i) /\ [step(i) EXCEPT !.angle = 0].angle = 0
    OBVIOUS
  <1>8. \A i \in 1..n : plan[i] = step(i)
    OBVIOUS
  <1> HIDE DEF plan, step
  <1>9. \A i \in 1..n : plan[i].angle \in Angles /\ [plan[i] EXCEPT !.angle = 0].angle = 0
    BY <1>6, <1>7, <1>8
  <1> QED
    BY <1>2, <1>9

\* A move of a travel is one of its plan.
LEMMA HopsOfPlan ==
  ASSUME NEW plan, NEW n \in Nat, n > 0, NEW Y, plan \in Seq(Y), Len(plan) = n, NEW starts, NEW goal
  PROVE  \A i \in DOMAIN Hops(plan, starts, goal) : \E j \in 1..n : Hops(plan, starts, goal)[i] = plan[j]
  <1> DEFINE hops == Hops(plan, starts, goal)
  <1> SUFFICES ASSUME NEW i \in DOMAIN hops PROVE \E j \in 1..n : hops[i] = plan[j]
    OBVIOUS
  <1>1. CASE Contains(starts, goal.point) /\ goal.type = "basic_scan"
    <2> DEFINE last == plan[n]
    <2>1. hops = <<last>>
      BY <1>1 DEF Hops, Last
    <2>2. n \in 1..n
      OBVIOUS
    <2> HIDE DEF last, hops
    <2>3. hops[i] = last
      BY <2>1
    <2> QED
      BY <2>2, <2>3 DEF last
  <1>2. CASE Contains(starts, goal.point) /\ goal.type # "basic_scan"
    <2>1. hops = <<>>
      BY <1>2 DEF Hops
    <2> HIDE DEF hops
    <2> QED
      BY <2>1
  <1>3. CASE ~Contains(starts, goal.point)
    <2>1. hops = Tail(plan)
      BY <1>3 DEF Hops
    <2> HIDE DEF hops
    <2>2. plan # <<>>
      OBVIOUS
    <2>3. i \in 1..(n - 1) /\ hops[i] = plan[i + 1]
      BY <2>1, <2>2
    <2>4. i + 1 \in 1..n
      BY <2>3
    <2> QED
      BY <2>3, <2>4
  <1> QED
    BY <1>1, <1>2, <1>3

AnglesOfTravel == travel # NoTravel => \A i \in DOMAIN travel.hops : travel.hops[i].angle \in Angles

LEMMA TravelAngles ==
  ASSUME StoreInv, file # NoFile, NEW kind, NEW goal \in ToSet(Planned.nodes), TravelTo(Planned, kind, goal)
  PROVE  AnglesOfTravel'
  <1>1. PICK starts \in Starts :
           LET route == FindRoute(Planned, starts, goal.point)
               hops == Hops(TravelPlan(Planned, route, goal), starts, goal)
           IN travel' = [kind |-> kind, goal |-> goal, starts |-> starts, route |-> route,
                         hops |-> IF route = <<>> THEN <<>>
                                  ELSE [i \in DOMAIN hops |->
                                       IF TurnsToZero(kind, goal) THEN [hops[i] EXCEPT !.angle = 0] ELSE hops[i]]]
    BY DEF TravelTo
  <1> DEFINE route == FindRoute(Planned, starts, goal.point)
             plan == TravelPlan(Planned, route, goal)
             hops == Hops(plan, starts, goal)
             moves == IF route = <<>> THEN <<>>
                      ELSE [i \in DOMAIN hops |->
                               IF TurnsToZero(kind, goal) THEN [hops[i] EXCEPT !.angle = 0] ELSE hops[i]]
  <1>2. travel'.hops = moves
    BY <1>1
  <1>3. /\ sent \in Typed /\ StoredOf(Planned) /\ StoredOf(file)
        /\ Planned.nodes \in Seq(Nodes) /\ Planned.points \in Seq(Nat)
    BY PlannedFacts DEF Typed
  <1>4. Planned.nodes \in Seq(Nodes) /\ file.points \in Seq(Nat)
    BY <1>3 DEF StoredOf
  <1>6. Searched(Planned, starts)
    BY <1>3, <1>4, StartsType, FileSearched
  <1> HIDE DEF route, plan, hops
  <1>7. route # <<>> => route \in Seq(Nat)
    BY <1>6, RouteFacts DEF route, Way, Leads
  <1>8. ASSUME route # <<>>, NEW i \in DOMAIN moves PROVE moves[i].angle \in Angles
    <2> DEFINE n == Len(route)
    <2>1. Plans(plan, route) /\ n \in Nat /\ n > 0
      BY <1>7, <1>8, PlanFacts DEF plan
    <2>2. Len(plan) = n /\ \E Y : plan \in Seq(Y)
      BY <2>1 DEF Plans
    <2>3. PICK Y : plan \in Seq(Y)
      BY <2>2
    <2>4. \A j \in 1..n : plan[j].angle \in Angles /\ [plan[j] EXCEPT !.angle = 0].angle = 0
      BY <1>4, <1>7, <1>8, PlanAngles DEF plan
    <2>5. i \in DOMAIN hops
          /\ moves[i] = IF TurnsToZero(kind, goal) THEN [hops[i] EXCEPT !.angle = 0] ELSE hops[i]
      BY <1>8
    <2> HIDE DEF n, moves
    <2>6. PICK j \in 1..n : hops[i] = plan[j]
      BY <2>1, <2>2, <2>3, <2>5, HopsOfPlan DEF hops
    <2> QED
      BY <2>4, <2>5, <2>6, ZeroIsAngle
  <1>9. \A i \in DOMAIN moves : moves[i].angle \in Angles
    <2>1. route = <<>> => DOMAIN moves = {}
      OBVIOUS
    <2> HIDE DEF moves
    <2> QED
      BY <1>8, <2>1
  <1> HIDE DEF moves
  <1> QED
    BY <1>2, <1>9 DEF AnglesOfTravel

\* Every angle the table is sent to, on a run or a travel, is one of the encoder's.
THEOREM TypeCorrect == Spec => []TypeOK
  <1>1. Init => TravelInv /\ AnglesOfTravel
    BY DEF Init, TravelInv, AnglesOfTravel
  <1>2. StoreInv /\ StoreInv' /\ TravelInv /\ AnglesOfTravel /\ [Next]_vars => TravelInv' /\ AnglesOfTravel'
    <2> SUFFICES ASSUME StoreInv, StoreInv', TravelInv, AnglesOfTravel, [Next]_vars
                 PROVE  TravelInv' /\ AnglesOfTravel'
      OBVIOUS
    <2>n. file # NoFile => Planned.nodes \in Seq(Nodes) /\ Ordered(Planned.nodes) = Planned.nodes
      BY PlannedFacts DEF Typed
    <2>1. CASE Save
      <3>1. travel = NoTravel /\ travel' = NoTravel
        BY <2>1 DEF Save, Stores, TravelInv
      <3> QED
        BY <3>1 DEF TravelInv, AnglesOfTravel
    <2>2. CASE SaveAgain
      <3>1. file # NoFile /\ travel' = travel
        BY <2>2 DEF SaveAgain, Stores
      <3>2. file' # NoFile
        BY <2>2, StoredFile DEF SaveAgain, Stores
      <3> QED
        BY <3>1, <3>2 DEF TravelInv, AnglesOfTravel
    <2>3. CASE StartupTravel
      <3> DEFINE scans == Scans(Planned.nodes)
      <3>1. file # NoFile /\ file' = file
        BY <2>3 DEF StartupTravel
      <3>2. scans # <<>> /\ TravelTo(Planned, "startup", Head(scans))
        BY <2>3, <2>n, <3>1 DEF StartupTravel
      <3>3. Head(scans) \in ToSet(Planned.nodes)
        BY <2>n, <3>1, <3>2, ThoseEnds DEF Scans
      <3> HIDE DEF scans
      <3> QED
        BY <3>1, <3>2, <3>3, TravelAngles DEF TravelInv
    <2>4. CASE HomeTravel
      <3> DEFINE homes == Homes(Planned.nodes)
      <3>1. file # NoFile /\ file' = file /\ homes # <<>> /\ TravelTo(Planned, "home", Head(homes))
        BY <2>4 DEF HomeTravel
      <3>2. Head(homes) \in ToSet(Planned.nodes)
        BY <2>n, <3>1, ThoseEnds DEF Homes
      <3> HIDE DEF homes
      <3> QED
        BY <3>1, <3>2, TravelAngles DEF TravelInv
    <2>5. CASE MoveTo
      <3>1. file # NoFile /\ file' = file
        BY <2>5 DEF MoveTo
      <3>2. PICK i \in DOMAIN Planned.nodes : TravelTo(Planned, "move", Planned.nodes[i])
        BY <2>5 DEF MoveTo
      <3>3. Planned.nodes[i] \in ToSet(Planned.nodes)
        BY DEF ToSet
      <3> QED
        BY <3>1, <3>2, <3>3, TravelAngles DEF TravelInv
    <2>6. CASE UNCHANGED vars
      BY <2>6 DEF vars, TravelInv, AnglesOfTravel
    <2> QED
      BY <2>1, <2>2, <2>3, <2>4, <2>5, <2>6 DEF Next
  <1>3. LoadInv => \A i \in DOMAIN trajectory : trajectory[i].angle \in Angles
    <2> SUFFICES ASSUME LoadInv, NEW i \in DOMAIN trajectory PROVE trajectory[i].angle \in Angles
      OBVIOUS
    <2>1. trajectory[i] \in Items
      BY DEF LoadInv
    <2> QED
      BY <2>1 DEF Items
  <1>4. LoadInv /\ AnglesOfTravel => TypeOK
    BY <1>3 DEF TypeOK, AnglesOfTravel
  <1> QED
    BY <1>1, <1>2, <1>4, StoreInvariance, LoadInvariance, PTL DEF Spec

-----------------------------------------------------------------------------
(* Where a run begins. *)

\* The first entry of s that is in S is x.
Finds(s, S, x) == Those(s, S) # <<>> /\ Head(Those(s, S)) = x

LEMMA HeadConcat ==
  ASSUME NEW X, NEW s \in Seq(X), NEW t \in Seq(X)
  PROVE  /\ s = <<>> => s \o t = t
         /\ s # <<>> => s \o t # <<>> /\ Head(s \o t) = Head(s)
  OBVIOUS

LEMMA FindsConcat ==
  ASSUME NEW X, NEW s \in Seq(X), NEW t \in Seq(X), NEW S, NEW x
  PROVE  /\ Finds(s, S, x) => Finds(s \o t, S, x)
         /\ Those(s, S) = <<>> /\ Finds(t, S, x) => Finds(s \o t, S, x)
         /\ Those(s, S) = <<>> /\ Those(t, S) = <<>> => Those(s \o t, S) = <<>>
  <1> DEFINE a == Those(s, S)
             b == Those(t, S)
  <1>1. a \in Seq(X) /\ b \in Seq(X) /\ Those(s \o t, S) = a \o b
    <2>1. a \in Seq(X)
      BY ThoseType
    <2>2. b \in Seq(X)
      BY ThoseType
    <2>3. Those(s \o t, S) = a \o b
      BY ThoseConcat
    <2> QED
      BY <2>1, <2>2, <2>3
  <1> HIDE DEF a, b
  <1>2. /\ a = <<>> => a \o b = b
        /\ a # <<>> => a \o b # <<>> /\ Head(a \o b) = Head(a)
    BY <1>1, HeadConcat
  <1> QED
    BY <1>1, <1>2 DEF Finds, a, b

\* The first entry of a part with no such entry before it is the first of the whole.
LEMMA FlattenFinds ==
  ASSUME NEW X, NEW seqs \in Seq(Seq(X)), NEW S, NEW x, NEW m \in 1..Len(seqs),
         \A i \in 1..(m - 1) : Those(seqs[i], S) = <<>>, Finds(seqs[m], S, x)
  PROVE  Finds(FlattenSeq(seqs), S, x)
  <1> DEFINE n == Len(seqs) - 1
  <1>1. n \in Nat /\ Len(seqs) > 0 /\ Len(seqs) = n + 1 /\ \A i \in 1..(n + 1) : seqs[i] \in Seq(X)
    OBVIOUS
  <1>2. PICK f \in [0..n -> Seq(X)] : FlattensBy(f, seqs)
    BY <1>1, FlattenStepwise
  <1> HIDE DEF n
  <1>3. /\ f[0] = seqs[1]
        /\ \A k \in 1..n : f[k] = f[k - 1] \o seqs[k + 1]
        /\ FlattenSeq(seqs) = f[n]
    BY <1>2 DEF FlattensBy, n
  <1>m. m \in Nat /\ m > 0 /\ m <= n + 1
    BY <1>1
  <1> DEFINE Good(k) == IF k + 1 < m THEN Those(f[k], S) = <<>> ELSE Finds(f[k], S, x)
             K == {k \in 0..n : Good(k)}
  <1>4. 0 \in K
    <2>1. 0 \in 0..n /\ 0 + 1 = 1
      BY <1>1
    <2>2. CASE 1 < m
      <3>1. 1 \in 1..(m - 1)
        BY <1>m, <2>2
      <3> QED
        BY <1>3, <2>1, <2>2, <3>1
    <2>3. CASE ~(1 < m)
      <3>1. m = 1
        BY <1>m, <2>3
      <3> QED
        BY <1>3, <2>1, <2>3, <3>1
    <2> QED
      BY <2>2, <2>3
  <1>5. \A k \in 0..(n - 1) : k \in K => k + 1 \in K
    <2> SUFFICES ASSUME NEW k \in 0..(n - 1), k \in K PROVE k + 1 \in K
      OBVIOUS
    <2> DEFINE s == f[k]
               t == seqs[k + 2]
    <2>1. k + 1 \in 1..n /\ k + 1 \in 0..n /\ (k + 1) - 1 = k /\ (k + 1) + 1 = k + 2 /\ k \in 0..n
          /\ k + 2 \in 1..(n + 1) /\ k \in Nat
      BY <1>1
    <2>2. f[k + 1] = s \o t /\ s \in Seq(X) /\ t \in Seq(X)
      BY <1>1, <1>2, <1>3, <2>1
    <2>3. Good(k)
      OBVIOUS
    <2>4. /\ Finds(s, S, x) => Finds(s \o t, S, x)
          /\ Those(s, S) = <<>> /\ Finds(t, S, x) => Finds(s \o t, S, x)
          /\ Those(s, S) = <<>> /\ Those(t, S) = <<>> => Those(s \o t, S) = <<>>
      BY <2>2, FindsConcat
    <2>5. CASE k + 2 < m
      <3>1. k + 2 \in 1..(m - 1) /\ k + 1 < m
        BY <1>m, <2>1, <2>5
      <3>2. Those(t, S) = <<>> /\ Those(s, S) = <<>>
        BY <2>3, <3>1
      <3>3. Good(k + 1)
        BY <2>1, <2>2, <2>4, <2>5, <3>2
      <3> HIDE DEF Good
      <3> QED
        BY <2>1, <3>3
    <2>6. CASE k + 2 = m
      <3>1. k + 1 < m /\ ~(k + 2 < m)
        BY <1>m, <2>1, <2>6
      <3>2. Finds(t, S, x) /\ Those(s, S) = <<>>
        BY <2>3, <2>6, <3>1
      <3>3. Good(k + 1)
        BY <2>1, <2>2, <2>4, <3>1, <3>2
      <3> HIDE DEF Good
      <3> QED
        BY <2>1, <3>3
    <2>7. CASE k + 2 > m
      <3>1. ~(k + 1 < m) /\ ~(k + 2 < m)
        BY <1>m, <2>1, <2>7
      <3>2. Finds(s, S, x)
        BY <2>3, <3>1
      <3>3. Good(k + 1)
        BY <2>1, <2>2, <2>4, <3>1, <3>2
      <3> HIDE DEF Good
      <3> QED
        BY <2>1, <3>3
    <2>8. k + 2 < m \/ k + 2 = m \/ k + 2 > m
      BY <1>m, <2>1
    <2> QED
      BY <2>5, <2>6, <2>7, <2>8
  <1>6. \A k \in 0..n : k \in K
    <2> HIDE DEF K
    <2> QED
      BY <1>1, <1>4, <1>5, Induction
  <1>7. n \in 0..n /\ ~(n + 1 < m)
    BY <1>1, <1>m
  <1> QED
    BY <1>3, <1>6, <1>7

\* The items of scans, among all.
ScanNodes == {n \in ToSet(Wanted) : IsScan(n)}
ScanItems == {t \in Items : \E n \in ScanNodes : n.id = t.node}

\* A stored node has the id and the type of one the client sent.
LEMMA StoredNodesAreSent ==
  ASSUME IsDocument(sent), NEW m \in ToSet(NormalNodes(sent))
  PROVE  \E n \in ToSet(Wanted) : n.id = m.id /\ n.type = m.type
  <1> DEFINE K == Those(sent.nodes, Stays(sent.nodes))
             L == Strip(sent.nodes)
  <1>1. sent.nodes \in Seq(Nodes) /\ UniqueIds(sent.nodes)
    BY DEF IsDocument, Typed
  <1>2. K = Wanted
    BY DEF Wanted, Stays
  <1>3. Stripped(L) /\ UniqueIds(L)
    BY <1>1, StripFacts
  <1>4. L = IF K # sent.nodes \/ ~HasLinks(K) THEN LinkChain(K) ELSE K
    BY StripForm
  <1>5. K \in Seq(Nodes)
    BY <1>1, ThoseType
  <1> HIDE DEF K, L
  <1>6. ToSet(NormalNodes(sent)) = ToSet(L)
    <2>1. L \in Seq(Nodes) /\ UniqueIds(L)
      BY <1>3 DEF Stripped
    <2> QED
      BY <2>1, OrderedFacts DEF NormalNodes, L
  <1>7. PICK i \in DOMAIN L : m = L[i]
    BY <1>6 DEF ToSet
  <1>8. i \in DOMAIN K /\ L[i].id = K[i].id /\ L[i].type = K[i].type
    <2>1. L = LinkChain(K) \/ L = K
      BY <1>4
    <2>2. /\ LinkChain(K) \in Seq(Nodes) /\ Len(LinkChain(K)) = Len(K)
          /\ \A k \in DOMAIN K : LinkChain(K)[k].id = K[k].id /\ LinkChain(K)[k].type = K[k].type
      BY <1>5, LinkFacts
    <2>3. DOMAIN LinkChain(K) = DOMAIN K
      BY <1>5, <2>2
    <2> QED
      BY <1>7, <2>1, <2>2, <2>3
  <1>9. K[i] \in ToSet(Wanted)
    BY <1>2, <1>8 DEF ToSet
  <1> QED
    BY <1>7, <1>8, <1>9

\* Whether a stored node is a scan, its id tells.
LEMMA ScanById ==
  ASSUME IsDocument(sent), NEW m \in ToSet(NormalNodes(sent))
  PROVE  IsScan(m) <=> \E n \in ScanNodes : n.id = m.id
  <1>1. PICK n \in ToSet(Wanted) : n.id = m.id /\ n.type = m.type
    BY StoredNodesAreSent
  <1>2. IsScan(n) <=> IsScan(m)
    BY <1>1 DEF IsScan
  <1>3. \A k \in ToSet(Wanted) : k.id = n.id => k = n
    <2>1. sent.nodes \in Seq(Nodes) /\ IdsTell(sent.nodes)
      BY UniqueForms DEF IsDocument, Typed
    <2>2. ToSet(Wanted) \subseteq ToSet(sent.nodes)
      <3>1. ToSet(Wanted) = ToSet(sent.nodes) \cap {k \in ToSet(sent.nodes) : k.type # "transition"}
        BY <2>1, ThoseRange DEF Wanted
      <3> QED
        BY <3>1
    <2> QED
      BY <2>1, <2>2 DEF IdsTell
  <1> QED
    BY <1>1, <1>2, <1>3 DEF ScanNodes

\* The stops of a scan are items of scans, those of another node are not.
LEMMA StopsFound ==
  ASSUME IsDocument(sent), NEW n \in Nodes, n \in ToSet(NormalNodes(sent))
  PROVE  /\ ~IsScan(n) => Those(Stops(n), ScanItems) = <<>>
         /\ IsScan(n) => Finds(Stops(n), ScanItems, Stops(n)[1])
  <1> DEFINE s == Stops(n)
  <1>1. /\ s \in Seq(Items) /\ s # <<>>
        /\ \A k \in 1..Len(s) : s[k] \in Items /\ s[k].node = n.id
    BY StopsFacts
  <1> HIDE DEF s
  <1>2. 1 \in 1..Len(s) /\ DOMAIN s = 1..Len(s)
    BY <1>1
  <1>3. ASSUME ~IsScan(n) PROVE Those(s, ScanItems) = <<>>
    <2>1. ~\E k \in ScanNodes : k.id = n.id
      BY <1>3, ScanById
    <2>2. ToSet(s) \cap ScanItems = {}
      BY <1>1, <1>2, <2>1 DEF ToSet, ScanItems
    <2> QED
      BY <1>1, <2>2, ThoseAll
  <1>4. ASSUME IsScan(n) PROVE Finds(s, ScanItems, s[1])
    <2>1. \E k \in ScanNodes : k.id = n.id
      BY <1>4, ScanById
    <2>2. s[1] \in ScanItems
      BY <1>1, <1>2, <2>1 DEF ScanItems
    <2> QED
      BY <1>1, <2>2, ThoseFirst DEF Finds
  <1> QED
    BY <1>3, <1>4 DEF s

\* The transition before a node has no items of scans.
LEMMA TransitionsAreNoScans ==
  ASSUME NEW doc, NEW from, NEW to, Transitions(doc, from, to) \in Seq(Items), IsDocument(sent)
  PROVE  Those(Transitions(doc, from, to), ScanItems) = <<>>
  <1> DEFINE T == Transitions(doc, from, to)
             points == Between(doc, from, to)
  <1>1. T = [i \in DOMAIN points |-> [point |-> points[i], node |-> 0,
                                      angle |-> Interpolate(Exit(from), Entry(to), Len(points))[i]]]
    BY DEF Transitions
  <1> HIDE DEF points
  <1>2. \A i \in DOMAIN T : T[i].node = 0
    BY <1>1
  <1>3. \A n \in ScanNodes : n.id # 0
    <2>1. sent.nodes \in Seq(Nodes)
      BY DEF IsDocument, Typed
    <2>2. ToSet(Wanted) \subseteq ToSet(sent.nodes) /\ ToSet(sent.nodes) \subseteq Nodes
      <3>1. ToSet(Wanted) = ToSet(sent.nodes) \cap {k \in ToSet(sent.nodes) : k.type # "transition"}
        BY <2>1, ThoseRange DEF Wanted
      <3>2. ToSet(sent.nodes) \subseteq Nodes
        BY <2>1 DEF ToSet
      <3> QED
        BY <3>1, <3>2
    <2> QED
      BY <2>2 DEF ScanNodes, Nodes
  <1> HIDE DEF T
  <1>4. ToSet(T) \cap ScanItems = {}
    BY <1>2, <1>3 DEF ToSet, ScanItems
  <1> QED
    BY <1>4, ThoseAll DEF T

LEMMA PartFound ==
  ASSUME NEW doc, Stored(doc), NEW i \in 1..Len(doc.nodes)
  PROVE  /\ Part(doc, i) \in Seq(Items)
         /\ ~IsScan(doc.nodes[i]) => Those(Part(doc, i), ScanItems) = <<>>
         /\ IsScan(doc.nodes[i]) => Finds(Part(doc, i), ScanItems, Stops(doc.nodes[i])[1])
  <1> DEFINE n == doc.nodes[i]
             s == Stops(n)
  <1>1. IsDocument(sent) /\ doc.nodes = NormalNodes(sent) /\ doc.nodes \in Seq(Nodes)
    <2>1. IsDocument(sent) /\ doc = Normalize(sent)
      BY DEF Stored
    <2>2. doc.nodes = NormalNodes(sent)
      BY <2>1, PairsAgain DEF IsDocument
    <2> QED
      BY <2>1, <2>2, StoredFacts
  <1>2. n \in Nodes /\ n \in ToSet(NormalNodes(sent))
    BY <1>1 DEF ToSet
  <1>3. /\ ~IsScan(n) => Those(s, ScanItems) = <<>>
        /\ IsScan(n) => Finds(s, ScanItems, s[1])
        /\ s \in Seq(Items)
    BY <1>1, <1>2, StopsFound, StopsFacts
  <1>4. Part(doc, i) \in Seq(Items)
    BY StoredIsDriven, PartsAreSafe DEF PartIsSafe
  <1>5. CASE i = 1
    <2>1. Part(doc, i) = <<>> \o s
      BY <1>5 DEF Part
    <2> HIDE DEF s, n
    <2>2. Part(doc, i) = s
      BY <1>3, <2>1
    <2> QED
      BY <1>3, <1>4, <2>2 DEF s, n
  <1>6. CASE i # 1
    <2> DEFINE from == doc.nodes[i - 1]
               T == Transitions(doc, from, n)
    <2>1. from \in Nodes /\ i \in 2..Len(doc.nodes)
      <3>1. i - 1 \in 1..Len(doc.nodes) /\ i \in 2..Len(doc.nodes)
        BY <1>1, <1>6
      <3> QED
        BY <1>1, <3>1
    <2>2. Part(doc, i) = T \o s
      BY <1>6 DEF Part
    <2>3. T \in Seq(Items)
      <3>1. from.point \in Nat
        BY <2>1 DEF Nodes
      <3>2. Searched(doc, <<from.point>>)
        BY <3>1, StoredFacts
      <3>3. HasDirect(doc, from.point, n.point) \/ FindRoute(doc, <<from.point>>, n.point) # <<>>
        BY <2>1, StoredFacts
      <3> HIDE DEF T, n, from
      <3>4. Crosses(T, doc, from.point, n.point)
        BY <1>2, <2>1, <3>2, <3>3, TransitionsFacts DEF T
      <3> QED
        BY <3>4 DEF Crosses
    <2>4. Those(T, ScanItems) = <<>>
      BY <1>1, <2>3, TransitionsAreNoScans
    <2> HIDE DEF T, s, n, from
    <2>5. /\ Finds(s, ScanItems, s[1]) => Finds(T \o s, ScanItems, s[1])
          /\ Those(s, ScanItems) = <<>> => Those(T \o s, ScanItems) = <<>>
      BY <1>3, <2>3, <2>4, FindsConcat
    <2> QED
      BY <1>3, <1>4, <2>2, <2>5 DEF s, n
  <1> QED
    BY <1>5, <1>6

\* The first scan of the trajectory is the first stop of the first scan node.
LEMMA TrajectoryFinds ==
  ASSUME NEW doc, Stored(doc), NEW goal,
         Finds(doc.nodes, {n \in ToSet(doc.nodes) : IsScan(n)}, goal)
  PROVE  Finds(Trajectory(doc), ScanItems, Stops(goal)[1]) /\ goal \in Nodes
  <1> DEFINE n == Len(doc.nodes)
             parts == [i \in DOMAIN doc.nodes |-> Part(doc, i)]
             S == {k \in ToSet(doc.nodes) : IsScan(k)}
  <1>1. doc.nodes \in Seq(Nodes) /\ Ordered(doc.nodes) = doc.nodes
    BY StoredFacts
  <1>2. n \in Nat /\ DOMAIN doc.nodes = 1..n
    BY <1>1
  <1> HIDE DEF S
  <1>3. Those(doc.nodes, S) # <<>> /\ Head(Those(doc.nodes, S)) = goal
    BY DEF Finds, S
  <1>4. PICK m \in 1..n : /\ doc.nodes[m] = goal /\ doc.nodes[m] \in S
                          /\ \A j \in 1..(m - 1) : doc.nodes[j] \notin S
    BY <1>1, <1>3, ThoseHead
  <1> HIDE DEF n
  <1>5. \A j \in 1..n : doc.nodes[j] \in S <=> IsScan(doc.nodes[j])
    BY <1>2 DEF S, ToSet
  <1>6. \A i \in 1..n : Part(doc, i) \in Seq(Items)
    BY PartFound DEF n
  <1>7. parts \in [1..n -> Seq(Items)] /\ \A i \in 1..n : parts[i] = Part(doc, i)
    BY <1>2, <1>6
  <1> HIDE DEF parts
  <1>8. parts \in Seq(Seq(Items)) /\ Len(parts) = n
    BY <1>2, <1>7
  <1>9. ASSUME NEW i \in 1..(m - 1) PROVE Those(parts[i], ScanItems) = <<>>
    <2>1. i \in 1..n
      BY <1>2
    <2>2. ~IsScan(doc.nodes[i])
      BY <1>4, <1>5, <2>1
    <2> QED
      BY <1>7, <2>1, <2>2, PartFound DEF n
  <1>10. Finds(parts[m], ScanItems, Stops(goal)[1])
    <2>1. IsScan(doc.nodes[m])
      BY <1>4, <1>5
    <2>2. Finds(Part(doc, m), ScanItems, Stops(doc.nodes[m])[1])
      BY <2>1, PartFound DEF n
    <2> QED
      BY <1>4, <1>7, <2>2
  <1>11. Finds(FlattenSeq(parts), ScanItems, Stops(goal)[1])
    BY <1>8, <1>9, <1>10, FlattenFinds
  <1>12. Trajectory(doc) = FlattenSeq(parts)
    BY <1>1, TrajectoryForm DEF parts
  <1>13. goal \in Nodes
    BY <1>1, <1>2, <1>4
  <1> QED
    BY <1>11, <1>12, <1>13

\* The first stop of a node is at its point, of a basic scan at its angle.
LEMMA FirstStop ==
  ASSUME NEW n \in Nodes
  PROVE  /\ Stops(n)[1].point = n.point
         /\ n.type = "basic_scan" => Stops(n)[1].angle = Entry(n)
  <1>1. /\ Stops(n) \in Seq(Items) /\ Stops(n) # <<>>
        /\ \A k \in 1..Len(Stops(n)) : Stops(n)[k].point = n.point
    BY StopsFacts
  <1>2. 1 \in 1..Len(Stops(n))
    BY <1>1
  <1>3. ASSUME n.type = "basic_scan" PROVE Stops(n)[1].angle = Entry(n)
    <2> DEFINE a == NodeAngles(n)
               c == Clamp(n.start)
    <2>1. a = <<c>>
      BY <1>3 DEF NodeAngles
    <2>2. Stops(n) = [k \in DOMAIN a |-> [point |-> n.point, node |-> n.id, angle |-> a[k]]]
      BY DEF Stops
    <2> HIDE DEF a, c
    <2>3. 1 \in DOMAIN a /\ a[1] = c
      BY <2>1
    <2> QED
      BY <2>2, <2>3 DEF Entry, c
  <1> QED
    BY <1>1, <1>2, <1>3

\* The angle that a travel's plan ends with.
LEMMA PlanEnds ==
  ASSUME NEW doc, NEW route \in Seq(Nat), route # <<>>, NEW goal, Last(route) = goal.point,
         Named(doc.nodes, goal.id) = goal
  PROVE  TravelPlan(doc, route, goal)[Len(route)].angle = Entry(goal)
  <1> DEFINE named == Named(doc.nodes, goal.id)
             at(p) == IF p = named.point THEN <<named>>
                 ELSE Those(doc.nodes, {n \in ToSet(doc.nodes) : n.point = p})
             entry(p) == IF at(p) = <<>> THEN 0 ELSE Entry(Last(at(p)))
             exit(p) == IF at(p) = <<>> THEN 0 ELSE Exit(Last(at(p)))
             onTheWay == Interpolate(exit(Head(route)), entry(goal.point), Len(route) - 2)
             angle(i) == IF i \in 2..(Len(route) - 1) THEN onTheWay[i - 1] ELSE entry(route[i])
             n == Len(route)
  <1>1. n \in 1..n /\ DOMAIN route = 1..n /\ n \notin 2..(n - 1)
    OBVIOUS
  <1>2. TravelPlan(doc, route, goal) = [i \in DOMAIN route |-> [point |-> route[i], angle |-> angle(i)]]
    BY DEF TravelPlan
  <1>3. angle(n) = entry(goal.point)
    <2>1. route[n] = goal.point
      BY DEF Last
    <2> HIDE DEF entry, onTheWay
    <2> QED
      BY <1>1, <2>1
  <1>4. entry(goal.point) = Entry(goal)
    <2> DEFINE one == <<goal>>
    <2>1. at(goal.point) = one
      OBVIOUS
    <2>2. one # <<>> /\ Last(one) = goal
      BY DEF Last
    <2> HIDE DEF at, one
    <2> QED
      BY <2>1, <2>2
  <1> HIDE DEF angle, entry, n
  <1>5. TravelPlan(doc, route, goal)[n].angle = angle(n)
    BY <1>1, <1>2
  <1> QED
    BY <1>3, <1>4, <1>5 DEF n

\* The last move of a travel leads to its goal, if the robot is not there.
LEMMA HopsEnd ==
  ASSUME NEW plan, NEW n \in Nat, n > 0, NEW Y, plan \in Seq(Y), Len(plan) = n,
         NEW starts, NEW goal, ~Contains(starts, goal.point) => n > 1
  PROVE  LET hops == Hops(plan, starts, goal)
         IN /\ hops = <<>> => Contains(starts, goal.point) /\ goal.type # "basic_scan"
            /\ hops # <<>> => Len(hops) \in DOMAIN hops /\ hops[Len(hops)] = plan[n]
            /\ Len(hops) \in Nat /\ DOMAIN hops = 1..Len(hops)
  <1> DEFINE hops == Hops(plan, starts, goal)
             good == /\ hops = <<>> => Contains(starts, goal.point) /\ goal.type # "basic_scan"
                     /\ hops # <<>> => Len(hops) \in DOMAIN hops /\ hops[Len(hops)] = plan[n]
                     /\ Len(hops) \in Nat /\ DOMAIN hops = 1..Len(hops)
  <1>1. CASE Contains(starts, goal.point) /\ goal.type = "basic_scan"
    <2> DEFINE last == plan[n]
    <2>1. hops = <<last>>
      BY <1>1 DEF Hops, Last
    <2> HIDE DEF last, hops
    <2>2. Len(hops) = 1 /\ DOMAIN hops = 1..1 /\ hops[1] = last /\ hops # <<>>
      BY <2>1
    <2>3. 1 \in 1..1 /\ 1 \in Nat
      OBVIOUS
    <2>4. good
      BY <2>2, <2>3 DEF last
    <2> QED
      BY <2>4 DEF hops
  <1>2. CASE Contains(starts, goal.point) /\ goal.type # "basic_scan"
    <2>1. hops = <<>>
      BY <1>2 DEF Hops
    <2> HIDE DEF hops
    <2>2. Len(hops) \in Nat /\ DOMAIN hops = 1..Len(hops)
      BY <2>1
    <2>3. good
      BY <1>2, <2>1, <2>2
    <2> QED
      BY <2>3 DEF hops
  <1>3. CASE ~Contains(starts, goal.point)
    <2>1. hops = Tail(plan)
      BY <1>3 DEF Hops
    <2> HIDE DEF hops
    <2>2. plan # <<>> /\ n > 1
      BY <1>3
    <2>3. hops \in Seq(Y) /\ Len(hops) = n - 1 /\ \A i \in 1..(n - 1) : hops[i] = plan[i + 1]
      BY <2>1, <2>2
    <2>4. n - 1 \in 1..(n - 1) /\ (n - 1) + 1 = n /\ n - 1 \in Nat
      BY <2>2
    <2>5. hops[n - 1] = plan[n] /\ DOMAIN hops = 1..(n - 1) /\ hops # <<>>
      BY <2>3, <2>4
    <2>6. good
      BY <2>3, <2>4, <2>5
    <2> QED
      BY <2>6 DEF hops
  <1>4. good
    BY <1>1, <1>2, <1>3
  <1> QED
    BY <1>4

\* Where a startup travel ends.
EndsAt(t, goal) ==
    t.route # <<>> =>
        /\ IF t.hops = <<>> THEN Contains(t.starts, goal.point)
           ELSE Last(t.hops).point = goal.point
        /\ goal.type = "basic_scan" => t.hops # <<>> /\ Last(t.hops).angle = Entry(goal)

LEMMA StartupEnds ==
  ASSUME StoreInv, file # NoFile, UniqueIds(sent.nodes), NEW goal \in ToSet(file.nodes),
         TravelTo(file, "startup", goal)
  PROVE  EndsAt(travel', goal) /\ travel'.goal = goal
  <1>1. PICK starts \in Starts :
           LET route == FindRoute(file, starts, goal.point)
               hops == Hops(TravelPlan(file, route, goal), starts, goal)
           IN travel' = [kind |-> "startup", goal |-> goal, starts |-> starts, route |-> route,
                         hops |-> IF route = <<>> THEN <<>>
                                  ELSE [i \in DOMAIN hops |->
                                       IF TurnsToZero("startup", goal) THEN [hops[i] EXCEPT !.angle = 0] ELSE hops[i]]]
    BY DEF TravelTo
  <1> DEFINE route == FindRoute(file, starts, goal.point)
             plan == TravelPlan(file, route, goal)
             hops == Hops(plan, starts, goal)
             moves == IF route = <<>> THEN <<>>
                      ELSE [i \in DOMAIN hops |->
                               IF TurnsToZero("startup", goal) THEN [hops[i] EXCEPT !.angle = 0] ELSE hops[i]]
  <1>2. travel'.goal = goal /\ travel'.starts = starts /\ travel'.route = route /\ travel'.hops = moves
    BY <1>1
  <1>3. starts \in Seq(Nat) /\ Searched(file, starts)
    <2>1. sent \in Typed /\ StoredOf(file)
      BY PlannedFacts
    <2>2. file.points \in Seq(Nat)
      BY <2>1 DEF StoredOf, Typed
    <2> QED
      BY <2>1, <2>2, StartsType, FileSearched
  <1>n. Named(file.nodes, goal.id) = goal
    <2>1. file \in Typed /\ UniqueIds(file.nodes)
      <3>1. Planned = file /\ Planned \in Typed /\ sent \in Typed /\ StoredOf(file)
        BY PlannedFacts
      <3>2. file.nodes = NormalNodes(sent)
        BY <3>1, PairsAgain DEF StoredOf
      <3> QED
        BY <3>1, <3>2, NormalForm
    <2> QED
      BY <2>1, NamedFacts DEF Typed
  <1>4. ASSUME route # <<>>
        PROVE  /\ IF moves = <<>> THEN Contains(starts, goal.point)
                  ELSE Last(moves).point = goal.point
               /\ goal.type = "basic_scan" => moves # <<>> /\ Last(moves).angle = Entry(goal)
    <2>1. moves = [i \in DOMAIN hops |-> hops[i]]
      <3>1. ~TurnsToZero("startup", goal)
        BY DEF TurnsToZero
      <3> HIDE DEF hops, route
      <3> QED
        BY <1>4, <3>1
    <2> HIDE DEF route, moves, hops
    <2>2. Way(file, starts, route) /\ Last(route) = goal.point
      BY <1>3, <1>4, RouteFacts DEF route
    <2>3. route \in Seq(Nat) /\ route[1] \in ToSet(starts)
      BY <2>2 DEF Way, Leads
    <2> DEFINE n == Len(route)
    <2>4. n \in Nat /\ n > 0 /\ Plans(plan, route)
      <3>1. n \in Nat /\ n > 0
        BY <1>4, <2>3
      <3> QED
        BY <2>3, <3>1, PlanFacts
    <2>5. plan[n].angle = Entry(goal)
      BY <1>4, <1>n, <2>2, <2>3, PlanEnds
    <2> HIDE DEF plan
    <2>6. ~Contains(starts, goal.point) => n > 1
      <3> SUFFICES ASSUME ~(n > 1) PROVE Contains(starts, goal.point)
        OBVIOUS
      <3>1. n = 1
        <4> HIDE DEF n
        <4> QED
          BY <2>4
      <3>2. goal.point = route[1]
        BY <2>2, <3>1 DEF Last
      <3>3. goal.point \in ToSet(starts)
        BY <2>3, <3>2
      <3> QED
        BY <1>3, <3>3 DEF Contains, ToSet
    <2>7. /\ Len(plan) = n /\ \E Y : plan \in Seq(Y)
          /\ plan[n].point = route[n]
      <3>1. n \in 1..n
        BY <2>4
      <3> QED
        BY <2>4, <3>1 DEF Plans
    <2>8. /\ hops = <<>> => Contains(starts, goal.point) /\ goal.type # "basic_scan"
          /\ hops # <<>> => Len(hops) \in DOMAIN hops /\ hops[Len(hops)] = plan[n]
          /\ Len(hops) \in Nat /\ DOMAIN hops = 1..Len(hops)
      BY <2>4, <2>6, <2>7, HopsEnd DEF hops
    <2>9. plan[n].point = goal.point
      BY <2>2, <2>7 DEF Last
    <2>10. moves # <<>> => Last(moves) = plan[n]
      <3> SUFFICES ASSUME moves # <<>> PROVE Last(moves) = plan[n]
        OBVIOUS
      <3>1. hops # <<>>
        BY <2>1
      <3>2. Len(moves) = Len(hops)
        BY <2>1, <2>8
      <3> QED
        BY <2>1, <2>8, <3>1, <3>2 DEF Last
    <2>11. hops # <<>> => moves # <<>>
      <3> SUFFICES ASSUME hops # <<>> PROVE moves # <<>>
        OBVIOUS
      <3>1. Len(hops) \in DOMAIN moves
        BY <2>1, <2>8
      <3> QED
        BY <3>1
    <2>12. moves = <<>> => hops = <<>>
      BY <2>11
    <2> QED
      BY <2>5, <2>8, <2>9, <2>10, <2>11
  <1> HIDE DEF moves, route
  <1> QED
    BY <1>2, <1>4 DEF EndsAt

\* A startup travel goes to the first scan node of what is stored.
StartupInv ==
    UniqueIds(sent.nodes) /\ travel # NoTravel /\ travel.kind = "startup" =>
        /\ file # NoFile /\ Finds(file.nodes, {n \in ToSet(file.nodes) : IsScan(n)}, travel.goal)
        /\ EndsAt(travel, travel.goal)

LEMMA OtherTravel ==
  ASSUME NEW kind, kind # "startup", NEW doc, NEW goal, TravelTo(doc, kind, goal)
  PROVE  travel'.kind # "startup"
  BY DEF TravelTo

LEMMA StartupInvariance == Spec => [](StoreInv /\ StartupInv)
  <1>1. Init => TravelInv /\ StartupInv
    BY DEF Init, TravelInv, StartupInv
  <1>2. StoreInv /\ StoreInv' /\ TravelInv /\ StartupInv /\ [Next]_vars => TravelInv' /\ StartupInv'
    <2> SUFFICES ASSUME StoreInv, StoreInv', TravelInv, StartupInv, [Next]_vars
                 PROVE  TravelInv' /\ StartupInv'
      OBVIOUS
    <2>1. CASE Save
      <3>1. travel = NoTravel /\ travel' = NoTravel
        BY <2>1 DEF Save, Stores, TravelInv
      <3> QED
        BY <3>1 DEF TravelInv, StartupInv
    <2>2. CASE SaveAgain
      <3>1. file # NoFile /\ file' = Normalize(Normalize(file)) /\ travel' = travel /\ sent' = sent
        BY <2>2 DEF SaveAgain, Stores
      <3>2. UniqueIds(sent.nodes) => file' = file
        BY <3>1, PlannedFacts DEF Planned
      <3>3. file' # NoFile
        BY <3>1, StoredFile
      <3>4. TravelInv'
        BY <3>3 DEF TravelInv
      <3> QED
        BY <3>1, <3>2, <3>4 DEF StartupInv
    <2>3. CASE StartupTravel
      <3> DEFINE scans == Scans(file.nodes)
      <3>1. file # NoFile /\ file' = file /\ sent' = sent
        BY <2>3 DEF StartupTravel
      <3>4. TravelInv'
        BY <3>1 DEF TravelInv
      <3> SUFFICES ASSUME UniqueIds(sent.nodes) PROVE StartupInv'
        BY <3>1, <3>4 DEF StartupInv
      <3>2. Planned = file /\ Ordered(file.nodes) = file.nodes /\ file.nodes \in Seq(Nodes)
        BY <3>1, PlannedFacts DEF Typed
      <3>3. scans # <<>> /\ TravelTo(file, "startup", Head(scans))
        BY <2>3, <3>2 DEF StartupTravel
      <3>5. Head(scans) \in ToSet(file.nodes)
        BY <3>2, <3>3, ThoseEnds DEF Scans
      <3>6. Finds(file.nodes, {n \in ToSet(file.nodes) : IsScan(n)}, Head(scans))
        BY <3>3 DEF Finds, Scans
      <3> HIDE DEF scans
      <3>7. EndsAt(travel', Head(scans)) /\ travel'.goal = Head(scans)
        BY <3>1, <3>3, <3>5, StartupEnds
      <3>8. EndsAt(travel, travel.goal)'
        BY <3>7
      <3> QED
        BY <3>1, <3>6, <3>7, <3>8 DEF StartupInv
    <2>4. CASE HomeTravel
      <3>1. file # NoFile /\ file' = file /\ travel'.kind # "startup"
        BY <2>4, OtherTravel DEF HomeTravel
      <3> QED
        BY <3>1 DEF TravelInv, StartupInv
    <2>5. CASE MoveTo
      <3>1. file # NoFile /\ file' = file /\ travel'.kind # "startup"
        BY <2>5, OtherTravel DEF MoveTo
      <3> QED
        BY <3>1 DEF TravelInv, StartupInv
    <2>6. CASE UNCHANGED vars
      BY <2>6 DEF vars, TravelInv, StartupInv
    <2> QED
      BY <2>1, <2>2, <2>3, <2>4, <2>5, <2>6 DEF Next
  <1> QED
    BY <1>1, <1>2, StoreInvariance, PTL DEF Spec

\* A run begins where its startup travel ends: at the first scan of its trajectory,
\* of a basic scan with the table at its angle, if each node has an id of its own.
THEOREM RunBeginsWhereTravelEndsCorrect == Spec => []RunBeginsWhereTravelEnds
  <1>1. StoreInv /\ StartupInv /\ LoadInv => RunBeginsWhereTravelEnds
    <2> SUFFICES ASSUME StartupInv, LoadInv, UniqueIds(sent.nodes),
                        travel # NoTravel, travel.kind = "startup", travel.route # <<>>
                 PROVE  LET scans == Those(trajectory, {t \in ToSet(trajectory) : \E n \in ToSet(Wanted) : n.id = t.node /\ IsScan(n)})
                        IN /\ IF travel.hops = <<>> THEN Contains(travel.starts, Head(scans).point)
                              ELSE Last(travel.hops).point = Head(scans).point
                           /\ travel.goal.type = "basic_scan" =>
                                 travel.hops # <<>> /\ Last(travel.hops).angle = Head(scans).angle
      BY DEF RunBeginsWhereTravelEnds
    <2> DEFINE goal == travel.goal
               S == {t \in ToSet(trajectory) : \E n \in ToSet(Wanted) : n.id = t.node /\ IsScan(n)}
    <2>1. /\ file # NoFile /\ Finds(file.nodes, {n \in ToSet(file.nodes) : IsScan(n)}, goal)
          /\ EndsAt(travel, goal)
      BY DEF StartupInv
    <2>2. Stored(file) /\ trajectory = Trajectory(file)
      BY <2>1 DEF LoadInv
    <2>3. trajectory \in Seq(Items)
      BY DEF LoadInv
    <2> HIDE DEF goal
    <2>4. Finds(trajectory, ScanItems, Stops(goal)[1]) /\ goal \in Nodes
      BY <2>1, <2>2, TrajectoryFinds
    <2>5. Those(trajectory, S) = Those(trajectory, ScanItems)
      <3>1. ToSet(trajectory) \subseteq Items
        BY <2>3 DEF ToSet
      <3>2. ToSet(trajectory) \cap S = ToSet(trajectory) \cap ScanItems
        BY <3>1 DEF ScanItems, ScanNodes
      <3> QED
        BY <2>3, <3>2, ThoseAgree
    <2> HIDE DEF S
    <2>6. Head(Those(trajectory, S)) = Stops(goal)[1]
      BY <2>4, <2>5 DEF Finds
    <2>7. /\ Stops(goal)[1].point = goal.point
          /\ goal.type = "basic_scan" => Stops(goal)[1].angle = Entry(goal)
      BY <2>4, FirstStop
    <2> QED
      BY <2>1, <2>6, <2>7 DEF EndsAt, goal, S
  <1> QED
    BY <1>1, StartupInvariance, LoadInvariance, PTL

-----------------------------------------------------------------------------
(* Where the nodes are in the trajectory. *)

\* Offsets that never fall are ordered, and cut what they span into pieces.
LEMMA OffsetsGrow ==
  ASSUME NEW n \in Nat, NEW off \in [0..n -> Nat], off[0] = 0, \A i \in 1..n : off[i - 1] <= off[i]
  PROVE  /\ \A i, j \in 0..n : i <= j => off[i] <= off[j]
         /\ \A p \in 1..off[n] : \E i \in 1..n : p \in (off[i - 1] + 1)..off[i]
  <1> DEFINE Good(k) == /\ \A i \in 0..k : off[i] <= off[k]
                        /\ \A p \in 1..off[k] : \E i \in 1..k : p \in (off[i - 1] + 1)..off[i]
             K == {k \in 0..n : Good(k)}
  <1>1. 0 \in K
    OBVIOUS
  <1>2. \A k \in 0..(n - 1) : k \in K => k + 1 \in K
    <2> SUFFICES ASSUME NEW k \in 0..(n - 1), k \in K PROVE k + 1 \in K
      OBVIOUS
    <2> DEFINE m == k + 1
    <2>1. m \in 1..n /\ m \in 0..n /\ m - 1 = k /\ k \in 0..n
      OBVIOUS
    <2>2. off[k] <= off[m] /\ off[k] \in Nat /\ off[m] \in Nat
      BY <2>1
    <2>3. Good(k)
      OBVIOUS
    <2>4. \A i \in 0..m : i \in 0..k \/ i = m
      BY <2>1
    <2>5. ASSUME NEW i \in 0..m PROVE off[i] <= off[m]
      <3>1. CASE i \in 0..k
        <4>1. off[i] \in Nat /\ off[i] <= off[k]
          BY <2>1, <2>3, <3>1
        <4> QED
          BY <2>2, <4>1
      <3> QED
        BY <2>2, <2>4, <3>1
    <2>6. ASSUME NEW p \in 1..off[m] PROVE \E i \in 1..m : p \in (off[i - 1] + 1)..off[i]
      <3>1. CASE p \in 1..off[k]
        <4>1. PICK i \in 1..k : p \in (off[i - 1] + 1)..off[i]
          BY <2>3, <3>1
        <4>2. i \in 1..m
          BY <2>1
        <4> QED
          BY <4>1, <4>2
      <3>2. CASE p \notin 1..off[k]
        <4>1. p \in (off[k] + 1)..off[m] /\ m \in 1..m
          BY <2>1, <2>2, <3>2
        <4> QED
          BY <2>1, <4>1
      <3> QED
        BY <3>1, <3>2
    <2> HIDE DEF m
    <2>7. Good(m)
      BY <2>5, <2>6
    <2> HIDE DEF Good
    <2> QED
      BY <2>1, <2>7 DEF m
  <1>3. \A k \in 0..n : k \in K
    <2> HIDE DEF K
    <2> QED
      BY <1>1, <1>2, Induction
  <1>4. ASSUME NEW i \in 0..n, NEW j \in 0..n, i <= j PROVE off[i] <= off[j]
    <2>1. i \in 0..j /\ Good(j)
      BY <1>3, <1>4
    <2> QED
      BY <2>1
  <1>5. Good(n)
    BY <1>3
  <1> QED
    BY <1>4, <1>5

\* Where each of the sequences ends when they are put together.
Offsets(off, seqs, flat) ==
    /\ off \in [0..Len(seqs) -> Nat] /\ off[0] = 0 /\ Len(flat) = off[Len(seqs)]
    /\ \A i \in 1..Len(seqs) : /\ off[i] = off[i - 1] + Len(seqs[i])
                               /\ \A k \in 1..Len(seqs[i]) : flat[off[i - 1] + k] = seqs[i][k]

\* Where one of them lies.
LEMMA OffsetsOf ==
  ASSUME NEW off, NEW seqs, NEW flat, Offsets(off, seqs, flat),
         NEW i \in 1..Len(seqs), NEW part, seqs[i] = part
  PROVE  /\ off[i] = off[i - 1] + Len(part)
         /\ \A k \in 1..Len(part) : flat[off[i - 1] + k] = part[k]
  BY DEF Offsets

\* FlattenSeq puts its sequences one after the other.
LEMMA FlattenOffsets ==
  ASSUME NEW X, NEW seqs \in Seq(Seq(X))
  PROVE  FlattenSeq(seqs) \in Seq(X) /\ \E off : Offsets(off, seqs, FlattenSeq(seqs))
  <1> DEFINE n == Len(seqs)
             flat == FlattenSeq(seqs)
  <1>n. n \in Nat /\ \A i \in 1..n : seqs[i] \in Seq(X) /\ Len(seqs[i]) \in Nat
    OBVIOUS
  <1>1. CASE n = 0
    <2>1. seqs = <<>>
      BY <1>1
    <2>2. flat = <<>>
      BY <1>1, <2>1 DEF FlattenSeq
    <2> DEFINE off == [i \in 0..0 |-> 0]
    <2> HIDE DEF flat
    <2>3. Offsets(off, seqs, flat)
      BY <1>1, <2>2 DEF Offsets
    <2>4. flat \in Seq(X)
      BY <2>2
    <2> HIDE DEF off
    <2> QED
      BY <2>3, <2>4 DEF flat
  <1>2. CASE n # 0
    <2> DEFINE m == n - 1
    <2>1. m \in Nat /\ Len(seqs) > 0 /\ n = m + 1
      BY <1>n, <1>2
    <2>2. PICK f \in [0..m -> Seq(X)] : FlattensBy(f, seqs)
      BY <2>1, FlattenStepwise
    <2>3. /\ f[0] = seqs[1]
          /\ \A k \in 1..m : f[k] = f[k - 1] \o seqs[k + 1]
          /\ flat = f[m]
      BY <2>2 DEF FlattensBy
    <2> DEFINE off == [i \in 0..n |-> IF i = 0 THEN 0 ELSE Len(f[i - 1])]
    <2> HIDE DEF flat, n, m
    <2>4. ASSUME NEW k \in 0..m PROVE k + 1 \in 1..n /\ k + 1 \in 0..n /\ (k + 1) - 1 = k /\ k + 1 # 0 /\ k \in 0..n
                                      /\ f[k] \in Seq(X) /\ Len(f[k]) \in Nat
      <3>1. k + 1 \in 1..n /\ k + 1 \in 0..n /\ (k + 1) - 1 = k /\ k + 1 # 0 /\ k \in 0..n
        BY <2>1
      <3>2. f[k] \in Seq(X)
        BY <2>2
      <3>3. Len(f[k]) \in Nat
        BY <3>2
      <3> QED
        BY <3>1, <3>2, <3>3
    <2>5. off[0] = 0 /\ \A k \in 0..m : off[k + 1] = Len(f[k])
      <3>1. 0 \in 0..n
        BY <1>n
      <3> QED
        BY <2>4, <3>1
    <2>6. off \in [0..n -> Nat]
      <3> SUFFICES ASSUME NEW i \in 0..n, i # 0 PROVE Len(f[i - 1]) \in Nat
        OBVIOUS
      <3>1. i - 1 \in 0..m
        BY <2>1
      <3> QED
        BY <2>4, <3>1
    <2> HIDE DEF off
    <2>7. \A k \in 0..m : off[k + 1] = off[k] + Len(seqs[k + 1])
      <3> SUFFICES ASSUME NEW k \in 0..m PROVE off[k + 1] = off[k] + Len(seqs[k + 1])
        OBVIOUS
      <3>1. CASE k = 0
        <4>1. 1 \in 1..n /\ k + 1 = 1
          BY <2>1, <3>1
        <4>2. off[1] = Len(seqs[1]) /\ Len(seqs[1]) \in Nat
          BY <1>n, <2>3, <2>5, <3>1, <4>1
        <4> QED
          BY <2>5, <3>1, <4>1, <4>2
      <3>2. CASE k # 0
        <4>1. k \in 1..m /\ k - 1 \in 0..m /\ (k - 1) + 1 = k /\ k + 1 \in 1..n
          BY <2>1, <3>2
        <4> DEFINE j == k - 1
                   t == seqs[k + 1]
        <4>2. f[k] = f[j] \o t /\ f[j] \in Seq(X) /\ t \in Seq(X)
          BY <1>n, <2>3, <2>4, <4>1
        <4>3. off[k] = Len(f[j]) /\ off[k + 1] = Len(f[k])
          BY <2>5, <4>1
        <4> HIDE DEF j, t
        <4>4. Len(f[k]) = Len(f[j]) + Len(t)
          BY <4>2
        <4> QED
          BY <4>3, <4>4 DEF t
      <3> QED
        BY <3>1, <3>2
    <2> DEFINE Put(k, i) == off[i] <= Len(f[k]) /\ \A p \in 1..Len(seqs[i]) : f[k][off[i - 1] + p] = seqs[i][p]
               Good(k) == \A i \in 1..(k + 1) : Put(k, i)
               K == {k \in 0..m : Good(k)}
    <2>8. 0 \in K
      <3>1. 0 \in 0..m /\ 0 + 1 = 1 /\ 1 - 1 = 0 /\ 1 \in 1..n
        BY <2>1
      <3>2. off[1] = Len(f[0]) /\ Len(f[0]) \in Nat
        BY <2>4, <2>5, <3>1
      <3>3. \A p \in 1..Len(seqs[1]) : off[0] + p = p
        BY <2>5
      <3>4. Put(0, 1)
        BY <2>3, <3>1, <3>2, <3>3
      <3> HIDE DEF Put
      <3> QED
        BY <3>1, <3>4
    <2>9. \A k \in 0..(m - 1) : k \in K => k + 1 \in K
      <3> SUFFICES ASSUME NEW k \in 0..(m - 1), k \in K PROVE k + 1 \in K
        OBVIOUS
      <3> DEFINE l == k + 1
                 s == f[k]
                 t == seqs[l + 1]
                 u == f[l]
      <3>1. k \in 0..m /\ l \in 0..m /\ l \in 1..m /\ l - 1 = k /\ l + 1 \in 1..n /\ (l + 1) - 1 = l
        BY <2>1
      <3>2. u = s \o t /\ s \in Seq(X) /\ t \in Seq(X) /\ Len(s) \in Nat /\ Len(t) \in Nat
        BY <1>n, <2>3, <2>4, <3>1
      <3>3. off[l] = Len(s) /\ off[l + 1] = Len(u)
        BY <2>5, <3>1
      <3>4. \A i \in 1..l : Put(k, i)
        OBVIOUS
      <3>l. \A i \in 1..(l + 1) : i \in 1..l \/ i = l + 1
        BY <3>1
      <3> HIDE DEF l, s, t, u, K
      <3>5. /\ Len(u) = Len(s) + Len(t)
            /\ \A i \in 1..Len(s) : u[i] = s[i]
            /\ \A i \in (Len(s) + 1)..(Len(s) + Len(t)) : u[i] = t[i - Len(s)]
        BY <3>2, ConcatEntries
      <3>6. ASSUME NEW i \in 1..l PROVE Put(l, i)
        <4>1. i \in 1..n /\ i - 1 \in 0..m /\ (i - 1) + 1 = i /\ i \in 0..n /\ i - 1 \in 0..n
          BY <2>1, <3>1
        <4>2. off[i] = off[i - 1] + Len(seqs[i]) /\ off[i] \in Nat /\ off[i - 1] \in Nat /\ Len(seqs[i]) \in Nat
          BY <1>n, <2>6, <2>7, <4>1
        <4>3. off[i] <= Len(s) /\ \A p \in 1..Len(seqs[i]) : s[off[i - 1] + p] = seqs[i][p]
          BY <3>4 DEF s
        <4> DEFINE a == off[i - 1]
                   b == off[i]
                   d == Len(seqs[i])
                   e == Len(s)
        <4>a. a \in Nat /\ b \in Nat /\ d \in Nat /\ e \in Nat /\ b = a + d /\ b <= e
          BY <3>2, <4>2, <4>3
        <4> HIDE DEF a, b, d, e, Put
        <4>4. \A p \in 1..d : a + p \in 1..e
          BY <4>a
        <4> USE DEF a, d, e, Put
        <4>5. off[i] <= Len(u)
          BY <3>2, <3>5, <4>2, <4>3
        <4> QED
          BY <3>5, <4>3, <4>4, <4>5 DEF u
      <3>7. Put(l, l + 1)
        <4>1. \A p \in 1..Len(t) : off[l] + p \in (Len(s) + 1)..(Len(s) + Len(t)) /\ (off[l] + p) - Len(s) = p
          BY <3>2, <3>3
        <4>2. \A p \in 1..Len(t) : u[off[l] + p] = t[p]
          BY <3>5, <4>1
        <4>3. off[l + 1] <= Len(u)
          BY <3>2, <3>3, <3>5
        <4> QED
          BY <3>1, <4>2, <4>3 DEF u, t
      <3> HIDE DEF Put
      <3>8. Good(l)
        BY <3>6, <3>7, <3>l
      <3> QED
        BY <3>1, <3>8 DEF K, l
    <2>10. m \in K
      <3> HIDE DEF K
      <3>1. \A k \in 0..m : k \in K
        BY <2>1, <2>8, <2>9, Induction
      <3> QED
        BY <2>1, <3>1
    <2>11. ASSUME NEW i \in 1..n PROVE off[i] = off[i - 1] + Len(seqs[i]) /\ Put(m, i)
      <3>1. i - 1 \in 0..m /\ (i - 1) + 1 = i /\ i \in 1..(m + 1)
        BY <2>1
      <3> QED
        BY <2>7, <2>10, <3>1
    <2>12. Len(flat) = off[n] /\ flat \in Seq(X)
      <3>1. m \in 0..m
        BY <2>1
      <3> QED
        BY <2>1, <2>3, <2>4, <2>5, <3>1
    <2>13. Offsets(off, seqs, flat)
      BY <2>3, <2>5, <2>6, <2>11, <2>12 DEF Offsets, n
    <2> QED
      BY <2>12, <2>13 DEF flat
  <1> QED
    BY <1>1, <1>2 DEF flat

\* How often a node is run.
Count(n) == IF n.type = "advanced_scan" THEN n.count ELSE 1

\* A node has as many stops as it is run.
LEMMA StopsCount ==
  ASSUME NEW n \in Nodes
  PROVE  Count(n) \in Nat /\ Count(n) > 0 /\ Len(Stops(n)) = Count(n)
  <1> DEFINE a == NodeAngles(n)
             c == Count(n)
             s == Stops(n)
  <1>1. n.start \in Int /\ n.by \in Int /\ n.count \in Nat \ {0} /\ n.mode \in {"range", "step"}
    BY DEF Nodes
  <1>2. c \in Nat /\ c > 0
    BY <1>1 DEF Count
  <1>3. DOMAIN a = 1..c
    <2>1. CASE n.type = "advanced_scan" /\ n.mode = "step"
      <3>1. a = StepAngles(n.start, n.by, n.count) /\ c = n.count
        BY <2>1 DEF NodeAngles, Count
      <3> HIDE DEF a, c
      <3> QED
        BY <3>1 DEF StepAngles
    <2>2. CASE n.type = "advanced_scan" /\ n.mode = "range"
      <3>1. a = RangeAngles(n.start, n.by, n.count) /\ c = n.count
        BY <2>2 DEF NodeAngles, Count
      <3> HIDE DEF a, c
      <3> QED
        BY <3>1 DEF RangeAngles
    <2>3. CASE n.type # "advanced_scan"
      <3>1. a = <<Clamp(n.start)>> /\ c = 1
        BY <2>3 DEF NodeAngles, Count
      <3> HIDE DEF a, c
      <3> QED
        BY <3>1
    <2> QED
      BY <1>1, <2>1, <2>2, <2>3
  <1>4. DOMAIN s = 1..c
    BY <1>3 DEF Stops
  <1>5. s \in Seq(Items)
    BY StopsFacts
  <1> HIDE DEF s, a, c
  <1>6. Len(s) = c
    BY <1>2, <1>4, <1>5
  <1> QED
    BY <1>2, <1>6 DEF s, c

\* The part of a node ends with its own items; what is before them belongs to none.
EndsWithOwn(part, n) ==
    /\ part \in Seq(Items) /\ Count(n) <= Len(part)
    /\ \A k \in 1..Len(part) : part[k].node = IF k <= Len(part) - Count(n) THEN 0 ELSE n.id

\* The part of each node of a stored document does.
LEMMA PartEndsWithOwn ==
  ASSUME NEW doc, Stored(doc), NEW i \in 1..Len(doc.nodes)
  PROVE  EndsWithOwn(Part(doc, i), doc.nodes[i])
  <1> DEFINE n == doc.nodes[i]
             s == Stops(n)
             c == Count(n)
  <1>1. doc.nodes \in Seq(Nodes) /\ n \in Nodes
    BY StoredFacts
  <1>2. /\ s \in Seq(Items) /\ Len(s) = c /\ c \in Nat /\ c > 0
        /\ \A k \in 1..Len(s) : s[k].node = n.id
    BY <1>1, StopsFacts, StopsCount
  <1>3. CASE i = 1
    <2>1. Part(doc, i) = <<>> \o s
      BY <1>3 DEF Part
    <2> HIDE DEF s, n, c
    <2>2. Part(doc, i) = s
      BY <1>2, <2>1
    <2> QED
      BY <1>2, <2>2 DEF EndsWithOwn, n, c
  <1>4. CASE i # 1
    <2> DEFINE from == doc.nodes[i - 1]
               points == Between(doc, from, n)
               T == Transitions(doc, from, n)
    <2>1. from \in Nodes /\ i \in 2..Len(doc.nodes)
      <3>1. i - 1 \in 1..Len(doc.nodes) /\ i \in 2..Len(doc.nodes)
        BY <1>1, <1>4
      <3> QED
        BY <1>1, <3>1
    <2>2. Part(doc, i) = T \o s
      BY <1>4 DEF Part
    <2>3. T \in Seq(Items)
      <3>1. from.point \in Nat
        BY <2>1 DEF Nodes
      <3>2. Searched(doc, <<from.point>>)
        BY <3>1, StoredFacts
      <3>3. HasDirect(doc, from.point, n.point) \/ FindRoute(doc, <<from.point>>, n.point) # <<>>
        BY <2>1, StoredFacts
      <3> HIDE DEF T, n, from
      <3>4. Crosses(T, doc, from.point, n.point)
        BY <1>1, <2>1, <3>2, <3>3, TransitionsFacts DEF T
      <3> QED
        BY <3>4 DEF Crosses
    <2>4. \A k \in DOMAIN T : T[k].node = 0
      <3>1. T = [k \in DOMAIN points |-> [point |-> points[k], node |-> 0,
                                          angle |-> Interpolate(Exit(from), Entry(n), Len(points))[k]]]
        BY DEF Transitions
      <3> HIDE DEF points, T
      <3> QED
        BY <3>1
    <2> HIDE DEF T, s, n, from, c
    <2> DEFINE l == Len(T)
               part == T \o s
    <2>5. l \in Nat /\ \A k \in 1..l : T[k].node = 0
      BY <2>3, <2>4
    <2>6. /\ part \in Seq(Items) /\ Len(part) = l + c
          /\ \A k \in 1..l : part[k] = T[k]
          /\ \A k \in (l + 1)..(l + c) : part[k] = s[k - l]
      <3>1. part \in Seq(Items)
        BY <1>2, <2>3
      <3>2. /\ Len(part) = l + Len(s)
            /\ \A k \in 1..l : part[k] = T[k]
            /\ \A k \in (l + 1)..(l + Len(s)) : part[k] = s[k - l]
        BY <1>2, <2>3, ConcatEntries
      <3> QED
        BY <1>2, <3>1, <3>2
    <2> HIDE DEF l, part
    <2>7. ASSUME NEW k \in 1..Len(part)
          PROVE  part[k].node = IF k <= Len(part) - c THEN 0 ELSE n.id
      <3>1. CASE k <= l
        <4>1. k \in 1..l /\ k <= Len(part) - c
          BY <1>2, <2>5, <2>6, <3>1
        <4> QED
          BY <2>5, <2>6, <4>1
      <3>2. CASE ~(k <= l)
        <4>1. k \in (l + 1)..(l + c) /\ k - l \in 1..c /\ ~(k <= Len(part) - c)
          BY <1>2, <2>5, <2>6, <3>2
        <4> QED
          BY <1>2, <2>6, <4>1
      <3> QED
        BY <3>1, <3>2
    <2>8. c <= Len(part)
      BY <1>2, <2>5, <2>6
    <2>9. Part(doc, i) = part
      BY <2>2 DEF part
    <2> QED
      BY <2>6, <2>7, <2>8, <2>9 DEF EndsWithOwn, n, c
  <1> QED
    BY <1>3, <1>4

\* Up to off[i] come the parts of the first i nodes of N.
LaidOut(off, N, T) ==
    /\ T \in Seq(Items) /\ off \in [0..Len(N) -> Nat] /\ off[0] = 0 /\ Len(T) = off[Len(N)]
    /\ \A i \in 1..Len(N) :
          /\ off[i - 1] + Count(N[i]) <= off[i]
          /\ \A p \in (off[i - 1] + 1)..off[i] : T[p].node = IF p <= off[i] - Count(N[i]) THEN 0 ELSE N[i].id

\* The parts of all nodes.
Parts(doc) == [i \in DOMAIN doc.nodes |-> Part(doc, i)]

\* A trajectory is laid out by its parts.
LEMMA TrajectoryLaidOut ==
  ASSUME NEW doc, Stored(doc)
  PROVE  \E off : LaidOut(off, doc.nodes, Trajectory(doc)) /\ Offsets(off, Parts(doc), Trajectory(doc))
  <1> DEFINE N == doc.nodes
             n == Len(N)
             parts == Parts(doc)
             T == Trajectory(doc)
  <1>1. N \in Seq(Nodes) /\ Ordered(N) = N
    BY StoredFacts
  <1>2. n \in Nat /\ DOMAIN N = 1..n /\ \A i \in 1..n : N[i] \in Nodes
    BY <1>1
  <1>3. \A i \in 1..n : EndsWithOwn(Part(doc, i), N[i])
    BY PartEndsWithOwn
  <1>4. T = FlattenSeq(parts)
    BY <1>1, TrajectoryForm DEF Parts
  <1> HIDE DEF n, T
  <1>5. \A i \in 1..n : Part(doc, i) \in Seq(Items)
    BY <1>3 DEF EndsWithOwn
  <1>6. parts \in [1..n -> Seq(Items)] /\ \A i \in 1..n : parts[i] = Part(doc, i)
    BY <1>2, <1>5 DEF Parts
  <1> HIDE DEF parts, N
  <1>7. parts \in Seq(Seq(Items)) /\ Len(parts) = n
    BY <1>2, <1>6
  <1>8. PICK off : Offsets(off, parts, T) /\ T \in Seq(Items)
    BY <1>4, <1>7, FlattenOffsets
  <1>9. off \in [0..n -> Nat] /\ off[0] = 0 /\ Len(T) = off[n]
    BY <1>7, <1>8 DEF Offsets
  <1>10. ASSUME NEW i \in 1..n
         PROVE  /\ off[i - 1] + Count(N[i]) <= off[i]
                /\ \A p \in (off[i - 1] + 1)..off[i] : T[p].node = IF p <= off[i] - Count(N[i]) THEN 0 ELSE N[i].id
    <2> DEFINE part == parts[i]
               c == Count(N[i])
               l == Len(part)
               a == off[i - 1]
               b == off[i]
    <2>1. b = a + l /\ \A k \in 1..l : T[a + k] = part[k]
      BY <1>7, <1>8 DEF Offsets
    <2>2. /\ part \in Seq(Items) /\ c <= l
          /\ \A k \in 1..l : part[k].node = IF k <= l - c THEN 0 ELSE N[i].id
      BY <1>3, <1>6 DEF EndsWithOwn
    <2>3. c \in Nat
      BY <1>2, StopsCount
    <2>4. a \in Nat /\ b \in Nat
      <3>1. i - 1 \in 0..n /\ i \in 0..n
        BY <1>2
      <3> QED
        BY <1>9, <3>1
    <2>5. l \in Nat
      BY <2>2
    <2> HIDE DEF part, c, l, a, b
    <2>6. a + c <= b
      BY <2>1, <2>2, <2>3, <2>4, <2>5
    <2>7. ASSUME NEW p \in (a + 1)..b PROVE T[p].node = IF p <= b - c THEN 0 ELSE N[i].id
      <3> DEFINE k == p - a
      <3>1. k \in 1..l /\ a + k = p /\ (k <= l - c <=> p <= b - c)
        BY <2>1, <2>3, <2>4, <2>5
      <3> HIDE DEF k
      <3>2. T[p] = part[k]
        BY <2>1, <3>1
      <3> QED
        BY <2>2, <3>1, <3>2
    <2> QED
      BY <2>6, <2>7 DEF a, b, c
  <1>11. LaidOut(off, N, T)
    BY <1>8, <1>9, <1>10 DEF LaidOut, n
  <1> QED
    BY <1>8, <1>11 DEF N, T, parts

\* A node's items are where its part ends.
Of(T, id) == {k \in DOMAIN T : T[k].node = id}

\* In a trajectory that is laid out a node's items are the last of its part.
LEMMA LaidOutPlaces ==
  ASSUME NEW off, NEW N \in Seq(Nodes), UniqueIds(N), NEW T, LaidOut(off, N, T)
  PROVE  /\ \A i \in 1..Len(N) : Of(T, N[i].id) = (off[i] - Count(N[i]) + 1)..off[i]
         /\ \A i, j \in 0..Len(N) : i <= j => off[i] <= off[j]
  <1> DEFINE n == Len(N)
             c(i) == Count(N[i])
  <1>1. n \in Nat /\ \A i \in 1..n : N[i] \in Nodes
    OBVIOUS
  <1>2. T \in Seq(Items) /\ off \in [0..n -> Nat] /\ off[0] = 0 /\ Len(T) = off[n] /\ DOMAIN T = 1..off[n]
    BY DEF LaidOut
  <1>3. \A i \in 1..n : c(i) \in Nat /\ c(i) > 0 /\ N[i].id \in Nat /\ N[i].id # 0
    <2> SUFFICES ASSUME NEW i \in 1..n PROVE c(i) \in Nat /\ c(i) > 0 /\ N[i].id \in Nat /\ N[i].id # 0
      OBVIOUS
    <2>1. N[i] \in Nodes
      BY <1>1
    <2> QED
      BY <2>1, StopsCount, StopsFacts
  <1>4. \A i \in 1..n : off[i - 1] + c(i) <= off[i]
    BY DEF LaidOut
  <1>5. \A i \in 1..n : \A p \in (off[i - 1] + 1)..off[i] : T[p].node = IF p <= off[i] - c(i) THEN 0 ELSE N[i].id
    BY DEF LaidOut
  <1>6. \A i, j \in 1..n : N[i].id = N[j].id => i = j
    BY DEF UniqueIds
  <1> HIDE DEF n, c
  <1>7. \A i \in 1..n : i - 1 \in 0..n /\ i \in 0..n /\ off[i - 1] \in Nat /\ off[i] \in Nat
    <2>1. \A i \in 1..n : i - 1 \in 0..n /\ i \in 0..n
      BY <1>1
    <2> QED
      BY <1>2, <2>1
  <1>8. \A i \in 1..n : off[i - 1] <= off[i]
    <2> SUFFICES ASSUME NEW i \in 1..n PROVE off[i - 1] <= off[i]
      OBVIOUS
    <2>1. off[i - 1] + c(i) <= off[i] /\ c(i) \in Nat /\ off[i - 1] \in Nat /\ off[i] \in Nat
      BY <1>3, <1>4, <1>7
    <2> QED
      BY <2>1
  <1>9. /\ \A i, j \in 0..n : i <= j => off[i] <= off[j]
        /\ \A p \in 1..off[n] : \E i \in 1..n : p \in (off[i - 1] + 1)..off[i]
    BY <1>1, <1>2, <1>8, OffsetsGrow
  <1>10. ASSUME NEW i \in 1..n PROVE Of(T, N[i].id) = (off[i] - c(i) + 1)..off[i]
    <2> DEFINE a == off[i - 1]
               b == off[i]
               d == c(i)
    <2>1. a \in Nat /\ b \in Nat /\ d \in Nat /\ d > 0 /\ a + d <= b /\ N[i].id # 0
      BY <1>3, <1>4, <1>7
    <2>2. b <= off[n] /\ off[n] \in Nat
      <3>1. n \in 0..n /\ i \in 0..n /\ i <= n
        BY <1>1
      <3> QED
        BY <1>2, <1>9, <3>1
    <2>3. \A p \in (a + 1)..b : T[p].node = IF p <= b - d THEN 0 ELSE N[i].id
      BY <1>5
    <2> HIDE DEF a, b, d
    <2>4. ASSUME NEW p \in (b - d + 1)..b PROVE p \in Of(T, N[i].id)
      <3>1. p \in (a + 1)..b /\ ~(p <= b - d) /\ p \in 1..off[n]
        BY <2>1, <2>2
      <3> QED
        BY <1>2, <2>3, <3>1 DEF Of
    <2>5. ASSUME NEW p \in Of(T, N[i].id) PROVE p \in (b - d + 1)..b
      <3>1. p \in 1..off[n] /\ T[p].node = N[i].id
        BY <1>2 DEF Of
      <3>2. PICK j \in 1..n : p \in (off[j - 1] + 1)..off[j]
        BY <1>9, <3>1
      <3>3. T[p].node = IF p <= off[j] - c(j) THEN 0 ELSE N[j].id
        BY <1>5, <3>2
      <3>4. ~(p <= off[j] - c(j)) /\ N[j].id = N[i].id
        BY <2>1, <3>1, <3>3
      <3>5. j = i
        BY <1>6, <3>4
      <3>6. p \in (a + 1)..b /\ ~(p <= b - d)
        BY <3>2, <3>4, <3>5 DEF a, b, d
      <3> QED
        BY <2>1, <3>6
    <2>6. Of(T, N[i].id) = (b - d + 1)..b
      BY <2>4, <2>5
    <2> QED
      BY <2>6 DEF b, d
  <1> QED
    BY <1>9, <1>10 DEF n, c

\* Where a node's items begin.
First(T, n) == CHOOSE i \in Of(T, n.id) : \A j \in Of(T, n.id) : i <= j

\* What EveryNodeInItsPlace says of a trajectory.
InPlace(T, W, links, led) ==
    /\ \A n \in ToSet(W) : Cardinality(Of(T, n.id)) = Count(n) /\ \A k \in Of(T, n.id) : k < First(T, n) + Count(n)
    /\ \A m, n \in ToSet(W) :
          (m.id \in led /\ <<m.id, n.id>> \in links /\ First(T, m) < First(T, n)) =>
              \A k \in (First(T, m) + Count(m))..(First(T, n) - 1) : T[k].node = 0
    /\ \A i, j \in DOMAIN W :
          (W[j].id \notin led /\ (i < j \/ W[i].id \in led)) => First(T, W[i]) <= First(T, W[j])

\* The property is this, of the loaded trajectory.
LEMMA PlacesForm ==
  ASSUME file # NoFile /\ UniqueIds(sent.nodes) => InPlace(trajectory, Wanted, WantedLinks, WantedLed)
  PROVE  EveryNodeInItsPlace
  BY DEF EveryNodeInItsPlace, InPlace, WantedLinks, WantedLed, First, Of, Count

\* The first of items that lie side by side, and their number.
LEMMA FirstOf ==
  ASSUME NEW T, NEW n, NEW y \in Nat, NEW c \in Nat, c > 0, c <= y, Of(T, n.id) = (y - c + 1)..y
  PROVE  /\ First(T, n) = y - c + 1
         /\ Cardinality(Of(T, n.id)) = c /\ \A k \in Of(T, n.id) : k < First(T, n) + c
  <1> DEFINE x == y - c + 1
  <1>1. x \in Int /\ x <= y /\ y - x + 1 = c
    OBVIOUS
  <1>2. First(T, n) = CHOOSE i \in x..y : \A j \in x..y : i <= j
    BY DEF First
  <1> HIDE DEF x
  <1>3. x \in x..y /\ \A j \in x..y : x <= j
    BY <1>1
  <1>4. \A i \in x..y : (\A j \in x..y : i <= j) => i = x
    BY <1>1
  <1>5. First(T, n) = x
    BY <1>2, <1>3, <1>4
  <1>6. Cardinality(x..y) = c
    <2>1. Cardinality(x..y) = IF x > y THEN 0 ELSE y - x + 1
      BY <1>1, FS_Interval
    <2> QED
      BY <1>1, <2>1
  <1>7. Of(T, n.id) = x..y
    BY DEF x
  <1>8. \A k \in x..y : k < x + c
    BY <1>1
  <1> QED
    BY <1>5, <1>6, <1>7, <1>8 DEF x

\* Where the a-th of the nodes begins.
Begin(off, N, a) == off[a] - Count(N[a]) + 1

\* Nodes begin in their order, each behind the last item of the one before.
LEMMA BeginsGrow ==
  ASSUME NEW off, NEW N \in Seq(Nodes), UniqueIds(N), NEW T, LaidOut(off, N, T)
  PROVE  /\ \A a \in 1..Len(N) : off[a] \in Nat /\ Count(N[a]) \in Nat /\ Count(N[a]) > 0 /\ Count(N[a]) <= off[a]
         /\ \A a, b \in 1..Len(N) : a < b => off[a] < Begin(off, N, b) /\ Begin(off, N, a) < Begin(off, N, b)
  <1> DEFINE n == Len(N)
             c(i) == Count(N[i])
  <1>1. n \in Nat /\ \A i \in 1..n : N[i] \in Nodes
    OBVIOUS
  <1>2. \A i \in 1..n : c(i) \in Nat /\ c(i) > 0
    BY <1>1, StopsCount
  <1>3. off \in [0..n -> Nat] /\ \A i \in 1..n : off[i - 1] + c(i) <= off[i]
    BY DEF LaidOut
  <1>4. \A i, j \in 0..n : i <= j => off[i] <= off[j]
    BY LaidOutPlaces
  <1> HIDE DEF n, c
  <1>5. ASSUME NEW i \in 1..n
        PROVE off[i] \in Nat /\ off[i - 1] \in Nat /\ c(i) \in Nat /\ c(i) > 0 /\ off[i - 1] + c(i) <= off[i] /\ i - 1 \in 0..n
    <2>1. i \in 0..n /\ i - 1 \in 0..n
      BY <1>1
    <2>2. off[i] \in Nat /\ off[i - 1] \in Nat
      BY <1>3, <2>1
    <2> QED
      BY <1>2, <1>3, <2>1, <2>2
  <1>6. ASSUME NEW a \in 1..n PROVE off[a] \in Nat /\ c(a) \in Nat /\ c(a) > 0 /\ c(a) <= off[a]
    <2>1. off[a] \in Nat /\ off[a - 1] \in Nat /\ c(a) \in Nat /\ c(a) > 0 /\ off[a - 1] + c(a) <= off[a]
      BY <1>5
    <2> QED
      BY <2>1
  <1>7. ASSUME NEW a \in 1..n, NEW b \in 1..n, a < b PROVE off[a] < off[b] - c(b) + 1 /\ off[a] - c(a) + 1 < off[b] - c(b) + 1
    <2>1. a \in 0..n /\ b - 1 \in 0..n /\ a <= b - 1
      BY <1>1, <1>7
    <2>2. off[a] <= off[b - 1]
      BY <1>4, <2>1
    <2>3. off[b - 1] \in Nat /\ off[b] \in Nat /\ c(b) \in Nat /\ off[b - 1] + c(b) <= off[b]
      BY <1>5
    <2>4. off[a] \in Nat /\ c(a) \in Nat /\ c(a) > 0
      BY <1>6
    <2>5. off[b - 1] \in Nat
      BY <1>5
    <2> DEFINE x == off[a]
               w == off[b - 1]
               y == off[b]
               d == c(a)
               e == c(b)
    <2>6. x <= w /\ w \in Nat /\ y \in Nat /\ e \in Nat /\ w + e <= y /\ x \in Nat /\ d \in Nat /\ d > 0
      BY <2>2, <2>3, <2>4, <2>5
    <2> HIDE DEF x, w, y, d, e
    <2>7. x < y - e + 1 /\ x - d + 1 < y - e + 1
      BY <2>6
    <2> QED
      BY <2>7 DEF x, y, d, e
  <1>8. \A a \in 1..Len(N) : off[a] \in Nat /\ Count(N[a]) \in Nat /\ Count(N[a]) > 0 /\ Count(N[a]) <= off[a]
    BY <1>6 DEF n, c
  <1>9. ASSUME NEW a \in 1..Len(N), NEW b \in 1..Len(N), a < b
        PROVE  off[a] < Begin(off, N, b) /\ Begin(off, N, a) < Begin(off, N, b)
    <2>1. off[a] < off[b] - c(b) + 1 /\ off[a] - c(a) + 1 < off[b] - c(b) + 1
      BY <1>7, <1>9 DEF n
    <2> QED
      BY <2>1 DEF c, Begin
  <1> QED
    BY <1>8, <1>9

\* The nodes of a stored document are in their places in its trajectory.
LEMMA AllInPlace ==
  ASSUME NEW doc, Stored(doc)
  PROVE  InPlace(Trajectory(doc), Wanted, WantedLinks, WantedLed)
  <1> DEFINE L == Strip(sent.nodes)
             W == Wanted
             N == doc.nodes
             T == Trajectory(doc)
             links == WantedLinks
             led == WantedLed
             l == Len(W)
  <1>1. IsDocument(sent) /\ doc = Normalize(sent)
    BY DEF Stored
  <1>2. N = Ordered(L)
    BY <1>1, PairsAgain DEF IsDocument, NormalNodes
  <1>3. SameNodes(L, W) /\ LinkPairs(links, L) /\ led = LedTo(links, L)
    BY <1>1, StrippedIsWanted, WantedLinksPair, WantedIsLed
  <1>4. PICK off : LaidOut(off, N, T)
    BY TrajectoryLaidOut
  <1>5. N \in Seq(Nodes)
    BY StoredFacts
  <1> HIDE DEF L, W, N, T, links, led
  <1>6. L \in Seq(Nodes) /\ W \in Seq(Nodes) /\ Len(L) = l /\ l \in Nat /\ DOMAIN W = 1..l /\ DOMAIN L = 1..l /\ UniqueIds(L)
    BY <1>3 DEF SameNodes
  <1>7. IsInjective(L) /\ IdsTell(L)
    BY <1>3, <1>6, UniqueForms
  <1>8. IsInjective(N) /\ ToSet(N) = ToSet(L) /\ Len(N) = l /\ IdsTell(N) /\ DOMAIN N = 1..l
    <2>1. IsInjective(N) /\ ToSet(N) = ToSet(L) /\ Len(N) = Len(L)
      BY <1>2, <1>6, OrderedFacts
    <2>2. IdsTell(N)
      BY <1>7, <2>1 DEF IdsTell
    <2> QED
      BY <1>5, <1>6, <2>1, <2>2
  <1>9. UniqueIds(N)
    BY <1>5, <1>8, UniqueForms
  <1>10. \A a, b \in 1..l : N[a].id \in led /\ N[a].next = N[b].id /\ a < b => b = a + 1
    <2>1. \A a, b \in 1..Len(Ordered(L)) :
             Ordered(L)[a].id \in LedTo(links, L) /\ Ordered(L)[a].next = Ordered(L)[b].id /\ a < b => b = a + 1
      BY <1>3, <1>6, OrderedPlaces
    <2> QED
      BY <1>2, <1>3, <1>8, <2>1
  <1>11. \A i, j \in 1..l, a, b \in 1..l :
            N[a] = L[i] /\ N[b] = L[j] /\ L[j].id \notin led /\ (i < j \/ L[i].id \in led) => a <= b
    <2>1. \A i, j \in 1..Len(L), a, b \in 1..Len(Ordered(L)) :
             Ordered(L)[a] = L[i] /\ Ordered(L)[b] = L[j] /\ L[j].id \notin LedTo(links, L) /\ (i < j \/ L[i].id \in LedTo(links, L)) => a <= b
      BY <1>3, <1>6, OrderedPlaces
    <2> QED
      BY <1>2, <1>3, <1>6, <1>8, <2>1
  <1>12. /\ \A a \in 1..l : off[a] \in Nat /\ Count(N[a]) \in Nat /\ Count(N[a]) > 0 /\ Count(N[a]) <= off[a]
         /\ \A a, b \in 1..l : a < b => off[a] < Begin(off, N, b) /\ Begin(off, N, a) < Begin(off, N, b)
    BY <1>4, <1>5, <1>8, <1>9, BeginsGrow
  <1>13. \A a \in 1..l : Of(T, N[a].id) = (off[a] - Count(N[a]) + 1)..off[a]
    BY <1>4, <1>5, <1>8, <1>9, LaidOutPlaces
  <1>14. ASSUME NEW b \in 1..l, NEW k \in (off[b - 1] + 1)..off[b], k <= off[b] - Count(N[b]) PROVE T[k].node = 0
    BY <1>4, <1>8, <1>14 DEF LaidOut
  <1>15. \A i \in 1..l : L[i] \in ToSet(L) /\ W[i].id = L[i].id /\ Count(W[i]) = Count(L[i]) /\ W[i] \in ToSet(W)
    <2>1. \A i \in 1..l : W[i].id = L[i].id /\ Count(W[i]) = Count(L[i])
      BY <1>3 DEF SameNodes, Alike, Count
    <2>2. \A i \in 1..l : L[i] \in ToSet(L) /\ W[i] \in ToSet(W)
      BY <1>6 DEF ToSet
    <2> QED
      BY <2>1, <2>2
  <1>16. \A n \in ToSet(W) : \E i \in 1..l : n = W[i]
    BY <1>6 DEF ToSet
  <1> HIDE DEF l
  <1>17. ASSUME NEW i \in 1..l
         PROVE  \E a \in 1..l :
                   /\ N[a] = L[i] /\ First(T, W[i]) = Begin(off, N, a) /\ First(T, W[i]) + Count(W[i]) = off[a] + 1
                   /\ Cardinality(Of(T, W[i].id)) = Count(W[i])
                   /\ \A k \in Of(T, W[i].id) : k < First(T, W[i]) + Count(W[i])
    <2>1. L[i] \in ToSet(N)
      BY <1>8, <1>15
    <2>2. PICK a \in 1..l : N[a] = L[i]
      BY <1>8, <2>1 DEF ToSet
    <2> DEFINE y == off[a]
               c == Count(W[i])
               n == W[i]
    <2>3. c = Count(N[a]) /\ n.id = N[a].id
      BY <1>15, <2>2
    <2>4. y \in Nat /\ c \in Nat /\ c > 0 /\ c <= y
      BY <1>12, <2>3
    <2>5. Of(T, n.id) = (y - c + 1)..y
      BY <1>13, <2>3
    <2>6. Begin(off, N, a) = y - c + 1
      BY <2>3 DEF Begin
    <2> HIDE DEF y, c, n
    <2>7. First(T, n) = y - c + 1 /\ Cardinality(Of(T, n.id)) = c /\ \A k \in Of(T, n.id) : k < First(T, n) + c
      <3>1. First(T, n) = y - c + 1
        BY <2>4, <2>5, FirstOf
      <3>2. Cardinality(Of(T, n.id)) = c
        BY <2>4, <2>5, FirstOf
      <3>3. \A k \in Of(T, n.id) : k < First(T, n) + c
        BY <2>4, <2>5, FirstOf
      <3> QED
        BY <3>1, <3>2, <3>3
    <2>8. First(T, n) + c = y + 1
      BY <2>4, <2>7
    <2>9. First(T, n) = Begin(off, N, a)
      BY <2>6, <2>7
    <2> QED
      BY <2>2, <2>7, <2>8, <2>9 DEF y, c, n
  <1>18. ASSUME NEW n \in ToSet(W)
         PROVE  Cardinality(Of(T, n.id)) = Count(n) /\ \A k \in Of(T, n.id) : k < First(T, n) + Count(n)
    <2>1. PICK i \in 1..l : n = W[i]
      BY <1>16
    <2> QED
      BY <1>17, <2>1
  <1>19. ASSUME NEW m \in ToSet(W), NEW n \in ToSet(W), m.id \in led, <<m.id, n.id>> \in links, First(T, m) < First(T, n),
                NEW k \in (First(T, m) + Count(m))..(First(T, n) - 1)
         PROVE  T[k].node = 0
    <2>1. PICK i \in 1..l, j \in 1..l : m = W[i] /\ n = W[j]
      BY <1>16
    <2>2. PICK a \in 1..l : N[a] = L[i] /\ First(T, m) = Begin(off, N, a) /\ First(T, m) + Count(m) = off[a] + 1
      BY <1>17, <2>1
    <2>3. PICK b \in 1..l : N[b] = L[j] /\ First(T, n) = Begin(off, N, b)
      BY <1>17, <2>1
    <2>i. a \in Int /\ b \in Int
      BY <1>6
    <2>4. \A c \in 1..l : Begin(off, N, c) \in Int
      BY <1>12 DEF Begin
    <2>5. a < b
      <3>1. a # b
        BY <1>19, <2>2, <2>3, <2>4
      <3>2. ~(b < a)
        <4> SUFFICES ASSUME b < a PROVE FALSE
          OBVIOUS
        <4>1. First(T, n) < First(T, m) /\ First(T, n) \in Int /\ First(T, m) \in Int
          BY <1>12, <2>2, <2>3, <2>4
        <4> QED
          BY <1>19, <4>1
      <3> QED
        BY <2>i, <3>1, <3>2
    <2>6. N[a].next = N[b].id /\ N[a].id \in led
      <3>1. L[i] \in ToSet(L) /\ L[j] \in ToSet(L) /\ m.id = L[i].id /\ n.id = L[j].id
        BY <1>15, <2>1
      <3>2. L[i].next = L[j].id
        BY <1>3, <1>19, <3>1 DEF LinkPairs
      <3> QED
        BY <1>19, <2>2, <2>3, <3>1, <3>2
    <2>7. b = a + 1
      BY <1>10, <2>5, <2>6
    <2>8. k \in (off[b - 1] + 1)..off[b] /\ k <= off[b] - Count(N[b])
      <3> DEFINE x == off[a]
                 y == off[b]
                 c == Count(N[b])
      <3>1. x \in Nat /\ y \in Nat /\ c \in Nat /\ c > 0 /\ c <= y
        BY <1>12
      <3>2. b - 1 = a
        BY <2>7, <2>i
      <3>3. k \in (x + 1)..((y - c + 1) - 1)
        BY <2>2, <2>3 DEF Begin
      <3> HIDE DEF x, y, c
      <3>4. k \in (x + 1)..y /\ k <= y - c
        BY <3>1, <3>3
      <3> QED
        BY <3>2, <3>4 DEF x, y, c
    <2> QED
      BY <1>14, <2>8
  <1>20. ASSUME NEW i \in 1..l, NEW j \in 1..l, W[j].id \notin led, i < j \/ W[i].id \in led
         PROVE  First(T, W[i]) <= First(T, W[j])
    <2>1. PICK a \in 1..l : N[a] = L[i] /\ First(T, W[i]) = Begin(off, N, a)
      BY <1>17
    <2>2. PICK b \in 1..l : N[b] = L[j] /\ First(T, W[j]) = Begin(off, N, b)
      BY <1>17
    <2>3. a <= b
      BY <1>11, <1>15, <1>20, <2>1, <2>2
    <2>4. Begin(off, N, a) \in Int /\ Begin(off, N, b) \in Int
      BY <1>12 DEF Begin
    <2>5. CASE a = b
      BY <2>1, <2>2, <2>4, <2>5
    <2>6. CASE a # b
      <3>1. a < b
        BY <1>6, <2>3, <2>6
      <3>2. Begin(off, N, a) < Begin(off, N, b)
        BY <1>12, <3>1
      <3> QED
        BY <2>1, <2>2, <2>4, <3>2
    <2> QED
      BY <2>5, <2>6
  <1>21. InPlace(T, W, links, led)
    BY <1>6, <1>18, <1>19, <1>20 DEF InPlace
  <1> QED
    BY <1>21 DEF T, W, links, led

\* Each node of the client's is run once, if each has an id of its own: as often as it
\* has scans and without anything in between, along the links from the first home, then
\* in the list's order.
THEOREM EveryNodeInItsPlaceCorrect == Spec => []EveryNodeInItsPlace
  <1>1. LoadInv => EveryNodeInItsPlace
    <2> SUFFICES ASSUME LoadInv PROVE EveryNodeInItsPlace
      OBVIOUS
    <2>1. ASSUME file # NoFile, UniqueIds(sent.nodes) PROVE InPlace(trajectory, Wanted, WantedLinks, WantedLed)
      <3>1. Stored(file) /\ trajectory = Trajectory(file)
        BY <2>1 DEF LoadInv
      <3> QED
        BY <3>1, AllInPlace
    <2> QED
      BY <2>1, PlacesForm
  <1> QED
    BY <1>1, LoadInvariance, PTL

-----------------------------------------------------------------------------
(* How the table turns on the way. *)

\* Integer division and its rest.
LEMMA Division ==
  ASSUME NEW p \in Int, NEW q \in Nat \ {0}
  PROVE  p \div q \in Int /\ p % q \in 0..(q - 1) /\ p = q * (p \div q) + (p % q)
  OBVIOUS

\* The multiples of q are at least q apart.
LEMMA DivisionGrows ==
  ASSUME NEW q \in Nat \ {0}, NEW f \in Int, NEW g \in Int, f < g
  PROVE  q * f + q <= q * g
  <1>1. PICK d \in Nat : g = f + 1 + d
    <2>1. g - f - 1 \in Nat /\ g = f + 1 + (g - f - 1)
      OBVIOUS
    <2> QED
      BY <2>1
  <1>2. q * g = q * f + q + q * d
    BY <1>1
  <1>3. q * d >= 0
    OBVIOUS
  <1> QED
    BY <1>2, <1>3

\* Rounding keeps the order of fractions with one denominator.
LEMMA RoundGrows ==
  ASSUME NEW q \in Nat \ {0}, NEW a \in Int, NEW b \in Int, a <= b
  PROVE  Round(a, q) <= Round(b, q)
  <1> DEFINE f == a \div q
             r == a % q
             g == b \div q
             s == b % q
  <1>1. f \in Int /\ r \in 0..(q - 1) /\ a = q * f + r
    BY Division
  <1>2. g \in Int /\ s \in 0..(q - 1) /\ b = q * g + s
    BY Division
  <1>3. Round(a, q) = IF 2 * r < q \/ (2 * r = q /\ f % 2 = 0) THEN f ELSE f + 1
    BY DEF Round
  <1>4. Round(b, q) = IF 2 * s < q \/ (2 * s = q /\ g % 2 = 0) THEN g ELSE g + 1
    BY DEF Round
  <1> HIDE DEF f, r, g, s
  <1>5. ~(g < f)
    <2> SUFFICES ASSUME g < f PROVE FALSE
      OBVIOUS
    <2> DEFINE x == q * f
               y == q * g
    <2>1. y + q <= x
      BY <1>1, <1>2, DivisionGrows
    <2>2. x \in Int /\ y \in Int /\ a = x + r /\ b = y + s
      BY <1>1, <1>2
    <2> HIDE DEF x, y
    <2> QED
      BY <1>1, <1>2, <2>1, <2>2
  <1>6. CASE f < g
    BY <1>1, <1>2, <1>3, <1>4, <1>6
  <1>7. CASE f = g
    <2>1. r <= s
      <3> DEFINE x == q * f
      <3>1. x \in Int /\ a = x + r /\ b = x + s
        BY <1>1, <1>2, <1>7
      <3> HIDE DEF x
      <3> QED
        BY <1>1, <1>2, <3>1
    <2> QED
      BY <1>1, <1>2, <1>3, <1>4, <1>7, <2>1
  <1> QED
    BY <1>1, <1>2, <1>5, <1>6, <1>7

\* A rounded fraction is an integer.
LEMMA RoundIsInt == ASSUME NEW p \in Int, NEW q \in Nat \ {0} PROVE Round(p, q) \in Int
  <1>1. p \div q \in Int /\ p % q \in Int
    OBVIOUS
  <1> QED
    BY <1>1 DEF Round

\* So does rounding to the counts of the encoder.
LEMMA QuantizeGrows ==
  ASSUME NEW q \in Nat \ {0}, NEW a \in Int, NEW b \in Int, a <= b
  PROVE  Quantize(a, q) <= Quantize(b, q)
  <1>1. Round(a, q) <= Round(b, q) /\ Round(a, q) \in Int /\ Round(b, q) \in Int
    BY RoundGrows, RoundIsInt
  <1>2. \A c, d \in Int : c <= d => Clamp(c) <= Clamp(d)
    BY RevAssumption DEF Clamp
  <1> QED
    BY <1>1, <1>2 DEF Quantize

\* What is divided without a rest is not rounded.
LEMMA RoundWhole ==
  ASSUME NEW q \in Nat \ {0}, NEW a \in Int
  PROVE  Round(a * q, q) = a
  <1> DEFINE p == a * q
             f == p \div q
             r == p % q
  <1>1. p \in Int
    OBVIOUS
  <1>2. f \in Int /\ r \in 0..(q - 1) /\ p = q * f + r
    BY <1>1, Division
  <1>3. p = q * a
    OBVIOUS
  <1>4. Round(p, q) = IF 2 * r < q \/ (2 * r = q /\ f % 2 = 0) THEN f ELSE f + 1
    BY DEF Round
  <1> HIDE DEF p, f, r
  <1>5. f = a
    <2> DEFINE x == q * f
               y == q * a
    <2>1. x \in Int /\ y \in Int /\ y = x + r
      BY <1>2, <1>3
    <2>2. a < f => y + q <= x
      BY <1>2, DivisionGrows
    <2>3. f < a => x + q <= y
      BY <1>2, DivisionGrows
    <2> HIDE DEF x, y
    <2> QED
      BY <1>2, <2>1, <2>2, <2>3
  <1>6. r = 0
    <2> DEFINE x == q * f
    <2>1. x \in Int /\ p = x /\ p = x + r
      BY <1>2, <1>3, <1>5
    <2> HIDE DEF x
    <2> QED
      BY <1>2, <2>1
  <1>7. Round(p, q) = a
    BY <1>4, <1>5, <1>6
  <1> QED
    BY <1>7 DEF p

\* x is between a and b, whichever is the greater.
Lies(x, a, b) == (a <= x /\ x <= b) \/ (b <= x /\ x <= a)

\* An angle on the way lies between the one before it and the last, and between the
\* first and the last.
LEMMA InterpolateLies ==
  ASSUME NEW s \in Angles, NEW e \in Angles, NEW c \in Nat, NEW k \in 1..c
  PROVE  LET A == Interpolate(s, e, c)
         IN Lies(A[k], s, e) /\ (k = 1 \/ Lies(A[k], A[k - 1], e))
  <1> DEFINE q == c + 1
             v(i) == s * q - (s - e) * i
             z(i) == Quantize(v(i), q)
             A == Interpolate(s, e, c)
  <1>1. s \in Int /\ e \in Int /\ 0 <= s /\ s <= Rev /\ 0 <= e /\ e <= Rev /\ q \in Nat \ {0}
    BY RevAssumption DEF Angles
  <1>2. \A i \in 1..c : A[i] = z(i)
    BY DEF Interpolate
  <1> HIDE DEF q, A
  <1>3. \A i \in Int : v(i) \in Int
    BY <1>1
  <1>4. z(0) = s /\ z(q) = e
    <2>1. v(0) = s * q /\ v(q) = e * q
      BY <1>1
    <2>2. Round(s * q, q) = s /\ Round(e * q, q) = e
      BY <1>1, RoundWhole
    <2>3. Clamp(s) = s /\ Clamp(e) = e
      BY <1>1, RevAssumption DEF Clamp
    <2> HIDE DEF v
    <2> QED
      BY <2>1, <2>2, <2>3 DEF Quantize
  <1>5. ASSUME NEW i \in Int, NEW j \in Int, i <= j
        PROVE  /\ e <= s => v(j) <= v(i)
               /\ s <= e => v(i) <= v(j)
    <2> DEFINE d == j - i
               w == s - e
    <2>1. v(i) - v(j) = w * d
      BY <1>1
    <2>2. d \in Nat /\ w \in Int
      BY <1>1, <1>5
    <2>3. (0 <= w => 0 <= w * d) /\ (w <= 0 => w * d <= 0)
      <3> HIDE DEF d, w
      <3> QED
        BY <2>2
    <2>4. v(i) \in Int /\ v(j) \in Int /\ w * d \in Int
      BY <1>3, <2>2
    <2>5. (e <= s => 0 <= w) /\ (s <= e => w <= 0)
      BY <1>1
    <2> DEFINE m == w * d
    <2> HIDE DEF v, m
    <2> QED
      BY <2>1, <2>3, <2>4, <2>5 DEF m
  <1> HIDE DEF v
  <1>6. ASSUME NEW i \in Int, NEW j \in Int, i <= j
        PROVE  /\ e <= s => z(j) <= z(i)
               /\ s <= e => z(i) <= z(j)
    <2>1. v(i) \in Int /\ v(j) \in Int
      BY <1>3
    <2> QED
      BY <1>1, <1>5, <1>6, <2>1, QuantizeGrows
  <1> HIDE DEF z
  <1>7. k \in Int /\ k - 1 \in Int /\ 0 <= k /\ k <= q /\ k - 1 <= k /\ q \in Int
    BY DEF q
  <1>8. Lies(z(k), s, e) /\ Lies(z(k), z(k - 1), e)
    <2>1. e <= s => z(k) <= z(0) /\ z(q) <= z(k) /\ z(k) <= z(k - 1)
      BY <1>6, <1>7
    <2>2. s <= e => z(0) <= z(k) /\ z(k) <= z(q) /\ z(k - 1) <= z(k)
      BY <1>6, <1>7
    <2>3. e <= s \/ s <= e
      BY <1>1
    <2> QED
      BY <1>4, <2>1, <2>2, <2>3 DEF Lies
  <1>9. k = 1 \/ A[k - 1] = z(k - 1)
    <2>1. k = 1 \/ k - 1 \in 1..c
      OBVIOUS
    <2> QED
      BY <1>2, <2>1
  <1>10. A[k] = z(k)
    BY <1>2
  <1> QED
    BY <1>8, <1>9, <1>10 DEF A

\* The one scan of a range: the code plans from the range's end, where it is not.
OneOfRange(n) == n.type = "advanced_scan" /\ n.mode = "range" /\ n.count = 1

\* A node leaves the table at its exit angle.
LEMMA LastStop ==
  ASSUME NEW n \in Nodes, ~OneOfRange(n)
  PROVE  Stops(n)[Count(n)].angle = Exit(n) /\ Exit(n) \in Angles /\ Entry(n) \in Angles
  <1> DEFINE c == Count(n)
             a == NodeAngles(n)
             s == n.start
             e == n.by
  <1>1. n.start \in Int /\ n.by \in Int /\ n.count \in Nat \ {0} /\ n.mode \in {"range", "step"}
    BY DEF Nodes
  <1>2. c \in Nat /\ c > 0 /\ Len(Stops(n)) = c
    BY StopsCount
  <1>3. Stops(n) \in Seq(Items)
    BY StopsFacts
  <1>4. DOMAIN a = 1..c
    <2>1. DOMAIN Stops(n) = 1..c
      BY <1>2, <1>3
    <2> QED
      BY <2>1 DEF Stops
  <1>5. Stops(n)[c].angle = a[c]
    <2>1. c \in DOMAIN a
      BY <1>2, <1>4
    <2> HIDE DEF c, a
    <2> QED
      BY <2>1 DEF Stops, a
  <1>6. a[c] = Exit(n)
    <2>1. CASE n.type # "advanced_scan"
      <3>1. a = <<Clamp(n.start)>> /\ c = 1 /\ Exit(n) = Clamp(n.start)
        BY <2>1 DEF NodeAngles, Count, Exit
      <3> HIDE DEF a, c
      <3> QED
        BY <3>1
    <2>2. CASE n.type = "advanced_scan" /\ n.mode = "step"
      <3>1. a = StepAngles(s, e, c) /\ Exit(n) = Clamp(s + (c - 1) * e)
        BY <2>2 DEF NodeAngles, Count, Exit
      <3> HIDE DEF a, c
      <3>2. c \in 1..c
        BY <1>2
      <3> QED
        BY <3>1, <3>2 DEF StepAngles
    <2>3. CASE n.type = "advanced_scan" /\ n.mode = "range"
      <3>1. a = RangeAngles(s, e, c) /\ Exit(n) = Clamp(e) /\ c = n.count /\ c # 1
        BY <2>3 DEF NodeAngles, Count, Exit, OneOfRange
      <3> HIDE DEF a, c
      <3>2. c \in 1..c /\ c > 1 /\ c \in Nat \ {0} /\ c - 1 \in Nat \ {0}
        BY <1>2, <3>1
      <3>3. Clamp(s) \in Angles /\ Clamp(e) \in Angles /\ s \in Int /\ e \in Int
        BY <1>1, ClampType
      <3>r. Rev \in Nat \ {0} /\ 0 # Rev
        BY RevAssumption
      <3>4. CASE IsFullRevolution(Clamp(s), Clamp(e)) /\ Clamp(s) = 0
        <4>1. Clamp(e) = Rev
          BY <3>r, <3>4 DEF IsFullRevolution
        <4>2. a[c] = Quantize(Rev * c, c)
          BY <3>1, <3>2, <3>4 DEF RangeAngles
        <4>3. Round(Rev * c, c) = Rev
          BY <3>2, <3>r, RoundWhole
        <4>4. Clamp(Rev) = Rev
          BY <3>r DEF Clamp
        <4> QED
          BY <3>1, <4>1, <4>2, <4>3, <4>4 DEF Quantize
      <3>5. CASE IsFullRevolution(Clamp(s), Clamp(e)) /\ Clamp(s) = Rev
        <4>1. Clamp(e) = 0
          BY <3>r, <3>5 DEF IsFullRevolution
        <4>2. a[c] = Quantize(Rev * (c - c), c)
          BY <3>1, <3>2, <3>5, <3>r DEF RangeAngles
        <4>3. Rev * (c - c) = 0 * c
          BY <3>2, <3>r
        <4>4. Round(0 * c, c) = 0
          BY <3>2, RoundWhole
        <4>5. Clamp(0) = 0
          BY <3>r DEF Clamp
        <4> QED
          BY <3>1, <4>1, <4>2, <4>3, <4>4, <4>5 DEF Quantize
      <3>6. CASE ~IsFullRevolution(Clamp(s), Clamp(e))
        <4> DEFINE q == c - 1
        <4>1. a[c] = Quantize(s * q + (e - s) * (c - 1), q)
          BY <3>1, <3>2, <3>6 DEF RangeAngles
        <4>2. s * q + (e - s) * (c - 1) = e * q
          BY <3>2, <3>3
        <4>3. Round(e * q, q) = e
          BY <3>2, <3>3, RoundWhole
        <4> HIDE DEF q
        <4> QED
          BY <3>1, <4>1, <4>2, <4>3 DEF Quantize
      <3>7. IsFullRevolution(Clamp(s), Clamp(e)) => Clamp(s) = 0 \/ Clamp(s) = Rev
        BY DEF IsFullRevolution
      <3> QED
        BY <3>4, <3>5, <3>6, <3>7
    <2> QED
      BY <1>1, <2>1, <2>2, <2>3
  <1>7. Exit(n) \in Angles /\ Entry(n) \in Angles
    BY NodeAnglesType
  <1> QED
    BY <1>5, <1>6, <1>7

\* The part of a node: the angles before its stops are those on the way, and the
\* first node's has none; then come its stops.
Turning(part, doc, i) ==
    LET n == doc.nodes[i]
        gap == Len(part) - Count(n)
    IN /\ gap \in Nat /\ (i = 1 => gap = 0)
       /\ \A k \in 1..gap : part[k].angle = Interpolate(Exit(doc.nodes[i - 1]), Entry(n), gap)[k]
       /\ \A k \in 1..Count(n) : part[gap + k] = Stops(n)[k]

\* The part of each node of a stored document does.
LEMMA PartTurns ==
  ASSUME NEW doc, Stored(doc), NEW i \in 1..Len(doc.nodes)
  PROVE  Turning(Part(doc, i), doc, i)
  <1> DEFINE n == doc.nodes[i]
             s == Stops(n)
             c == Count(n)
  <1>1. doc.nodes \in Seq(Nodes) /\ n \in Nodes
    BY StoredFacts
  <1>2. s \in Seq(Items) /\ Len(s) = c /\ c \in Nat /\ c > 0
    BY <1>1, StopsFacts, StopsCount
  <1>3. CASE i = 1
    <2>1. Part(doc, i) = <<>> \o s
      BY <1>3 DEF Part
    <2> HIDE DEF s, n, c
    <2>2. Part(doc, i) = s
      BY <1>2, <2>1
    <2>3. Len(s) - c = 0
      BY <1>2
    <2> QED
      BY <1>2, <2>2, <2>3 DEF Turning, n, c, s
  <1>4. CASE i # 1
    <2> DEFINE from == doc.nodes[i - 1]
               points == Between(doc, from, n)
               T == Transitions(doc, from, n)
               l == Len(T)
    <2>1. from \in Nodes /\ i \in 2..Len(doc.nodes)
      <3>1. i - 1 \in 1..Len(doc.nodes) /\ i \in 2..Len(doc.nodes)
        BY <1>1, <1>4
      <3> QED
        BY <1>1, <3>1
    <2>2. Part(doc, i) = T \o s
      BY <1>4 DEF Part
    <2>3. T \in Seq(Items) /\ l = Len(points)
      <3>1. from.point \in Nat
        BY <2>1 DEF Nodes
      <3>2. Searched(doc, <<from.point>>)
        BY <3>1, StoredFacts
      <3>3. HasDirect(doc, from.point, n.point) \/ FindRoute(doc, <<from.point>>, n.point) # <<>>
        BY <2>1, StoredFacts
      <3> HIDE DEF T, n, from
      <3>4. Crosses(T, doc, from.point, n.point) /\ Len(T) = Len(Between(doc, from, n))
        BY <1>1, <2>1, <3>2, <3>3, TransitionsFacts DEF T
      <3> QED
        BY <3>4 DEF Crosses
    <2> DEFINE angles == Interpolate(Exit(from), Entry(n), l)
    <2>4. \A k \in 1..l : T[k].angle = angles[k]
      <3>1. T = [k \in DOMAIN points |-> [point |-> points[k], node |-> 0,
                                          angle |-> Interpolate(Exit(from), Entry(n), Len(points))[k]]]
        BY DEF Transitions
      <3>2. DOMAIN T = 1..l
        BY <2>3
      <3> HIDE DEF points, T, l
      <3> QED
        BY <2>3, <3>1, <3>2
    <2> HIDE DEF T, s, n, from, c, angles
    <2> DEFINE part == T \o s
    <2>5. l \in Nat
      BY <2>3
    <2>6. /\ Len(part) = l + c
          /\ \A k \in 1..l : part[k] = T[k]
          /\ \A k \in (l + 1)..(l + c) : part[k] = s[k - l]
      <3>2. /\ Len(part) = l + Len(s)
            /\ \A k \in 1..l : part[k] = T[k]
            /\ \A k \in (l + 1)..(l + Len(s)) : part[k] = s[k - l]
        BY <1>2, <2>3, ConcatEntries
      <3> QED
        BY <1>2, <3>2
    <2> HIDE DEF l, part
    <2>7. Len(part) - c = l
      BY <1>2, <2>5, <2>6
    <2>8. \A k \in 1..c : part[l + k] = s[k]
      <3>1. \A k \in 1..c : l + k \in (l + 1)..(l + c) /\ (l + k) - l = k
        BY <1>2, <2>5
      <3> QED
        BY <2>6, <3>1
    <2>9. Part(doc, i) = part
      BY <2>2 DEF part
    <2>10. \A k \in 1..l : part[k].angle = angles[k]
      BY <2>4, <2>6
    <2> QED
      BY <1>4, <2>5, <2>7, <2>8, <2>9, <2>10 DEF Turning, n, c, s, from, angles
  <1> QED
    BY <1>3, <1>4

\* The client's node of a place of a trajectory, and the places around a transition.
NodeAt(T, j) == CHOOSE n \in ToSet(Wanted) : n.id = T[j].node
LeavesAt(T, i) == CHOOSE j \in 1..(i - 1) : T[j].node # 0 /\ \A k \in (j + 1)..i : T[k].node = 0
EntersAt(T, i) == CHOOSE j \in (i + 1)..Len(T) : T[j].node # 0 /\ \A k \in i..(j - 1) : T[k].node = 0

\* What TableTurnsOnTheWay says of a trajectory.
OnTheWay(T) ==
    \A i \in DOMAIN T :
        T[i].node = 0 /\ ~OneOfRange(NodeAt(T, LeavesAt(T, i))) =>
            /\ Lies(T[i].angle, T[i - 1].angle, Entry(NodeAt(T, EntersAt(T, i))))
            /\ Lies(T[i].angle, T[LeavesAt(T, i)].angle, Entry(NodeAt(T, EntersAt(T, i))))

\* The property is this, of the loaded trajectory.
LEMMA TurnsForm == OnTheWay(trajectory) => TableTurnsOnTheWay
  BY DEF OnTheWay, TableTurnsOnTheWay, NodeAt, LeavesAt, EntersAt, OneOfRange, Lies

\* A node of the normalised document is the client's but for its link.
LEMMA NodeIsWanted ==
  ASSUME NEW doc, Stored(doc), NEW a \in 1..Len(doc.nodes), NEW T, NEW j, T[j].node = doc.nodes[a].id
  PROVE  Alike(doc.nodes[a], NodeAt(T, j))
  <1> DEFINE L == Strip(sent.nodes)
             W == Wanted
             N == doc.nodes
             l == Len(W)
  <1>1. IsDocument(sent) /\ doc = Normalize(sent)
    BY DEF Stored
  <1>2. N = Ordered(L)
    BY <1>1, PairsAgain DEF IsDocument, NormalNodes
  <1>3. SameNodes(L, W)
    BY <1>1, StrippedIsWanted
  <1>4. N \in Seq(Nodes) /\ a \in 1..Len(N)
    BY StoredFacts
  <1>5. T[j].node = N[a].id
    OBVIOUS
  <1>a. NodeAt(T, j) = CHOOSE n \in ToSet(W) : n.id = T[j].node
    BY DEF NodeAt
  <1> HIDE DEF L, W, N
  <1>6. L \in Seq(Nodes) /\ W \in Seq(Nodes) /\ Len(L) = l /\ DOMAIN W = 1..l /\ DOMAIN L = 1..l /\ UniqueIds(L) /\ UniqueIds(W)
    BY <1>3 DEF SameNodes
  <1>7. IsInjective(L) /\ IdsTell(W)
    BY <1>6, UniqueForms
  <1>8. ToSet(N) = ToSet(L)
    BY <1>2, <1>6, OrderedFacts
  <1>9. N[a] \in ToSet(L)
    <2>1. a \in DOMAIN N
      BY <1>4
    <2> QED
      BY <1>8, <2>1 DEF ToSet
  <1>10. PICK i \in 1..l : N[a] = L[i]
    BY <1>6, <1>9 DEF ToSet
  <1>11. Alike(L[i], W[i]) /\ W[i] \in ToSet(W)
    <2>1. W[i] \in ToSet(W)
      BY <1>6 DEF ToSet
    <2> QED
      BY <1>3, <2>1 DEF SameNodes
  <1>12. W[i].id = T[j].node
    BY <1>5, <1>10, <1>11 DEF Alike
  <1>13. NodeAt(T, j) = W[i]
    <2>1. NodeAt(T, j) \in ToSet(W) /\ NodeAt(T, j).id = T[j].node
      BY <1>a, <1>11, <1>12
    <2> QED
      BY <1>7, <1>11, <1>12, <2>1 DEF IdsTell
  <1>14. Alike(N[a], NodeAt(T, j))
    BY <1>10, <1>11, <1>13
  <1> QED
    BY <1>14 DEF N

\* A transition lies before a node's items and after those of the one before.
Crossing(off, N, T, p, b) ==
    /\ b \in 2..Len(N) /\ p \in (off[b - 1] + 1)..(off[b] - Count(N[b]))
    /\ LeavesAt(T, p) = off[b - 1] /\ T[off[b - 1]].node = N[b - 1].id
    /\ T[EntersAt(T, p)].node = N[b].id

\* Each transition of a trajectory that is laid out lies so.
LEMMA TransitionPlaces ==
  ASSUME NEW off, NEW N \in Seq(Nodes), NEW T, LaidOut(off, N, T), Len(N) > 0 => off[1] = Count(N[1]),
         NEW p \in DOMAIN T, T[p].node = 0
  PROVE  \E b \in 2..Len(N) : Crossing(off, N, T, p, b)
  <1> DEFINE n == Len(N)
             c(i) == Count(N[i])
  <1>1. n \in Nat /\ \A i \in 1..n : N[i] \in Nodes
    OBVIOUS
  <1>2. T \in Seq(Items) /\ off \in [0..n -> Nat] /\ off[0] = 0 /\ Len(T) = off[n] /\ DOMAIN T = 1..off[n]
    BY DEF LaidOut
  <1>3. \A i \in 1..n : c(i) \in Nat /\ c(i) > 0 /\ N[i].id # 0
    <2> SUFFICES ASSUME NEW i \in 1..n PROVE c(i) \in Nat /\ c(i) > 0 /\ N[i].id # 0
      OBVIOUS
    <2>1. N[i] \in Nodes
      BY <1>1
    <2> QED
      BY <2>1, StopsCount, StopsFacts
  <1>4. \A i \in 1..n : off[i - 1] + c(i) <= off[i]
    BY DEF LaidOut
  <1>5. \A i \in 1..n : \A k \in (off[i - 1] + 1)..off[i] : T[k].node = IF k <= off[i] - c(i) THEN 0 ELSE N[i].id
    BY DEF LaidOut
  <1>6. n > 0 => off[1] = c(1)
    OBVIOUS
  <1> HIDE DEF n, c
  <1>7. \A i \in 1..n : i - 1 \in 0..n /\ i \in 0..n /\ off[i - 1] \in Nat /\ off[i] \in Nat
    <2>1. \A i \in 1..n : i - 1 \in 0..n /\ i \in 0..n
      BY <1>1
    <2> QED
      BY <1>2, <2>1
  <1>8. \A i \in 1..n : off[i - 1] <= off[i]
    <2> SUFFICES ASSUME NEW i \in 1..n PROVE off[i - 1] <= off[i]
      OBVIOUS
    <2>1. off[i - 1] + c(i) <= off[i] /\ c(i) \in Nat /\ off[i - 1] \in Nat /\ off[i] \in Nat
      BY <1>3, <1>4, <1>7
    <2> QED
      BY <2>1
  <1>9. /\ \A i, j \in 0..n : i <= j => off[i] <= off[j]
        /\ \A k \in 1..off[n] : \E i \in 1..n : k \in (off[i - 1] + 1)..off[i]
    BY <1>1, <1>2, <1>8, OffsetsGrow
  <1>10. PICK b \in 1..n : p \in (off[b - 1] + 1)..off[b]
    BY <1>2, <1>9
  <1> DEFINE x == off[b - 1]
             y == off[b]
             d == c(b)
  <1>11. x \in Nat /\ y \in Nat /\ d \in Nat /\ d > 0 /\ x + d <= y /\ p \in (x + 1)..y /\ N[b].id # 0
    BY <1>3, <1>4, <1>7, <1>10
  <1>12. \A k \in (x + 1)..y : T[k].node = IF k <= y - d THEN 0 ELSE N[b].id
    BY <1>5
  <1>13. y <= off[n] /\ off[n] \in Nat
    <2>1. n \in 0..n /\ b \in 0..n /\ b <= n
      BY <1>1
    <2> QED
      BY <1>2, <1>9, <2>1
  <1>14. p \in (x + 1)..(y - d)
    <2> HIDE DEF x, y, d
    <2>1. p <= y - d
      BY <1>11, <1>12
    <2> QED
      BY <1>11, <2>1
  <1>15. b # 1
    <2> SUFFICES ASSUME b = 1 PROVE FALSE
      OBVIOUS
    <2>1. x = 0 /\ y = d
      BY <1>1, <1>2, <1>6
    <2> HIDE DEF x, y, d
    <2> QED
      BY <1>11, <1>14, <2>1
  <1>16. b \in 2..n /\ b - 1 \in 1..n
    BY <1>1, <1>15
  <1>17. x \in 1..off[n] /\ T[x].node = N[b - 1].id /\ N[b - 1].id # 0
    <2> DEFINE a == b - 1
               w == off[a - 1]
               e == c(a)
    <2>1. w \in Nat /\ e \in Nat /\ e > 0 /\ w + e <= x
      BY <1>3, <1>4, <1>7, <1>16
    <2>2. \A k \in (w + 1)..x : T[k].node = IF k <= x - e THEN 0 ELSE N[a].id
      BY <1>5, <1>16
    <2>3. N[a].id # 0
      BY <1>3, <1>16
    <2> HIDE DEF x, y, d, w, e, a
    <2>4. x \in (w + 1)..x /\ ~(x <= x - e) /\ x \in 1..off[n]
      BY <1>11, <1>13, <2>1
    <2>5. T[x].node = N[a].id
      BY <2>2, <2>4
    <2> QED
      BY <2>3, <2>4, <2>5 DEF a
  <1>p. p \in Nat /\ p \in 1..off[n]
    BY <1>2
  <1>18. LeavesAt(T, p) = x
    <2> DEFINE P(j) == T[j].node # 0 /\ \A k \in (j + 1)..p : T[k].node = 0
    <2> HIDE DEF x, y, d
    <2>1. x \in 1..(p - 1)
      BY <1>11, <1>14, <1>17, <1>p
    <2>2. P(x)
      <3>1. \A k \in (x + 1)..p : k \in (x + 1)..y /\ k <= y - d
        BY <1>11, <1>14
      <3>2. \A k \in (x + 1)..p : T[k].node = 0
        BY <1>12, <3>1
      <3> QED
        BY <1>17, <3>2
    <2>3. ASSUME NEW j \in 1..(p - 1), P(j) PROVE j = x
      <3>1. ~(x < j)
        <4> SUFFICES ASSUME x < j PROVE FALSE
          OBVIOUS
        <4>1. j \in (x + 1)..p
          BY <1>11, <1>p
        <4> QED
          BY <2>2, <2>3, <4>1
      <3>2. ~(j < x)
        <4> SUFFICES ASSUME j < x PROVE FALSE
          OBVIOUS
        <4>1. x \in (j + 1)..p
          BY <1>11, <1>14, <1>p
        <4> QED
          BY <1>17, <2>3, <4>1
      <3> QED
        BY <1>11, <1>p, <3>1, <3>2
    <2>4. LeavesAt(T, p) = CHOOSE j \in 1..(p - 1) : P(j)
      BY DEF LeavesAt
    <2> HIDE DEF P
    <2> QED
      BY <2>1, <2>2, <2>3, <2>4
  <1>19. T[EntersAt(T, p)].node = N[b].id
    <2> DEFINE P(j) == T[j].node # 0 /\ \A k \in p..(j - 1) : T[k].node = 0
               z == y - d + 1
    <2> HIDE DEF x, y, d
    <2>1. z \in (p + 1)..Len(T) /\ z \in (x + 1)..y /\ ~(z <= y - d) /\ z \in Nat
      BY <1>2, <1>11, <1>13, <1>14, <1>p
    <2>2. T[z].node = N[b].id
      <3> HIDE DEF z
      <3> QED
        BY <1>12, <2>1
    <2>3. P(z)
      <3>1. \A k \in p..(z - 1) : k \in (x + 1)..y /\ k <= y - d
        BY <1>11, <1>14, <1>p
      <3>2. \A k \in p..(z - 1) : T[k].node = 0
        BY <1>12, <3>1
      <3> HIDE DEF z
      <3> QED
        BY <1>11, <2>2, <3>2
    <2>4. ASSUME NEW j \in (p + 1)..Len(T), P(j) PROVE j = z
      <3>z. z \in Nat /\ p < z /\ j \in Int /\ p < j
        BY <1>p, <2>1, <1>2
      <3> HIDE DEF z
      <3>1. ~(z < j)
        <4> SUFFICES ASSUME z < j PROVE FALSE
          OBVIOUS
        <4>1. z \in p..(j - 1)
          BY <1>p, <3>z
        <4> QED
          BY <2>3, <2>4, <4>1
      <3>2. ~(j < z)
        <4> SUFFICES ASSUME j < z PROVE FALSE
          OBVIOUS
        <4>1. j \in p..(z - 1)
          BY <1>p, <3>z
        <4> QED
          BY <2>3, <2>4, <4>1
      <3> QED
        BY <3>z, <3>1, <3>2
    <2>5. EntersAt(T, p) = CHOOSE j \in (p + 1)..Len(T) : P(j)
      BY DEF EntersAt
    <2> HIDE DEF P, z
    <2>6. EntersAt(T, p) = z
      BY <2>1, <2>3, <2>4, <2>5
    <2> QED
      BY <2>2, <2>6
  <1>20. Crossing(off, N, T, p, b)
    BY <1>14, <1>16, <1>17, <1>18, <1>19 DEF Crossing, n, c
  <1> QED
    BY <1>16, <1>20 DEF n

\* The table on the transitions of a stored document's trajectory.
LEMMA AllOnTheWay ==
  ASSUME NEW doc, Stored(doc)
  PROVE  OnTheWay(Trajectory(doc))
  <1> DEFINE N == doc.nodes
             n == Len(N)
             parts == Parts(doc)
             T == Trajectory(doc)
             c(i) == Count(N[i])
             gap(i) == Len(Part(doc, i)) - c(i)
  <1>1. N \in Seq(Nodes)
    BY StoredFacts
  <1>2. n \in Nat /\ DOMAIN N = 1..n /\ \A i \in 1..n : N[i] \in Nodes
    BY <1>1
  <1>3. PICK off : LaidOut(off, N, T) /\ Offsets(off, parts, T)
    BY TrajectoryLaidOut
  <1>4. Len(parts) = n /\ \A i \in 1..n : parts[i] = Part(doc, i)
    BY <1>2 DEF Parts
  <1>5. /\ off \in [0..n -> Nat] /\ off[0] = 0
        /\ \A i \in 1..n : /\ off[i] = off[i - 1] + Len(Part(doc, i))
                           /\ \A k \in 1..Len(Part(doc, i)) : T[off[i - 1] + k] = Part(doc, i)[k]
    <2>1. off \in [0..n -> Nat] /\ off[0] = 0
      BY <1>3, <1>4 DEF Offsets
    <2>2. ASSUME NEW i \in 1..n
          PROVE  /\ off[i] = off[i - 1] + Len(Part(doc, i))
                 /\ \A k \in 1..Len(Part(doc, i)) : T[off[i - 1] + k] = Part(doc, i)[k]
      <3> HIDE DEF parts, T, n
      <3>1. i \in 1..Len(parts) /\ parts[i] = Part(doc, i)
        BY <1>4
      <3> QED
        BY <1>3, <3>1, OffsetsOf
    <2> QED
      BY <2>1, <2>2
  <1>6. ASSUME NEW i \in 1..n
        PROVE  /\ gap(i) \in Nat /\ (i = 1 => gap(i) = 0)
               /\ \A k \in 1..gap(i) : Part(doc, i)[k].angle = Interpolate(Exit(N[i - 1]), Entry(N[i]), gap(i))[k]
               /\ \A k \in 1..c(i) : Part(doc, i)[gap(i) + k] = Stops(N[i])[k]
    BY PartTurns DEF Turning
  <1>7. \A i \in 1..n : c(i) \in Nat /\ c(i) > 0
    BY <1>2, StopsCount
  <1>8. \A i \in 1..n : Len(Part(doc, i)) \in Nat
    BY PartEndsWithOwn DEF EndsWithOwn
  <1>9. ASSUME NEW a \in 1..n, NEW j, T[j].node = N[a].id PROVE Alike(N[a], NodeAt(T, j))
    BY <1>9, NodeIsWanted
  <1>10. \A i \in 1..n : i - 1 \in 0..n /\ i \in 0..n /\ off[i - 1] \in Nat /\ off[i] \in Nat
    <2>1. \A i \in 1..n : i - 1 \in 0..n /\ i \in 0..n
      BY <1>2
    <2> QED
      BY <1>5, <2>1
  <1>11. n > 0 => off[1] = c(1)
    <2> SUFFICES ASSUME n > 0 PROVE off[1] = c(1)
      OBVIOUS
    <2>1. 1 \in 1..n
      BY <1>2
    <2>2. off[1] = off[0] + Len(Part(doc, 1))
      <3>1. off[1] = off[1 - 1] + Len(Part(doc, 1)) /\ 1 - 1 = 0
        BY <1>5, <2>1
      <3> QED
        BY <3>1
    <2>3. gap(1) = 0 /\ c(1) \in Nat /\ Len(Part(doc, 1)) \in Nat
      BY <1>6, <1>7, <1>8, <2>1
    <2> QED
      BY <1>5, <2>2, <2>3
  <1> HIDE DEF N, n, parts, T, c, gap
  <1>12. \A p \in DOMAIN T : T[p].node = 0 => \E b \in 2..n : Crossing(off, N, T, p, b)
    BY <1>1, <1>3, <1>11, TransitionPlaces DEF n, c
  <1>13. ASSUME NEW p \in DOMAIN T, T[p].node = 0, ~OneOfRange(NodeAt(T, LeavesAt(T, p)))
         PROVE  /\ Lies(T[p].angle, T[p - 1].angle, Entry(NodeAt(T, EntersAt(T, p))))
                /\ Lies(T[p].angle, T[LeavesAt(T, p)].angle, Entry(NodeAt(T, EntersAt(T, p))))
    <2>1. PICK b \in 2..n : Crossing(off, N, T, p, b)
      BY <1>12, <1>13
    <2> DEFINE x == off[b - 1]
               g == gap(b)
               k == p - x
               s == Exit(N[b - 1])
               e == Entry(N[b])
               A == Interpolate(s, e, g)
    <2>2. b \in 1..n /\ b - 1 \in 1..n
      BY <1>2
    <2>3. /\ LeavesAt(T, p) = x /\ T[x].node = N[b - 1].id /\ T[EntersAt(T, p)].node = N[b].id
          /\ p \in (x + 1)..(off[b] - c(b))
      BY <2>1 DEF Crossing, c
    <2>4. Alike(N[b - 1], NodeAt(T, x)) /\ Alike(N[b], NodeAt(T, EntersAt(T, p)))
      BY <1>9, <2>2, <2>3
    <2>5. ~OneOfRange(N[b - 1]) /\ Entry(NodeAt(T, EntersAt(T, p))) = e
      <3>1. ~OneOfRange(NodeAt(T, x))
        BY <1>13, <2>3
      <3> QED
        BY <2>4, <3>1 DEF Alike, OneOfRange, Entry
    <2>6. /\ x \in Nat /\ g \in Nat /\ c(b) \in Nat /\ Len(Part(doc, b)) \in Nat
          /\ off[b] = x + Len(Part(doc, b)) /\ g = Len(Part(doc, b)) - c(b)
      BY <1>5, <1>6, <1>7, <1>8, <1>10, <2>2 DEF gap
    <2>7. k \in 1..g /\ k \in 1..Len(Part(doc, b)) /\ x + k = p /\ x + (k - 1) = p - 1
      <3> DEFINE y == off[b]
                 l == Len(Part(doc, b))
                 d == c(b)
      <3>1. x \in Nat /\ g \in Nat /\ d \in Nat /\ l \in Nat /\ y = x + l /\ g = l - d
        BY <2>6
      <3>2. p \in (x + 1)..(y - d)
        BY <2>3
      <3> HIDE DEF x, g, y, l, d
      <3>3. p \in Int /\ x + 1 <= p /\ p <= x + l - d
        BY <3>1, <3>2
      <3>4. k \in 1..g /\ k \in 1..l /\ x + k = p /\ x + (k - 1) = p - 1
        BY <3>1, <3>3
      <3> QED
        BY <3>4 DEF l
    <2>8. \A m \in 1..g : m \in 1..Len(Part(doc, b))
      <3> HIDE DEF x, g
      <3> QED
        BY <1>7, <2>2, <2>6
    <2>9. \A m \in 1..g : T[x + m].angle = A[m]
      <3>1. \A m \in 1..g : Part(doc, b)[m].angle = A[m]
        BY <1>6, <2>2
      <3>2. \A m \in 1..Len(Part(doc, b)) : T[x + m] = Part(doc, b)[m]
        BY <1>5, <2>2
      <3> HIDE DEF x, g, A
      <3> QED
        BY <2>8, <3>1, <3>2
    <2>10. T[x].angle = s /\ s \in Angles /\ e \in Angles
      <3> DEFINE a == b - 1
                 w == off[a - 1]
                 l == Len(Part(doc, a))
      <3>1. a \in 1..n
        BY <2>2
      <3>2. l \in Nat /\ x = w + l /\ (l > 0 => T[w + l] = Part(doc, a)[l]) /\ l - c(a) \in Nat /\ c(a) \in Nat /\ c(a) > 0
        <4>1. x = w + l /\ \A m \in 1..l : T[w + m] = Part(doc, a)[m]
          BY <1>5, <3>1
        <4>2. l \in Nat /\ l - c(a) \in Nat /\ c(a) \in Nat /\ c(a) > 0
          BY <1>6, <1>7, <1>8, <3>1 DEF gap
        <4>3. l > 0 => l \in 1..l
          BY <4>2
        <4> QED
          BY <4>1, <4>2, <4>3
      <3>3. Part(doc, a)[l] = Stops(N[a])[c(a)]
        <4>1. c(a) \in 1..c(a) /\ gap(a) + c(a) = l
          BY <3>2 DEF gap
        <4>2. \A m \in 1..c(a) : Part(doc, a)[gap(a) + m] = Stops(N[a])[m]
          BY <1>6, <3>1
        <4> QED
          BY <4>1, <4>2
      <3>4. N[a] \in Nodes /\ N[b] \in Nodes
        BY <1>2, <2>2, <3>1
      <3>5. Stops(N[a])[c(a)].angle = s /\ s \in Angles
        BY <2>5, <3>4, LastStop DEF c
      <3>6. e \in Angles
        BY <3>4, NodeAnglesType
      <3>7. l > 0
        <4> HIDE DEF l
        <4> QED
          BY <3>2
      <3> QED
        BY <3>2, <3>3, <3>5, <3>6, <3>7
    <2>11. Lies(A[k], s, e) /\ (k = 1 \/ Lies(A[k], A[k - 1], e))
      <3> HIDE DEF s, e, g, k
      <3> QED
        BY <2>6, <2>7, <2>10, InterpolateLies
    <2>12. T[p].angle = A[k]
      BY <2>7, <2>9
    <2>13. T[p - 1].angle = IF k = 1 THEN s ELSE A[k - 1]
      <3> HIDE DEF k, g, x, A, s
      <3>1. CASE k = 1
        <4>1. p - 1 = x
          BY <2>6, <2>7, <3>1
        <4> QED
          BY <2>10, <3>1, <4>1
      <3>2. CASE k # 1
        <4>1. k - 1 \in 1..g
          BY <2>6, <2>7, <3>2
        <4>2. T[x + (k - 1)].angle = A[k - 1]
          BY <2>9, <4>1
        <4> QED
          BY <2>7, <3>2, <4>2
      <3> QED
        BY <3>1, <3>2
    <2> HIDE DEF A, k, s, e, x, g
    <2>14. Lies(T[p].angle, T[p - 1].angle, e)
      BY <2>11, <2>12, <2>13
    <2>15. Lies(T[p].angle, T[x].angle, e)
      BY <2>10, <2>11, <2>12
    <2> QED
      BY <2>3, <2>5, <2>14, <2>15
  <1>14. OnTheWay(T)
    BY <1>13 DEF OnTheWay
  <1> QED
    BY <1>14 DEF T

\* On a transition the table turns from the angle the last scan left it at to the one
\* the next node begins with, never back and never beyond, if each node has an id of
\* its own.
THEOREM TableTurnsOnTheWayCorrect == Spec => []TableTurnsOnTheWay
  <1>1. LoadInv => TableTurnsOnTheWay
    <2> SUFFICES ASSUME LoadInv, UniqueIds(sent.nodes) PROVE TableTurnsOnTheWay
      BY DEF TableTurnsOnTheWay
    <2>1. OnTheWay(trajectory)
      <3>1. CASE file = NoFile
        <4>1. trajectory = <<>>
          BY <3>1 DEF LoadInv
        <4>2. DOMAIN trajectory = {}
          BY <4>1
        <4> QED
          BY <4>2 DEF OnTheWay
      <3>2. CASE file # NoFile
        <4>1. Stored(file) /\ trajectory = Trajectory(file)
          BY <3>2 DEF LoadInv
        <4> QED
          BY <4>1, AllOnTheWay
      <3> QED
        BY <3>1, <3>2
    <2> QED
      BY <2>1, TurnsForm
  <1> QED
    BY <1>1, LoadInvariance, PTL

-----------------------------------------------------------------------------
(* A full revolution. *)

\* The quotient and the rest are the only ones there are.
LEMMA DivisionIs ==
  ASSUME NEW q \in Nat \ {0}, NEW p \in Int, NEW f \in Int, NEW r \in 0..(q - 1), p = q * f + r
  PROVE  p \div q = f /\ p % q = r
  <1> DEFINE g == p \div q
             s == p % q
  <1>1. g \in Int /\ s \in 0..(q - 1) /\ p = q * g + s
    BY Division
  <1> HIDE DEF g, s
  <1>2. g = f
    <2> DEFINE x == q * f
               y == q * g
    <2>1. x \in Int /\ y \in Int /\ x + r = y + s
      BY <1>1
    <2>2. (f < g => x + q <= y) /\ (g < f => y + q <= x)
      BY <1>1, DivisionGrows
    <2> HIDE DEF x, y
    <2> QED
      BY <1>1, <2>1, <2>2
  <1>3. s = r
    <2> DEFINE x == q * f
    <2>1. x \in Int /\ x + r = x + s
      BY <1>1, <1>2
    <2> HIDE DEF x
    <2> QED
      BY <1>1, <2>1
  <1> QED
    BY <1>2, <1>3 DEF g, s

\* The counts of one of c equal parts of a revolution, cut or filled up.
Turns(c) == {Rev \div c, (Rev + c - 1) \div c}

\* Side(i, c): where the i-th of the c parts ends.
Side(i, c) == Round(Rev * i, c)

\* From the end of a part to the next the table turns by a part's counts.
LEMMA SideStep ==
  ASSUME NEW c \in 1..Rev, NEW i \in Nat
  PROVE  /\ Side(i + 1, c) - Side(i, c) \in Turns(c)
         /\ Side(i, c) < Side(i + 1, c) /\ Side(i, c) \in Int
  <1>r. Rev \in Nat /\ c \in Nat \ {0} /\ c <= Rev
    BY RevAssumption
  <1> DEFINE q == Rev \div c
             m == Rev % c
             f == (Rev * i) \div c
             r == (Rev * i) % c
             F == (Rev * (i + 1)) \div c
             R == (Rev * (i + 1)) % c
  <1>1. q \in Int /\ m \in 0..(c - 1) /\ Rev = c * q + m
    BY <1>r, Division
  <1>2. f \in Int /\ r \in 0..(c - 1) /\ Rev * i = c * f + r
    <2>1. Rev * i \in Int
      BY <1>r
    <2> QED
      BY <1>r, <2>1, Division
  <1>3. Rev * (i + 1) \in Int /\ Rev * (i + 1) = Rev * i + Rev
    BY <1>r
  <1>4. Side(i, c) = IF 2 * r < c \/ (2 * r = c /\ f % 2 = 0) THEN f ELSE f + 1
    BY DEF Side, Round
  <1>5. Side(i + 1, c) = IF 2 * R < c \/ (2 * R = c /\ F % 2 = 0) THEN F ELSE F + 1
    BY DEF Side, Round
  <1>6. IF r + m < c THEN F = f + q /\ R = r + m ELSE F = f + q + 1 /\ R = r + m - c
    <2> HIDE DEF q, m, f, r
    <2> DEFINE P == Rev * (i + 1)
    <2>1. P = c * (f + q) + (r + m)
      <3>1. c * (f + q) = c * f + c * q /\ c * f \in Int /\ c * q \in Int
        BY <1>r, <1>1, <1>2
      <3> DEFINE x == c * f
                 y == c * q
      <3>2. Rev * i = x + r /\ Rev = y + m /\ c * (f + q) = x + y /\ P = Rev * i + Rev
        BY <1>1, <1>2, <1>3, <3>1
      <3>3. x \in Int /\ y \in Int
        BY <3>1
      <3> HIDE DEF x, y, P
      <3> QED
        BY <1>1, <1>2, <3>2, <3>3
    <2>2. P = c * (f + q + 1) + (r + m - c)
      <3> DEFINE z == f + q
                 x == c * z
      <3>1. c * (z + 1) = c * z + c /\ x \in Int
        BY <1>r, <1>1, <1>2
      <3>2. P = x + (r + m) /\ c * (f + q + 1) = x + c
        BY <2>1, <3>1
      <3> HIDE DEF x, P
      <3> QED
        BY <1>r, <1>1, <1>2, <3>1, <3>2
    <2>3. P \in Int /\ F = P \div c /\ R = P % c
      BY <1>3
    <2> HIDE DEF P, F, R
    <2>4. CASE r + m < c
      <3>1. r + m \in 0..(c - 1) /\ f + q \in Int
        BY <1>r, <1>1, <1>2, <2>4
      <3> QED
        BY <1>r, <2>1, <2>3, <2>4, <3>1, DivisionIs
    <2>5. CASE ~(r + m < c)
      <3>1. r + m - c \in 0..(c - 1) /\ f + q + 1 \in Int
        BY <1>r, <1>1, <1>2, <2>5
      <3> QED
        BY <1>r, <2>2, <2>3, <2>5, <3>1, DivisionIs
    <2> QED
      BY <2>4, <2>5
  <1>7. q >= 1
    <2> HIDE DEF q, m
    <2> SUFFICES ASSUME q < 1 PROVE FALSE
      BY <1>1
    <2>1. c * q + c <= c * 1
      BY <1>r, <1>1, DivisionGrows
    <2>2. c * 1 = c /\ c * q \in Int
      BY <1>r, <1>1
    <2> DEFINE x == c * q
    <2>3. x \in Int /\ x + c <= c /\ Rev = x + m
      BY <1>1, <2>1, <2>2
    <2> HIDE DEF x
    <2> QED
      BY <1>r, <1>1, <2>3
  <1>8. m = 0 => r = 0
    <2> SUFFICES ASSUME m = 0 PROVE r = 0
      OBVIOUS
    <2>1. Rev * i = c * (q * i) + 0
      <3> HIDE DEF q, m
      <3>1. Rev = c * q
        BY <1>r, <1>1
      <3> QED
        BY <1>r, <1>1, <3>1
    <2>2. q * i \in Int /\ Rev * i \in Int /\ 0 \in 0..(c - 1)
      BY <1>r, <1>1
    <2> HIDE DEF q
    <2>3. (Rev * i) % c = 0
      BY <1>r, <2>1, <2>2, DivisionIs
    <2> QED
      BY <2>3
  <1>9. (Rev + c - 1) \div c = IF m = 0 THEN q ELSE q + 1
    <2> DEFINE P == Rev + c - 1
    <2> HIDE DEF q, m
    <2> DEFINE x == c * q
    <2>1. x \in Int /\ Rev = x + m /\ c * (q + 1) = x + c
      BY <1>r, <1>1
    <2>2. CASE m = 0
      <3>1. P = c * q + (c - 1) /\ c - 1 \in 0..(c - 1) /\ P \in Int
        <4> HIDE DEF x
        <4>1. P = x + (c - 1) /\ c - 1 \in 0..(c - 1) /\ P \in Int
          BY <1>r, <2>1, <2>2
        <4> QED
          BY <4>1 DEF x
      <3> HIDE DEF P, x
      <3>2. P \div c = q
        BY <1>r, <1>1, <3>1, DivisionIs
      <3> QED
        BY <2>2, <3>2 DEF P
    <2>3. CASE m # 0
      <3>1. P = c * (q + 1) + (m - 1) /\ m - 1 \in 0..(c - 1) /\ P \in Int /\ q + 1 \in Int
        <4> HIDE DEF x
        <4>1. P = (x + c) + (m - 1) /\ m - 1 \in 0..(c - 1) /\ P \in Int /\ q + 1 \in Int
          BY <1>r, <1>1, <2>1, <2>3
        <4> QED
          BY <2>1, <4>1
      <3> HIDE DEF P, x
      <3>2. P \div c = q + 1
        BY <1>r, <1>1, <3>1, DivisionIs
      <3> QED
        BY <2>3, <3>2 DEF P
    <2> QED
      BY <2>2, <2>3
  <1> DEFINE a == Side(i, c)
             b == Side(i + 1, c)
  <1> HIDE DEF q, m, f, r, F, R
  <1>10. a \in Int /\ b \in Int /\ b - a \in {q, IF m = 0 THEN q ELSE q + 1}
    <2> HIDE DEF a, b
    <2>1. a \in {f, f + 1} /\ (a = f => 2 * r <= c) /\ (a = f + 1 => 2 * r >= c)
      BY <1>r, <1>2, <1>4 DEF a
    <2>2. F \in Int /\ R \in Int
      BY <1>r, <1>1, <1>2, <1>6
    <2>3. b \in {F, F + 1} /\ (2 * R < c => b = F) /\ (2 * R > c => b = F + 1)
      BY <1>r, <1>5, <2>2 DEF b
    <2>4. CASE m = 0
      <3>1. F = f + q /\ R = 0 /\ r = 0
        BY <1>r, <1>2, <1>6, <1>8, <2>4
      <3>2. a = f /\ b = F
        BY <1>r, <1>2, <2>1, <2>3, <3>1
      <3> QED
        BY <1>1, <1>2, <2>4, <3>1, <3>2
    <2>5. CASE m # 0 /\ r + m < c
      <3>1. F = f + q /\ R > r
        BY <1>1, <1>2, <1>6, <2>5
      <3> QED
        BY <1>r, <1>1, <1>2, <2>1, <2>2, <2>3, <2>5, <3>1
    <2>6. CASE m # 0 /\ ~(r + m < c)
      <3>1. F = f + q + 1 /\ R < r
        BY <1>r, <1>1, <1>2, <1>6, <2>6
      <3> QED
        BY <1>r, <1>1, <1>2, <2>1, <2>2, <2>3, <2>6, <3>1
    <2> QED
      BY <2>4, <2>5, <2>6
  <1>11. b - a \in Turns(c)
    BY <1>9, <1>10 DEF Turns, q
  <1>12. a < b
    <2> HIDE DEF a, b
    <2>1. b - a = q \/ b - a = q + 1
      BY <1>10
    <2> QED
      BY <1>1, <1>7, <1>10, <2>1
  <1> QED
    BY <1>10, <1>11, <1>12 DEF a, b

\* The ends of the parts stay in a revolution and grow from 0 to Rev.
LEMMA SidesGrow ==
  ASSUME NEW c \in 1..Rev
  PROVE  /\ \A i, j \in 0..c : i < j => Side(i, c) < Side(j, c)
         /\ \A i \in 0..c : Side(i, c) \in 0..Rev
         /\ Side(0, c) = 0 /\ Side(c, c) = Rev
  <1>r. Rev \in Nat /\ c \in Nat \ {0}
    BY RevAssumption
  <1>1. ASSUME NEW i \in 0..c, NEW j \in 0..c, i < j PROVE Side(i, c) < Side(j, c)
    <2>1. i \in Nat /\ i + 1 \in Nat /\ j \in Nat /\ i + 1 <= j
      BY <1>1
    <2>2. Side(i, c) < Side(i + 1, c) /\ Side(i, c) \in Int /\ Side(i + 1, c) \in Int /\ Side(j, c) \in Int
      BY <2>1, SideStep
    <2>3. Rev * (i + 1) \in Int /\ Rev * j \in Int /\ Rev * (i + 1) <= Rev * j
      <3>1. PICK d \in Nat : j = (i + 1) + d
        <4>1. j - (i + 1) \in Nat /\ j = (i + 1) + (j - (i + 1))
          BY <2>1
        <4> QED
          BY <4>1
      <3>2. Rev * j = Rev * (i + 1) + Rev * d /\ Rev * d >= 0 /\ Rev * d \in Int /\ Rev * (i + 1) \in Int
        BY <1>r, <2>1, <3>1
      <3> QED
        BY <3>2
    <2>4. Side(i + 1, c) <= Side(j, c)
      BY <1>r, <2>3, RoundGrows DEF Side
    <2> QED
      BY <2>2, <2>4
  <1>2. Side(0, c) = 0 /\ Side(c, c) = Rev
    <2>1. Rev * 0 = 0 * c /\ 0 \in Int
      BY <1>r
    <2> QED
      BY <1>r, <2>1, RoundWhole DEF Side
  <1>3. ASSUME NEW i \in 0..c PROVE Side(i, c) \in 0..Rev
    <2>1. 0 \in 0..c /\ c \in 0..c /\ i \in Nat
      BY <1>r
    <2>2. Side(i, c) \in Int
      BY <2>1, SideStep
    <2>3. (0 < i => Side(0, c) < Side(i, c)) /\ (i < c => Side(i, c) < Side(c, c))
      BY <1>1, <2>1
    <2> QED
      BY <1>r, <1>2, <2>1, <2>2, <2>3
  <1> QED
    BY <1>1, <1>2, <1>3

\* The sides of an object that is seen from c of them.
Sides(c) == {Side(i, c) : i \in 0..(c - 1)}

\* There are c of them, and each is a part of a revolution from the next.
CutEvenly(seen, c) ==
    /\ Cardinality(seen) = c
    /\ \A a \in seen : \E turn \in Turns(c) : (a + turn) % Rev \in seen

\* What is left of a count on the circle.
LEMMA Remainders == 0 % Rev = 0 /\ Rev % Rev = 0 /\ \A x \in 0..(Rev - 1) : x % Rev = x
  <1>r. Rev \in Nat \ {0}
    BY RevAssumption
  <1>1. ASSUME NEW x \in 0..(Rev - 1) PROVE x % Rev = x
    <2>1. x \in Int /\ x = Rev * 0 + x /\ 0 \in Int
      BY <1>r
    <2> QED
      BY <1>r, <2>1, DivisionIs
  <1>2. Rev % Rev = 0
    <2>1. Rev \in Int /\ Rev = Rev * 1 + 0 /\ 1 \in Int /\ 0 \in 0..(Rev - 1)
      BY <1>r
    <2> QED
      BY <1>r, <2>1, DivisionIs
  <1>3. 0 \in 0..(Rev - 1)
    BY <1>r
  <1> QED
    BY <1>1, <1>2, <1>3

\* The ends of the parts are such sides.
LEMMA SidesAreEven ==
  ASSUME NEW c \in 1..Rev
  PROVE  CutEvenly(Sides(c), c)
  <1>r. Rev \in Nat \ {0} /\ c \in Nat \ {0}
    BY RevAssumption
  <1>1. /\ \A i, j \in 0..c : i < j => Side(i, c) < Side(j, c)
        /\ \A i \in 0..c : Side(i, c) \in 0..Rev
        /\ Side(0, c) = 0 /\ Side(c, c) = Rev
    BY SidesGrow
  <1> DEFINE I == 0..(c - 1)
             f == [i \in I |-> Side(i, c)]
  <1>2. f \in Surjection(I, Sides(c))
    BY DEF Surjection, Sides
  <1>3. f \in Injection(I, Sides(c))
    <2>1. f \in [I -> Sides(c)]
      BY DEF Sides
    <2>2. ASSUME NEW i \in I, NEW j \in I, f[i] = f[j] PROVE i = j
      <3>1. i \in 0..c /\ j \in 0..c /\ i \in Int /\ j \in Int
        BY <1>r
      <3>2. Side(i, c) = Side(j, c) /\ Side(i, c) \in Int
        BY <1>1, <2>2, <3>1
      <3>3. ~(i < j) /\ ~(j < i)
        <4>1. i < j => Side(i, c) < Side(j, c)
          BY <1>1, <3>1
        <4>2. j < i => Side(j, c) < Side(i, c)
          BY <1>1, <3>1
        <4> HIDE DEF I, f
        <4> QED
          BY <3>2, <4>1, <4>2
      <3> QED
        BY <3>1, <3>3
    <2> HIDE DEF f, I
    <2> QED
      BY <2>1, <2>2 DEF Injection, IsInjective
  <1>4. IsFiniteSet(I) /\ Cardinality(I) = c
    <2>1. 0 \in Int /\ c - 1 \in Int /\ ~(0 > c - 1) /\ (c - 1) - 0 + 1 = c
      BY <1>r
    <2> QED
      BY <2>1, FS_Interval
  <1>5. Cardinality(Sides(c)) = c
    <2> HIDE DEF f, I
    <2> QED
      BY <1>2, <1>3, <1>4, FS_Surjection
  <1>6. ASSUME NEW a \in Sides(c) PROVE \E turn \in Turns(c) : (a + turn) % Rev \in Sides(c)
    <2>1. PICK i \in 0..(c - 1) : a = Side(i, c)
      BY DEF Sides
    <2> DEFINE b == Side(i + 1, c)
    <2>2. i \in Nat /\ i \in 0..c /\ i + 1 \in 0..c
      BY <1>r
    <2>3. b - a \in Turns(c) /\ a \in Int /\ b \in 0..Rev /\ b \in Int
      BY <1>1, <1>r, <2>1, <2>2, SideStep
    <2>4. b % Rev \in Sides(c)
      <3>1. CASE i + 1 = c
        <4>1. b = Rev /\ b % Rev = Side(0, c)
          BY <1>1, <3>1, Remainders
        <4>2. 0 \in 0..(c - 1)
          BY <1>r
        <4> QED
          BY <4>1, <4>2 DEF Sides
      <3>2. CASE i + 1 # c
        <4>1. i + 1 \in 0..(c - 1) /\ i + 1 < c /\ c \in 0..c
          BY <1>r, <2>2, <3>2
        <4>2. b < Rev
          BY <1>1, <2>2, <4>1
        <4>3. b % Rev = b
          <5> HIDE DEF b
          <5>1. b \in 0..(Rev - 1)
            BY <1>r, <2>3, <4>2
          <5> QED
            BY <5>1, Remainders
        <4> QED
          BY <4>1, <4>3 DEF Sides
      <3> QED
        BY <3>1, <3>2
    <2>5. a + (b - a) = b
      <3> HIDE DEF b
      <3> QED
        BY <2>3
    <2> HIDE DEF b
    <2> QED
      BY <2>3, <2>4, <2>5
  <1> QED
    BY <1>5, <1>6 DEF CutEvenly

\* The scans that go once around.
GoesAround(n) ==
    n.type = "advanced_scan" /\ n.mode = "range" /\ IsFullRevolution(n.start, n.by) /\ n.count <= Rev

\* They are at the sides, whichever way the table goes around.
LEMMA RangeSides ==
  ASSUME NEW n \in Nodes, GoesAround(n)
  PROVE  {NodeAngles(n)[k] % Rev : k \in 1..n.count} = Sides(n.count)
  <1> DEFINE c == n.count
             s == n.start
             e == n.by
             A == NodeAngles(n)
  <1>1. s \in Int /\ e \in Int /\ c \in Nat \ {0} /\ c \in 1..Rev
    BY RevAssumption DEF Nodes, GoesAround
  <1>2. A = RangeAngles(s, e, c)
    BY DEF NodeAngles, GoesAround
  <1>r. Rev \in Nat \ {0}
    BY RevAssumption
  <1>3. IsFullRevolution(s, e)
    BY DEF GoesAround
  <1> HIDE DEF c, s, e, A
  <1>4. (s = 0 /\ e = Rev) \/ (s = Rev /\ e = 0)
    BY <1>r, <1>3 DEF IsFullRevolution
  <1>5. Clamp(0) = 0 /\ Clamp(Rev) = Rev
    BY <1>r DEF Clamp
  <1>6. IsFullRevolution(Clamp(s), Clamp(e)) /\ Clamp(s) = s /\ Clamp(e) = e
    BY <1>3, <1>4, <1>5
  <1>7. /\ \A i, j \in 0..c : i < j => Side(i, c) < Side(j, c)
        /\ \A i \in 0..c : Side(i, c) \in 0..Rev
        /\ Side(0, c) = 0 /\ Side(c, c) = Rev
    BY <1>1, SidesGrow
  <1>8. ASSUME NEW i \in 0..c PROVE Quantize(Rev * i, c) = Side(i, c)
    <2>1. Side(i, c) \in 0..Rev
      BY <1>7
    <2>2. Clamp(Side(i, c)) = Side(i, c)
      BY <1>r, <2>1 DEF Clamp
    <2> QED
      BY <2>2 DEF Quantize, Side
  <1>9. ASSUME NEW i \in 0..c PROVE Side(i, c) % Rev = IF i = c THEN Side(0, c) ELSE Side(i, c)
    <2>1. CASE i = c
      BY <1>7, <2>1, Remainders
    <2>2. CASE i # c
      <3>1. i < c /\ c \in 0..c
        BY <1>1, <2>2
      <3>2. Side(i, c) < Side(c, c) /\ Side(i, c) \in 0..Rev
        BY <1>7, <3>1
      <3>3. Side(i, c) \in 0..(Rev - 1)
        BY <1>7, <1>r, <3>2
      <3> QED
        BY <2>2, <3>3, Remainders
    <2> QED
      BY <2>1, <2>2
  <1> DEFINE To(k) == IF c > 1 /\ s # 0 THEN c - k ELSE k
  <1>10. ASSUME NEW k \in 1..c PROVE A[k] % Rev = Side(To(k), c) % Rev /\ To(k) \in 0..c
    <2>1. To(k) \in 0..c /\ c - k \in 0..c /\ k \in 0..c
      BY <1>1
    <2>2. CASE c = 1
      <3>1. k = 1 /\ A[k] = Clamp(e) /\ To(k) = c
        BY <1>1, <1>2, <1>6, <2>2 DEF RangeAngles
      <3>2. A[k] % Rev = 0 /\ Side(c, c) % Rev = 0
        BY <1>4, <1>6, <1>7, <3>1, Remainders
      <3> QED
        BY <2>1, <3>1, <3>2
    <2>3. CASE c # 1 /\ s = 0
      <3>1. c > 1
        BY <1>1, <2>3
      <3>2. A[k] = Quantize(Rev * k, c)
        BY <1>1, <1>2, <1>6, <2>3, <3>1 DEF RangeAngles
      <3> QED
        BY <1>8, <2>1, <2>3, <3>2
    <2>4. CASE c # 1 /\ s # 0
      <3>1. c > 1 /\ s = Rev /\ Rev # 0
        BY <1>1, <1>4, <1>r, <2>4
      <3>2. A[k] = Quantize(Rev * (c - k), c)
        BY <1>1, <1>2, <1>6, <3>1 DEF RangeAngles
      <3> QED
        BY <1>8, <2>1, <2>4, <3>1, <3>2
    <2> QED
      BY <2>2, <2>3, <2>4
  <1>11. ASSUME NEW k \in 1..c PROVE A[k] % Rev \in Sides(c)
    <2>1. To(k) \in 0..c /\ A[k] % Rev = Side(To(k), c) % Rev
      BY <1>10
    <2> DEFINE i == To(k)
    <2> HIDE DEF i
    <2>2. A[k] % Rev = IF i = c THEN Side(0, c) ELSE Side(i, c)
      BY <1>9, <2>1 DEF i
    <2>3. 0 \in 0..(c - 1) /\ (i # c => i \in 0..(c - 1))
      BY <1>1, <2>1 DEF i
    <2> QED
      BY <2>2, <2>3 DEF Sides
  <1>12. ASSUME NEW a \in Sides(c) PROVE \E k \in 1..c : a = A[k] % Rev
    <2>1. PICK i \in 0..(c - 1) : a = Side(i, c)
      BY DEF Sides
    <2> DEFINE k == IF c > 1 /\ s # 0 THEN c - i ELSE IF i = 0 THEN c ELSE i
    <2>2. k \in 1..c /\ To(k) = IF i = 0 /\ ~(c > 1 /\ s # 0) THEN c ELSE i
      BY <1>1
    <2>3. A[k] % Rev = Side(To(k), c) % Rev
      BY <1>10, <2>2
    <2>4. i \in 0..c /\ c \in 0..c /\ i # c
      BY <1>1
    <2>5. a = Side(i, c) % Rev /\ Side(c, c) % Rev = Side(0, c)
      BY <1>9, <2>1, <2>4
    <2> HIDE DEF k, To
    <2>6. A[k] % Rev = a
      BY <2>1, <2>2, <2>3, <2>5
    <2> QED
      BY <2>2, <2>6
  <1> QED
    BY <1>11, <1>12 DEF c, A

\* The sides a node's items see.
Seen(T, id) == {T[k].angle % Rev : k \in Of(T, id)}

\* The property is this, of the items of each scan that goes around.
LEMMA CutForm ==
  ASSUME file # NoFile /\ UniqueIds(sent.nodes) => \A n \in ToSet(Wanted) : GoesAround(n) => CutEvenly(Seen(trajectory, n.id), n.count)
  PROVE  RevolutionIsCutEvenly
  <1> SUFFICES ASSUME NEW i \in DOMAIN Wanted
               PROVE  LET n == Wanted[i]
                      IN file # NoFile /\ UniqueIds(sent.nodes) /\ GoesAround(n) => CutEvenly(Seen(trajectory, n.id), n.count)
    BY DEF RevolutionIsCutEvenly, GoesAround, CutEvenly, Turns, Seen, Of
  <1>1. Wanted[i] \in ToSet(Wanted)
    BY DEF ToSet
  <1> QED
    BY <1>1

\* Each node the client wants is in the normalised document.
LEMMA WantedIsNode ==
  ASSUME NEW doc, Stored(doc), NEW n \in ToSet(Wanted)
  PROVE  \E a \in 1..Len(doc.nodes) : Alike(doc.nodes[a], n)
  <1> DEFINE L == Strip(sent.nodes)
             W == Wanted
             N == doc.nodes
             l == Len(W)
  <1>1. IsDocument(sent) /\ doc = Normalize(sent)
    BY DEF Stored
  <1>2. N = Ordered(L)
    BY <1>1, PairsAgain DEF IsDocument, NormalNodes
  <1>3. SameNodes(L, W)
    BY <1>1, StrippedIsWanted
  <1>4. N \in Seq(Nodes)
    BY StoredFacts
  <1>5. n \in ToSet(W)
    OBVIOUS
  <1> HIDE DEF L, W, N
  <1>6. L \in Seq(Nodes) /\ W \in Seq(Nodes) /\ Len(L) = l /\ DOMAIN W = 1..l /\ DOMAIN L = 1..l /\ UniqueIds(L)
    BY <1>3 DEF SameNodes
  <1>7. ToSet(N) = ToSet(L)
    BY <1>2, <1>6, OrderedFacts
  <1>8. PICK i \in 1..l : n = W[i]
    BY <1>5, <1>6 DEF ToSet
  <1>9. L[i] \in ToSet(N)
    <2>1. L[i] \in ToSet(L)
      BY <1>6 DEF ToSet
    <2> QED
      BY <1>7, <2>1
  <1>10. PICK a \in 1..Len(N) : N[a] = L[i]
    <2>1. DOMAIN N = 1..Len(N)
      BY <1>4
    <2> QED
      BY <1>9, <2>1 DEF ToSet
  <1>11. Alike(N[a], n)
    <2>1. Alike(L[i], W[i])
      BY <1>3, <1>6 DEF SameNodes
    <2> QED
      BY <1>8, <1>10, <2>1
  <1> QED
    BY <1>11 DEF N

\* A node's items see what its angles are.
LEMMA SeenAngles ==
  ASSUME NEW doc, Stored(doc), NEW a \in 1..Len(doc.nodes)
  PROVE  Seen(Trajectory(doc), doc.nodes[a].id) = {NodeAngles(doc.nodes[a])[k] % Rev : k \in 1..Count(doc.nodes[a])}
  <1> DEFINE N == doc.nodes
             n == Len(N)
             m == N[a]
             T == Trajectory(doc)
             c == Count(m)
             part == Part(doc, a)
             A == NodeAngles(m)
  <1>1. N \in Seq(Nodes)
    BY StoredFacts
  <1>2. n \in Nat /\ DOMAIN N = 1..n /\ m \in Nodes
    BY <1>1
  <1>3. PICK off : LaidOut(off, N, T) /\ Offsets(off, Parts(doc), T)
    BY TrajectoryLaidOut
  <1>4. UniqueIds(N)
    <2>1. IsDocument(sent) /\ doc = Normalize(sent)
      BY DEF Stored
    <2> QED
      BY <2>1, PairsAgain, NormalForm DEF IsDocument
  <1>5. Of(T, m.id) = (off[a] - c + 1)..off[a]
    BY <1>1, <1>3, <1>4, LaidOutPlaces
  <1>6. Len(Parts(doc)) = n /\ Parts(doc)[a] = part
    BY <1>2 DEF Parts
  <1>7. /\ off \in [0..n -> Nat] /\ off[a] = off[a - 1] + Len(part)
        /\ \A k \in 1..Len(part) : T[off[a - 1] + k] = part[k]
    <2> DEFINE parts == Parts(doc)
    <2>1. off \in [0..n -> Nat]
      BY <1>3, <1>6 DEF Offsets
    <2> HIDE DEF parts, T, n, part
    <2>2. a \in 1..Len(parts) /\ parts[a] = part
      BY <1>6 DEF parts, n
    <2>3. /\ off[a] = off[a - 1] + Len(part)
          /\ \A k \in 1..Len(part) : T[off[a - 1] + k] = part[k]
      BY <1>3, <2>2, OffsetsOf DEF parts
    <2> QED
      BY <2>1, <2>3
  <1>8. c \in Nat /\ c > 0 /\ Len(part) \in Nat /\ c <= Len(part)
    BY <1>2, StopsCount, PartEndsWithOwn DEF EndsWithOwn
  <1>9. \A k \in 1..c : part[(Len(part) - c) + k] = Stops(m)[k]
    BY PartTurns DEF Turning
  <1>10. \A k \in 1..c : Stops(m)[k].angle = A[k]
    <2>1. DOMAIN Stops(m) = 1..c
      <3>1. Stops(m) \in Seq(Items) /\ Len(Stops(m)) = c
        BY <1>2, StopsCount, StopsFacts
      <3> QED
        BY <3>1
    <2>2. DOMAIN A = 1..c
      BY <2>1 DEF Stops
    <2> HIDE DEF c, A, m
    <2> QED
      BY <2>2 DEF Stops, A
  <1>11. off[a - 1] \in Nat /\ off[a] \in Nat
    <2>1. a - 1 \in 0..n /\ a \in 0..n
      BY <1>2
    <2> QED
      BY <1>7, <2>1
  <1> DEFINE x == off[a - 1]
             y == off[a]
             l == Len(part)
  <1>12. x \in Nat /\ y \in Nat /\ l \in Nat /\ y = x + l
    BY <1>7, <1>8, <1>11
  <1> HIDE DEF N, n, m, T, c, part, A, x, y, l
  <1>13. ASSUME NEW k \in 1..c PROVE (y - c) + k \in (y - c + 1)..y /\ T[(y - c) + k].angle = A[k]
    <2>1. (l - c) + k \in 1..l /\ x + ((l - c) + k) = (y - c) + k /\ (y - c) + k \in (y - c + 1)..y
      BY <1>8, <1>12 DEF l
    <2>2. T[x + ((l - c) + k)] = part[(l - c) + k]
      BY <1>7, <2>1 DEF x, l
    <2>3. part[(l - c) + k] = Stops(m)[k]
      BY <1>9 DEF l
    <2> QED
      BY <1>10, <2>1, <2>2, <2>3
  <1>14. \A j \in (y - c + 1)..y : j - (y - c) \in 1..c /\ (y - c) + (j - (y - c)) = j
    BY <1>8, <1>12
  <1>15. {T[j].angle % Rev : j \in (y - c + 1)..y} = {A[k] % Rev : k \in 1..c}
    <2>1. ASSUME NEW j \in (y - c + 1)..y PROVE \E k \in 1..c : T[j].angle % Rev = A[k] % Rev
      <3> DEFINE k == j - (y - c)
      <3>1. k \in 1..c /\ (y - c) + k = j
        BY <1>14
      <3> HIDE DEF k
      <3>2. T[j].angle = A[k]
        BY <1>13, <3>1
      <3> QED
        BY <3>1, <3>2
    <2>2. ASSUME NEW k \in 1..c PROVE \E j \in (y - c + 1)..y : A[k] % Rev = T[j].angle % Rev
      BY <1>13
    <2> QED
      BY <2>1, <2>2
  <1>16. Seen(T, m.id) = {A[k] % Rev : k \in 1..c}
    BY <1>5, <1>15 DEF Seen, y
  <1> QED
    BY <1>16 DEF T, m, A, c, N

\* The scans of a full revolution see the object from as many sides as there are
\* scans, and from each side to the next the table turns by the same angle, cut or
\* filled up to a whole count: 0 and 360 degrees are never both taken, if each node has
\* an id of its own.
THEOREM RevolutionIsCutEvenlyCorrect == Spec => []RevolutionIsCutEvenly
  <1>1. LoadInv => RevolutionIsCutEvenly
    <2> SUFFICES ASSUME LoadInv PROVE RevolutionIsCutEvenly
      OBVIOUS
    <2>1. ASSUME file # NoFile, UniqueIds(sent.nodes), NEW n \in ToSet(Wanted), GoesAround(n)
          PROVE  CutEvenly(Seen(trajectory, n.id), n.count)
      <3>1. Stored(file) /\ trajectory = Trajectory(file)
        BY <2>1 DEF LoadInv
      <3>2. PICK a \in 1..Len(file.nodes) : Alike(file.nodes[a], n)
        BY <3>1, <2>1, WantedIsNode
      <3> DEFINE m == file.nodes[a]
      <3>3. Seen(Trajectory(file), m.id) = {NodeAngles(m)[k] % Rev : k \in 1..Count(m)}
        BY <3>1, SeenAngles
      <3>4. m \in Nodes
        BY <3>1, StoredFacts
      <3> HIDE DEF m
      <3>5. GoesAround(m) /\ m.id = n.id /\ m.count = n.count /\ Count(m) = n.count
        BY <2>1, <3>2 DEF Alike, GoesAround, Count, m
      <3>6. {NodeAngles(m)[k] % Rev : k \in 1..m.count} = Sides(m.count)
        BY <3>4, <3>5, RangeSides
      <3>7. n.count \in 1..Rev
        <4>1. m.count \in Nat \ {0} /\ m.count <= Rev
          BY <3>4, <3>5 DEF Nodes, GoesAround
        <4> QED
          BY <3>5, <4>1, RevAssumption
      <3>8. CutEvenly(Sides(n.count), n.count)
        BY <3>7, SidesAreEven
      <3> QED
        BY <3>1, <3>3, <3>5, <3>6, <3>8
    <2> QED
      BY <2>1, CutForm
  <1> QED
    BY <1>1, LoadInvariance, PTL
=============================================================================
