------------------------ MODULE PathDocumentProofs ------------------------
(***************************************************************************)
(* Proofs about documents and travels, for every document: a stored one    *)
(* whose nodes have ids of their own, or that kept a link, reads as it was *)
(* written; a travel takes the shortest way there is; and in which order   *)
(* ordered_nodes puts the nodes.                                           *)
(*                                                                         *)
(* Normalising strips the transition nodes, orders the rest and completes  *)
(* the matrix of safe routes.  Each of the three leaves alone what it made:*)
(* nothing is stripped of what was stripped, the walk over ordered nodes goes*)
(* where it went, and safe routes are symmetric and among known points.  The*)
(* walk and the choice of entries are defined by recursion over positions, *)
(* so that facts about them go by induction over numbers (Induction).      *)
(*                                                                         *)
(* Breadth first means (SearchInv): a path in the queue is as short as any to*)
(* its end, its length is the head's or one more, and all points nearer than*)
(* the head's are behind, with all that they lead to seen.                 *)
(***************************************************************************)
EXTENDS PathDocument, WellFoundedInduction, SequenceTheorems, FiniteSetTheorems, TLAPS

(* Induction, recursion, and the entries of a sequence in a set. *)

\* A set of numbers that is not empty has a smallest one.
LEMMA SmallestNumber ==
  ASSUME NEW S \in SUBSET Nat, S # {}
  PROVE  \E x \in S : \A y \in S : x <= y
  <1> DEFINE R == OpToRel(<, Nat)
  <1>1. R = {ss \in Nat \X Nat : ss[1] < ss[2]}
    BY DEF OpToRel
  <1>2. IsWellFoundedOn(R, Nat)
    BY NatLessThanWellFounded
  <1> HIDE DEF R
  <1>3. PICK x \in S : \A y \in S : ~(<<y, x>> \in R)
    BY <1>2, WFMin
  <1>4. \A y \in S : ~(y < x)
    BY <1>1, <1>3
  <1> QED
    BY <1>4

\* Induction, for a set instead of a formula.
LEMMA Induction ==
  ASSUME NEW S, NEW n \in Nat, 0 \in S,
         \A k \in 0..(n - 1) : k \in S => k + 1 \in S
  PROVE  \A k \in 0..n : k \in S
  <1> DEFINE Bad == {k \in 0..n : k \notin S}
  <1> SUFFICES ASSUME Bad # {} PROVE FALSE
    OBVIOUS
  <1>1. PICK k \in Bad : \A j \in Bad : k <= j
    <2>1. Bad \in SUBSET Nat
      OBVIOUS
    <2> HIDE DEF Bad
    <2> QED
      BY <2>1, SmallestNumber
  <1>2. k # 0 /\ k \in 1..n /\ k - 1 \in 0..(n - 1)
    BY <1>1
  <1>3. k - 1 \notin Bad
    BY <1>1, <1>2
  <1>4. k - 1 \in S
    BY <1>2, <1>3
  <1>5. k - 1 + 1 \in S
    BY <1>2, <1>4
  <1> QED
    BY <1>1, <1>5

\* f begins with t0 and goes from one value to the next by step.
Iterates(f, n, t0, step) ==
    f[0] = t0 /\ \A k \in 0..n : k # 0 => f[k] = step[k][f[k - 1]]

\* There is a function that is defined by its value before.
LEMMA Recursion ==
  ASSUME NEW T, NEW n \in Nat, NEW t0 \in T,
         NEW step \in [0..n -> [T -> T]]
  PROVE  \E f \in [0..n -> T] : Iterates(f, n, t0, step)
  <1> DEFINE To(m) == {f \in [0..m -> T] :
                        f[0] = t0 /\ \A k \in 0..m : k # 0 => f[k] = step[k][f[k - 1]]}
             S == {m \in 0..n : To(m) # {}}
  <1>1. 0 \in S
    <2>1. [k \in 0..0 |-> t0] \in To(0)
      OBVIOUS
    <2> HIDE DEF To
    <2> QED
      BY <2>1
  <1>2. \A m \in 0..(n - 1) : m \in S => m + 1 \in S
    <2> SUFFICES ASSUME NEW m \in 0..(n - 1), m \in S PROVE m + 1 \in S
      OBVIOUS
    <2>1. PICK f \in [0..m -> T] : f[0] = t0 /\ \A k \in 0..m : k # 0 => f[k] = step[k][f[k - 1]]
      OBVIOUS
    <2>2. PICK v \in T : v = step[m + 1][f[m]]
      <3>1. f[m] \in T /\ m + 1 \in 0..n
        BY <2>1
      <3>2. step[m + 1] \in [T -> T]
        BY <3>1
      <3> QED
        BY <3>1, <3>2
    <2>3. PICK g \in [0..(m + 1) -> T] : g = [k \in 0..(m + 1) |-> IF k = m + 1 THEN v ELSE f[k]]
      <3>1. \A k \in 0..(m + 1) : k # m + 1 => k \in 0..m
        OBVIOUS
      <3> HIDE DEF To
      <3> QED
        BY <2>1, <2>2, <3>1
    <2>4. g[0] = t0
      BY <2>1, <2>3
    <2>5. ASSUME NEW k \in 0..(m + 1), k # 0 PROVE g[k] = step[k][g[k - 1]]
      <3>1. CASE k = m + 1
        BY <2>1, <2>2, <2>3, <3>1
      <3>2. CASE k # m + 1
        <4>1. k \in 0..m /\ k - 1 \in 0..m /\ k - 1 # m + 1
          BY <2>5, <3>2
        <4>2. g[k] = f[k] /\ g[k - 1] = f[k - 1]
          BY <2>3, <4>1
        <4> QED
          BY <2>1, <4>1, <4>2
      <3> QED
        BY <3>1, <3>2
    <2>6. g \in To(m + 1)
      BY <2>3, <2>4, <2>5
    <2>7. m + 1 \in 0..n
      OBVIOUS
    <2> HIDE DEF To
    <2> QED
      BY <2>6, <2>7
  <1>3. n \in S
    <2> HIDE DEF S
    <2>1. \A k \in 0..n : k \in S
      BY <1>1, <1>2, Induction
    <2> QED
      BY <2>1
  <1> QED
    BY <1>3 DEF Iterates

\* f has what is kept of the first k entries of s.
Keeps(f, s, S) ==
    /\ f[0] = <<>>
    /\ \A k \in 1..Len(s) : f[k] = IF s[k] \in S THEN Append(f[k - 1], s[k]) ELSE f[k - 1]

\* Those goes through the sequence once.
LEMMA ThoseStepwise ==
  ASSUME NEW X, NEW s \in Seq(X), NEW S
  PROVE  \E f \in [0..Len(s) -> Seq(X)] : Keeps(f, s, S) /\ Those(s, S) = f[Len(s)]
  <1> DEFINE n == Len(s)
             Q == Seq(X)
             step == [k \in 0..n |-> [q \in Q |->
                        IF k # 0 /\ s[k] \in S THEN Append(q, s[k]) ELSE q]]
             Body(f) == [k \in 0..n |-> IF k = 0 THEN <<>>
                           ELSE IF s[k] \in S THEN Append(f[k - 1], s[k]) ELSE f[k - 1]]
             kept == CHOOSE f : f = Body(f)
  <1>n. n \in Nat /\ \A k \in 1..n : s[k] \in X
    OBVIOUS
  <1>1. step \in [0..n -> [Q -> Q]]
    BY <1>n
  <1>2. PICK f \in [0..n -> Q] :
           f[0] = <<>> /\ \A k \in 0..n : k # 0 => f[k] = step[k][f[k - 1]]
    <2>1. <<>> \in Q 
      OBVIOUS
    <2> HIDE DEF step, n, Q, Body, kept
    <2>2. n \in Nat
      BY <1>n
    <2>3. \E f \in [0..n -> Q] : Iterates(f, n, <<>>, step)
      BY <1>1, <2>1, <2>2, Recursion
    <2> QED
      BY <2>3 DEF Iterates
  <1>3. \A k \in 1..n : f[k] = IF s[k] \in S THEN Append(f[k - 1], s[k]) ELSE f[k - 1]
    <2> SUFFICES ASSUME NEW k \in 1..n
                 PROVE  f[k] = IF s[k] \in S THEN Append(f[k - 1], s[k]) ELSE f[k - 1]
      OBVIOUS
    <2> HIDE DEF Q, n
    <2>1. k \in 0..n /\ k # 0 /\ k - 1 \in 0..n
      BY <1>n
    <2>2. f[k - 1] \in Q
      BY <1>2, <2>1
    <2> QED
      BY <1>2, <2>1, <2>2
  <1>4. f = Body(f)
    <2> HIDE DEF Q, n, step
    <2>1. \A k \in 0..n : k # 0 => k \in 1..n
      BY <1>n
    <2>2. f = [k \in 0..n |-> f[k]]
      BY <1>2
    <2> QED
      BY <1>2, <1>3, <2>1, <2>2
  <1>5. kept = Body(kept)
    <2> HIDE DEF Body
    <2> QED
      BY <1>4
  <1>6. Those(s, S) = kept[n]
    BY DEF Those
  <1>7. \A k \in 0..n : kept[k] = f[k]
    <2> DEFINE K == {k \in 0..n : kept[k] = f[k]}
    <2> HIDE DEF kept, n, Q, step
    <2>1. 0 \in K
      BY <1>n, <1>2, <1>5
    <2>2. \A k \in 0..(n - 1) : k \in K => k + 1 \in K
      <3> SUFFICES ASSUME NEW k \in 0..(n - 1), k \in K PROVE k + 1 \in K
        OBVIOUS
      <3>1. k + 1 \in 1..n /\ k + 1 - 1 = k /\ k + 1 \in 0..n
        BY <1>n
      <3>2. kept[k + 1] = IF s[k + 1] \in S THEN Append(kept[k], s[k + 1]) ELSE kept[k]
        <4>1. kept[k + 1] = Body(kept)[k + 1]
          BY <1>5
        <4> QED
          BY <1>n, <3>1, <4>1
      <3>3. f[k + 1] = IF s[k + 1] \in S THEN Append(f[k], s[k + 1]) ELSE f[k]
        BY <1>3, <3>1
      <3> QED
        BY <3>1, <3>2, <3>3
    <2>3. \A k \in 0..n : k \in K
      <3> HIDE DEF K
      <3> QED
        BY <1>n, <2>1, <2>2, Induction
    <2> QED
      BY <2>3
  <1>8. Those(s, S) = f[n]
    <2> HIDE DEF kept, n, step, Q
    <2> QED
      BY <1>6, <1>7, <1>n
  <1> HIDE DEF kept, step
  <1> QED
    BY <1>2, <1>3, <1>8 DEF Keeps

\* Induction over sequences, for a set instead of a formula.
LEMMA SequenceInduction ==
  ASSUME NEW X, NEW Q, <<>> \in Q,
         \A s \in Seq(X) : \A e \in X : s \in Q => Append(s, e) \in Q
  PROVE  \A s \in Seq(X) : s \in Q
  <1> DEFINE Good(k) == \A s \in Seq(X) : Len(s) = k => s \in Q
  <1> SUFFICES ASSUME NEW t \in Seq(X) PROVE t \in Q
    OBVIOUS
  <1> DEFINE n == Len(t)
             S == {k \in 0..n : Good(k)}
  <1>n. n \in Nat
    OBVIOUS
  <1>1. 0 \in S
    <2>1. \A s \in Seq(X) : Len(s) = 0 => s = <<>>
      OBVIOUS
    <2> QED
      BY <1>n, <2>1
  <1>2. \A k \in 0..(n - 1) : k \in S => k + 1 \in S
    <2> SUFFICES ASSUME NEW k \in 0..(n - 1), k \in S,
                        NEW s \in Seq(X), Len(s) = k + 1
                 PROVE  s \in Q
      BY <1>n
    <2> DEFINE r == SubSeq(s, 1, k)
    <2>1. r \in Seq(X) /\ Len(r) = k /\ s[k + 1] \in X
      BY <1>n
    <2>2. s = Append(r, s[k + 1])
      BY <1>n
    <2>3. r \in Q
      <3> HIDE DEF r
      <3> QED
        BY <2>1
    <2> HIDE DEF r
    <2> QED
      BY <2>1, <2>2, <2>3
  <1>3. n \in S
    <2> HIDE DEF S, n
    <2>1. \A k \in 0..n : k \in S
      BY <1>n, <1>1, <1>2, Induction
    <2> QED
      BY <1>n, <2>1
  <1> QED
    BY <1>3

LEMMA ThoseType ==
  ASSUME NEW X, NEW s \in Seq(X), NEW S
  PROVE  Those(s, S) \in Seq(X)
  <1>1. Len(s) \in 0..Len(s)
    OBVIOUS
  <1> QED
    BY <1>1, ThoseStepwise

LEMMA ThoseEmpty ==
  ASSUME NEW S
  PROVE  Those(<<>>, S) = <<>>
  <1>1. <<>> \in Seq({}) /\ Len(<<>>) = 0
    OBVIOUS
  <1>2. \E f : Keeps(f, <<>>, S) /\ Those(<<>>, S) = f[Len(<<>>)]
    BY <1>1, ThoseStepwise
  <1> QED
    BY <1>1, <1>2 DEF Keeps

LEMMA ThoseAppend ==
  ASSUME NEW X, NEW s \in Seq(X), NEW e \in X, NEW S
  PROVE  Those(Append(s, e), S) = IF e \in S THEN Append(Those(s, S), e) ELSE Those(s, S)
  <1> DEFINE n == Len(s)
             t == Append(s, e)
  <1>1. /\ n \in Nat /\ t \in Seq(X) /\ Len(t) = n + 1 /\ t[n + 1] = e
        /\ \A k \in 1..n : t[k] = s[k]
    OBVIOUS
  <1>2. PICK f \in [0..n -> Seq(X)] :
           /\ f[0] = <<>> /\ Those(s, S) = f[n]
           /\ \A k \in 1..n : f[k] = IF s[k] \in S THEN Append(f[k - 1], s[k]) ELSE f[k - 1]
    BY ThoseStepwise DEF Keeps
  <1>3. PICK g \in [0..(n + 1) -> Seq(X)] :
           /\ g[0] = <<>> /\ Those(t, S) = g[n + 1]
           /\ \A k \in 1..(n + 1) : g[k] = IF t[k] \in S THEN Append(g[k - 1], t[k]) ELSE g[k - 1]
    <2> HIDE DEF t, n
    <2>1. PICK g \in [0..Len(t) -> Seq(X)] : Keeps(g, t, S) /\ Those(t, S) = g[Len(t)]
      BY <1>1, ThoseStepwise
    <2>2. \A k \in 1..(n + 1) : g[k] = IF t[k] \in S THEN Append(g[k - 1], t[k]) ELSE g[k - 1]
      BY <1>1, <2>1 DEF Keeps
    <2> QED
      BY <1>1, <2>1, <2>2 DEF Keeps
  <1> HIDE DEF t, n
  <1>4. \A k \in 0..n : g[k] = f[k]
    <2> DEFINE K == {k \in 0..n : g[k] = f[k]}
    <2>1. 0 \in K
      BY <1>1, <1>2, <1>3
    <2>2. \A k \in 0..(n - 1) : k \in K => k + 1 \in K
      <3> SUFFICES ASSUME NEW k \in 0..(n - 1), k \in K PROVE k + 1 \in K
        OBVIOUS
      <3>1. k + 1 \in 1..n /\ k + 1 - 1 = k /\ k + 1 \in 1..(n + 1) /\ k + 1 \in 0..n
        BY <1>1
      <3>2. g[k + 1] = IF t[k + 1] \in S THEN Append(g[k], t[k + 1]) ELSE g[k]
        BY <1>3, <3>1
      <3>3. f[k + 1] = IF s[k + 1] \in S THEN Append(f[k], s[k + 1]) ELSE f[k]
        BY <1>2, <3>1
      <3>4. s[k + 1] = t[k + 1]
        BY <1>1, <3>1
      <3>5. g[k] = f[k]
        OBVIOUS
      <3>6. g[k + 1] = f[k + 1]
        BY <3>2, <3>3, <3>4, <3>5
      <3> QED
        BY <3>1, <3>6
    <2>3. \A k \in 0..n : k \in K
      <3> HIDE DEF K
      <3> QED
        BY <1>1, <2>1, <2>2, Induction
    <2> QED
      BY <2>3
  <1>5. g[n + 1] = IF e \in S THEN Append(g[n], e) ELSE g[n]
    <2>1. n + 1 \in 1..(n + 1) /\ n + 1 - 1 = n
      BY <1>1
    <2>2. g[n + 1] = IF t[n + 1] \in S THEN Append(g[n + 1 - 1], t[n + 1]) ELSE g[n + 1 - 1]
      <3>1. \A k \in 1..(n + 1) : k = n + 1 =>
               g[k] = IF t[k] \in S THEN Append(g[k - 1], t[k]) ELSE g[k - 1]
        BY <1>3
      <3> QED
        BY <1>1, <2>1, <3>1
    <2> QED
      BY <1>1, <2>1, <2>2
  <1>6. g[n] = f[n]
    BY <1>1, <1>4
  <1> QED
    BY <1>2, <1>3, <1>5, <1>6 DEF t

\* What a sequence holds when an entry is added.
LEMMA ToSetAppend ==
  ASSUME NEW X, NEW s \in Seq(X), NEW e \in X
  PROVE  ToSet(Append(s, e)) = ToSet(s) \cup {e} /\ ToSet(<<>>) = {}
  <1>1. /\ Len(s) \in Nat /\ DOMAIN s = 1..Len(s)
        /\ DOMAIN Append(s, e) = 1..(Len(s) + 1)
        /\ \A i \in 1..Len(s) : Append(s, e)[i] = s[i]
        /\ Append(s, e)[Len(s) + 1] = e
    OBVIOUS
  <1> QED
    BY <1>1 DEF ToSet

LEMMA ThoseRange ==
  ASSUME NEW X, NEW s \in Seq(X), NEW S
  PROVE  ToSet(Those(s, S)) = ToSet(s) \cap S
  <1> DEFINE Q == {t \in Seq(X) : ToSet(Those(t, S)) = ToSet(t) \cap S}
  <1>1. <<>> \in Q
    BY ThoseEmpty DEF ToSet
  <1>2. \A t \in Seq(X) : \A e \in X : t \in Q => Append(t, e) \in Q
    <2> SUFFICES ASSUME NEW t \in Seq(X), NEW e \in X, t \in Q
                 PROVE  ToSet(Those(Append(t, e), S)) = ToSet(Append(t, e)) \cap S
      OBVIOUS
    <2>1. Those(t, S) \in Seq(X)
      BY ThoseType
    <2>2. ToSet(Append(t, e)) = ToSet(t) \cup {e}
      BY ToSetAppend
    <2>3. ToSet(Append(Those(t, S), e)) = ToSet(Those(t, S)) \cup {e}
      BY <2>1, ToSetAppend
    <2>4. Those(Append(t, e), S) = IF e \in S THEN Append(Those(t, S), e) ELSE Those(t, S)
      BY ThoseAppend
    <2> QED
      BY <2>2, <2>3, <2>4
  <1> HIDE DEF Q
  <1>3. s \in Q
    BY <1>1, <1>2, SequenceInduction
  <1> QED
    BY <1>3 DEF Q

\* Sets that agree on the entries select the same.
LEMMA ThoseAgree ==
  ASSUME NEW X, NEW s \in Seq(X), NEW A, NEW B, ToSet(s) \cap A = ToSet(s) \cap B
  PROVE  Those(s, A) = Those(s, B)
  <1> DEFINE Q == {t \in Seq(X) : ToSet(t) \cap A = ToSet(t) \cap B => Those(t, A) = Those(t, B)}
  <1>1. <<>> \in Q
    BY ThoseEmpty
  <1>2. \A t \in Seq(X) : \A e \in X : t \in Q => Append(t, e) \in Q
    <2> SUFFICES ASSUME NEW t \in Seq(X), NEW e \in X, t \in Q,
                        ToSet(Append(t, e)) \cap A = ToSet(Append(t, e)) \cap B
                 PROVE  Those(Append(t, e), A) = Those(Append(t, e), B)
      OBVIOUS
    <2>1. ToSet(t) \cap A = ToSet(t) \cap B /\ (e \in A <=> e \in B)
      BY ToSetAppend
    <2>2. /\ Those(Append(t, e), A) = IF e \in A THEN Append(Those(t, A), e) ELSE Those(t, A)
          /\ Those(Append(t, e), B) = IF e \in B THEN Append(Those(t, B), e) ELSE Those(t, B)
      BY ThoseAppend
    <2> QED
      BY <2>1, <2>2
  <1> HIDE DEF Q
  <1>3. s \in Q
    BY <1>1, <1>2, SequenceInduction
  <1> QED
    BY <1>3 DEF Q

\* All entries, or none.
LEMMA ThoseAll ==
  ASSUME NEW X, NEW s \in Seq(X), NEW S
  PROVE  /\ ToSet(s) \subseteq S => Those(s, S) = s
         /\ ToSet(s) \cap S = {} => Those(s, S) = <<>>
  <1> DEFINE Q == {t \in Seq(X) : /\ ToSet(t) \subseteq S => Those(t, S) = t
                                  /\ ToSet(t) \cap S = {} => Those(t, S) = <<>>}
  <1>1. <<>> \in Q
    BY ThoseEmpty
  <1>2. \A t \in Seq(X) : \A e \in X : t \in Q => Append(t, e) \in Q
    <2> SUFFICES ASSUME NEW t \in Seq(X), NEW e \in X, t \in Q PROVE Append(t, e) \in Q
      OBVIOUS
    <2>1. ToSet(Append(t, e)) = ToSet(t) \cup {e}
      BY ToSetAppend
    <2>2. Those(Append(t, e), S) = IF e \in S THEN Append(Those(t, S), e) ELSE Those(t, S)
      BY ThoseAppend
    <2> QED
      BY <2>1, <2>2
  <1> HIDE DEF Q
  <1>3. s \in Q
    BY <1>1, <1>2, SequenceInduction
  <1> QED
    BY <1>3 DEF Q

LEMMA ThoseConcat ==
  ASSUME NEW X, NEW s \in Seq(X), NEW u \in Seq(X), NEW S
  PROVE  Those(s \o u, S) = Those(s, S) \o Those(u, S)
  <1> DEFINE Q == {t \in Seq(X) : Those(s \o t, S) = Those(s, S) \o Those(t, S)}
  <1>s. Those(s, S) \in Seq(X)
    BY ThoseType
  <1>1. <<>> \in Q
    BY <1>s, ThoseEmpty
  <1>2. ASSUME NEW t \in Seq(X), NEW e \in X, Those(s \o t, S) = Those(s, S) \o Those(t, S)
        PROVE  Those(s \o Append(t, e), S) = Those(s, S) \o Those(Append(t, e), S)
    <2> DEFINE r == s \o t
    <2>1. s \o Append(t, e) = Append(r, e) /\ r \in Seq(X)
      OBVIOUS
    <2>2. Those(t, S) \in Seq(X)
      BY ThoseType
    <2>3. Those(Append(t, e), S) = IF e \in S THEN Append(Those(t, S), e) ELSE Those(t, S)
      BY ThoseAppend
    <2>r. Those(r, S) = Those(s, S) \o Those(t, S)
      BY <1>2
    <2> HIDE DEF r, Q
    <2>4. Those(Append(r, e), S) = IF e \in S THEN Append(Those(r, S), e) ELSE Those(r, S)
      BY <2>1, ThoseAppend
    <2>5. Those(s, S) \o Append(Those(t, S), e) = Append(Those(s, S) \o Those(t, S), e)
      BY <1>s, <2>2
    <2> QED
      BY <2>1, <2>r, <2>3, <2>4, <2>5
  <1>3. \A t \in Seq(X) : \A e \in X : t \in Q => Append(t, e) \in Q
    <2> SUFFICES ASSUME NEW t \in Seq(X), NEW e \in X, t \in Q PROVE Append(t, e) \in Q
      OBVIOUS
    <2>1. Those(s \o t, S) = Those(s, S) \o Those(t, S)
      OBVIOUS
    <2>2. Append(t, e) \in Seq(X)
      OBVIOUS
    <2>3. Those(s \o Append(t, e), S) = Those(s, S) \o Those(Append(t, e), S)
      BY <1>2, <2>1
    <2> QED
      BY <2>2, <2>3
  <1> HIDE DEF Q
  <1>4. u \in Q
    BY <1>1, <1>3, SequenceInduction
  <1> QED
    BY <1>4 DEF Q

\* The entries in B and the other ones in A.
LEMMA ThoseSplit ==
  ASSUME NEW X, NEW s \in Seq(X), NEW A, NEW B, B \subseteq A
  PROVE  Len(Those(s, A)) = Len(Those(s, B)) + Len(Those(s, A \ B))
  <1> DEFINE Q == {t \in Seq(X) : Len(Those(t, A)) = Len(Those(t, B)) + Len(Those(t, A \ B))}
  <1>1. <<>> \in Q
    BY ThoseEmpty
  <1>2. \A t \in Seq(X) : \A e \in X : t \in Q => Append(t, e) \in Q
    <2> SUFFICES ASSUME NEW t \in Seq(X), NEW e \in X, t \in Q PROVE Append(t, e) \in Q
      OBVIOUS
    <2>1. \A C : /\ Those(t, C) \in Seq(X) /\ Len(Those(t, C)) \in Nat
                 /\ Those(Append(t, e), C) = IF e \in C THEN Append(Those(t, C), e) ELSE Those(t, C)
                 /\ Len(Append(Those(t, C), e)) = Len(Those(t, C)) + 1
      <3> SUFFICES ASSUME NEW C
                   PROVE  /\ Those(t, C) \in Seq(X) /\ Len(Those(t, C)) \in Nat
                          /\ Those(Append(t, e), C) = IF e \in C THEN Append(Those(t, C), e) ELSE Those(t, C)
                          /\ Len(Append(Those(t, C), e)) = Len(Those(t, C)) + 1
        OBVIOUS
      <3>1. Those(t, C) \in Seq(X)
        BY ThoseType
      <3>2. Those(Append(t, e), C) = IF e \in C THEN Append(Those(t, C), e) ELSE Those(t, C)
        BY ThoseAppend
      <3> QED
        BY <3>1, <3>2
    <2>2. Append(t, e) \in Seq(X)
      OBVIOUS
    <2> DEFINE c == IF e \in A THEN 1 ELSE 0
               d == IF e \in B THEN 1 ELSE 0
               g == IF e \in A \ B THEN 1 ELSE 0
    <2>3. /\ Len(Those(Append(t, e), A)) = Len(Those(t, A)) + c
          /\ Len(Those(Append(t, e), B)) = Len(Those(t, B)) + d
          /\ Len(Those(Append(t, e), A \ B)) = Len(Those(t, A \ B)) + g
      <3>1. ASSUME NEW C
            PROVE  Len(Those(Append(t, e), C)) = Len(Those(t, C)) + IF e \in C THEN 1 ELSE 0
        BY <2>1
      <3> QED
        BY <3>1
    <2>4. c = d + g /\ d \in Nat /\ g \in Nat
      OBVIOUS
    <2>5. /\ Len(Those(t, A)) = Len(Those(t, B)) + Len(Those(t, A \ B))
          /\ Len(Those(t, B)) \in Nat /\ Len(Those(t, A \ B)) \in Nat
      BY <2>1
    <2> HIDE DEF c, d, g
    <2>6. Len(Those(Append(t, e), A)) = Len(Those(Append(t, e), B)) + Len(Those(Append(t, e), A \ B))
      BY <2>3, <2>4, <2>5
    <2> QED
      BY <2>2, <2>6
  <1> HIDE DEF Q
  <1>3. s \in Q
    BY <1>1, <1>2, SequenceInduction
  <1> QED
    BY <1>3 DEF Q

LEMMA OneMoreInjective ==
  ASSUME NEW X, NEW s \in Seq(X), NEW e \in X
  PROVE  /\ IsInjective(Append(s, e)) => IsInjective(s) /\ e \notin ToSet(s)
         /\ IsInjective(s) /\ e \notin ToSet(s) => IsInjective(Append(s, e))
  <1>1. PICK n : /\ n = Len(s) /\ n \in Nat /\ DOMAIN s = 1..n /\ DOMAIN Append(s, e) = 1..(n + 1) /\ Append(s, e)[n + 1] = e
        /\ \A i \in 1..n : Append(s, e)[i] = s[i]
    OBVIOUS
  <1>2. \A i \in 1..n : i \in 1..(n + 1) /\ i # n + 1
    BY <1>1
  <1>3. n + 1 \in 1..(n + 1) /\ \A i \in 1..(n + 1) : i = n + 1 \/ i \in 1..n
    BY <1>1
  <1>4. IsInjective(Append(s, e)) => IsInjective(s)
    BY <1>1, <1>2 DEF IsInjective
  <1>5. IsInjective(Append(s, e)) => e \notin ToSet(s)
    BY <1>1, <1>2, <1>3 DEF IsInjective, ToSet
  <1>6. IsInjective(s) /\ e \notin ToSet(s) => IsInjective(Append(s, e))
    BY <1>1, <1>2, <1>3 DEF IsInjective, ToSet
  <1> QED
    BY <1>4, <1>5, <1>6

\* A sequence without repetitions is as long as it has entries.
LEMMA InjectiveCount ==
  ASSUME NEW X, NEW s \in Seq(X)
  PROVE  IsInjective(s) => IsFiniteSet(ToSet(s)) /\ Cardinality(ToSet(s)) = Len(s)
  <1> DEFINE Q == {t \in Seq(X) : IsInjective(t) =>
                     IsFiniteSet(ToSet(t)) /\ Cardinality(ToSet(t)) = Len(t)}
  <1>1. <<>> \in Q
    <2>1. ToSet(<<>>) = {} /\ Len(<<>>) = 0 /\ <<>> \in Seq(X)
      BY DEF ToSet
    <2>2. IsFiniteSet({}) /\ Cardinality({}) = 0
      BY FS_EmptySet
    <2> QED
      BY <2>1, <2>2
  <1>2. \A t \in Seq(X) : \A e \in X : t \in Q => Append(t, e) \in Q
    <2> SUFFICES ASSUME NEW t \in Seq(X), NEW e \in X, t \in Q PROVE Append(t, e) \in Q
      OBVIOUS
    <2>0. Append(t, e) \in Seq(X) /\ Len(Append(t, e)) = Len(t) + 1
      OBVIOUS
    <2> SUFFICES ASSUME IsInjective(Append(t, e))
                 PROVE  IsFiniteSet(ToSet(Append(t, e))) /\ Cardinality(ToSet(Append(t, e))) = Len(Append(t, e))
      BY <2>0
    <2>1. IsInjective(t) /\ e \notin ToSet(t)
      BY OneMoreInjective
    <2>2. IsFiniteSet(ToSet(t)) /\ Cardinality(ToSet(t)) = Len(t)
      BY <2>1
    <2>3. ToSet(Append(t, e)) = ToSet(t) \cup {e}
      BY ToSetAppend
    <2>4. IsFiniteSet(ToSet(t) \cup {e}) /\ Cardinality(ToSet(t) \cup {e}) = Cardinality(ToSet(t)) + 1
      BY <2>1, <2>2, FS_AddElement
    <2> QED
      BY <2>0, <2>2, <2>3, <2>4
  <1> HIDE DEF Q
  <1>3. s \in Q
    BY <1>1, <1>2, SequenceInduction
  <1> QED
    BY <1>3 DEF Q

LEMMA ThoseInjective ==
  ASSUME NEW X, NEW s \in Seq(X), NEW S
  PROVE  IsInjective(s) => IsInjective(Those(s, S))
  <1> DEFINE Q == {t \in Seq(X) : IsInjective(t) => IsInjective(Those(t, S))}
  <1>1. <<>> \in Q
    BY ThoseEmpty DEF IsInjective
  <1>2. \A t \in Seq(X) : \A e \in X : t \in Q => Append(t, e) \in Q
    <2> SUFFICES ASSUME NEW t \in Seq(X), NEW e \in X, t \in Q PROVE Append(t, e) \in Q
      OBVIOUS
    <2>0. Append(t, e) \in Seq(X)
      OBVIOUS
    <2> SUFFICES ASSUME IsInjective(Append(t, e)) PROVE IsInjective(Those(Append(t, e), S))
      BY <2>0
    <2>1. IsInjective(t) /\ e \notin ToSet(t)
      BY OneMoreInjective
    <2>2. IsInjective(Those(t, S))
      BY <2>1
    <2>3. Those(Append(t, e), S) = IF e \in S THEN Append(Those(t, S), e) ELSE Those(t, S)
      BY ThoseAppend
    <2>4. Those(t, S) \in Seq(X) /\ ToSet(Those(t, S)) = ToSet(t) \cap S
      BY ThoseType, ThoseRange
    <2>5. e \notin ToSet(Those(t, S))
      BY <2>1, <2>4
    <2>6. IsInjective(Append(Those(t, S), e))
      BY <2>2, <2>4, <2>5, OneMoreInjective
    <2> QED
      BY <2>2, <2>3, <2>6
  <1> HIDE DEF Q
  <1>3. s \in Q
    BY <1>1, <1>2, SequenceInduction
  <1> QED
    BY <1>3 DEF Q

LEMMA ConcatFacts ==
  ASSUME NEW X, NEW s \in Seq(X), NEW t \in Seq(X)
  PROVE  /\ s \o t \in Seq(X) /\ Len(s \o t) = Len(s) + Len(t)
         /\ ToSet(s \o t) = ToSet(s) \cup ToSet(t)
         /\ IsInjective(s) /\ IsInjective(t) /\ ToSet(s) \cap ToSet(t) = {} => IsInjective(s \o t)
  <1> DEFINE u == s \o t
  <1>1. /\ u \in Seq(X) /\ Len(u) = Len(s) + Len(t) /\ Len(s) \in Nat /\ Len(t) \in Nat
        /\ DOMAIN s = 1..Len(s) /\ DOMAIN t = 1..Len(t) /\ DOMAIN u = 1..(Len(s) + Len(t))
        /\ \A i \in 1..Len(s) : u[i] = s[i]
        /\ \A i \in (Len(s) + 1)..(Len(s) + Len(t)) : u[i] = t[i - Len(s)]
    OBVIOUS
  <1>2. \A i \in 1..Len(t) : u[Len(s) + i] = t[i]
    OBVIOUS
  <1> HIDE DEF u
  <1>3. ToSet(u) \subseteq ToSet(s) \cup ToSet(t)
    <2> SUFFICES ASSUME NEW i \in 1..(Len(s) + Len(t)) PROVE u[i] \in ToSet(s) \cup ToSet(t)
      BY <1>1 DEF ToSet
    <2>1. CASE i \in 1..Len(s)
      BY <2>1, <1>1 DEF ToSet
    <2>2. CASE i \notin 1..Len(s)
      <3>1. i \in (Len(s) + 1)..(Len(s) + Len(t)) /\ i - Len(s) \in 1..Len(t)
        BY <1>1, <2>2
      <3> QED
        BY <3>1, <1>1 DEF ToSet
    <2> QED
      BY <2>1, <2>2
  <1>4. ToSet(s) \subseteq ToSet(u)
    <2> SUFFICES ASSUME NEW i \in 1..Len(s) PROVE s[i] \in ToSet(u)
      BY <1>1 DEF ToSet
    <2>1. i \in 1..(Len(s) + Len(t)) /\ u[i] = s[i]
      BY <1>1
    <2> QED
      BY <1>1, <2>1 DEF ToSet
  <1>5. ToSet(t) \subseteq ToSet(u)
    <2> SUFFICES ASSUME NEW i \in 1..Len(t) PROVE t[i] \in ToSet(u)
      BY <1>1 DEF ToSet
    <2>1. Len(s) + i \in 1..(Len(s) + Len(t)) /\ u[Len(s) + i] = t[i]
      BY <1>1, <1>2
    <2> QED
      BY <1>1, <2>1 DEF ToSet
  <1>6. ASSUME IsInjective(s), IsInjective(t), ToSet(s) \cap ToSet(t) = {}
        PROVE  IsInjective(u)
    <2> SUFFICES ASSUME NEW i \in 1..(Len(s) + Len(t)), NEW j \in 1..(Len(s) + Len(t)), u[i] = u[j]
                 PROVE  i = j
      BY <1>1 DEF IsInjective
    <2>1. ASSUME NEW k \in 1..(Len(s) + Len(t))
          PROVE  \/ k \in 1..Len(s) /\ u[k] = s[k] /\ u[k] \in ToSet(s)
                 \/ k - Len(s) \in 1..Len(t) /\ u[k] = t[k - Len(s)] /\ u[k] \in ToSet(t)
      <3>1. CASE k \in 1..Len(s)
        BY <3>1, <1>1 DEF ToSet
      <3>2. CASE k \notin 1..Len(s)
        <4>1. k \in (Len(s) + 1)..(Len(s) + Len(t)) /\ k - Len(s) \in 1..Len(t)
          BY <1>1, <3>2
        <4> QED
          BY <4>1, <1>1 DEF ToSet
      <3> QED
        BY <3>1, <3>2
    <2>2. CASE u[i] \in ToSet(s)
      <3>1. i \in 1..Len(s) /\ j \in 1..Len(s) /\ s[i] = s[j]
        BY <1>6, <2>1, <2>2
      <3> QED
        BY <3>1, <1>6, <1>1 DEF IsInjective
    <2>3. CASE u[i] \notin ToSet(s)
      <3>1. i - Len(s) \in 1..Len(t) /\ j - Len(s) \in 1..Len(t) /\ t[i - Len(s)] = t[j - Len(s)]
        BY <1>6, <2>1, <2>3
      <3>2. i - Len(s) = j - Len(s)
        BY <3>1, <1>6, <1>1 DEF IsInjective
      <3> QED
        BY <1>1, <3>2
    <2> QED
      BY <2>2, <2>3
  <1> QED
    BY <1>1, <1>3, <1>4, <1>5, <1>6 DEF u

\* The first and the last of the entries in S.
LEMMA ThoseEnds ==
  ASSUME NEW X, NEW s \in Seq(X), NEW S
  PROVE  /\ Those(s, S) = <<>> <=> ToSet(s) \cap S = {}
         /\ Those(s, S) # <<>> => /\ Last(Those(s, S)) \in ToSet(s) \cap S
                                  /\ Head(Those(s, S)) \in ToSet(s) \cap S
  <1> DEFINE r == Those(s, S)
  <1>1. r \in Seq(X) /\ ToSet(r) = ToSet(s) \cap S
    BY ThoseType, ThoseRange
  <1> HIDE DEF r
  <1>2. r = <<>> <=> ToSet(r) = {}
    BY <1>1 DEF ToSet
  <1>3. r # <<>> => Last(r) \in ToSet(r) /\ Head(r) \in ToSet(r)
    BY <1>1 DEF ToSet, Last
  <1> QED
    BY <1>1, <1>2, <1>3 DEF r

\* The first of the entries in S has none before it.
LEMMA ThoseHead ==
  ASSUME NEW X, NEW s \in Seq(X), NEW S, Those(s, S) # <<>>
  PROVE  \E m \in 1..Len(s) : /\ s[m] = Head(Those(s, S)) /\ s[m] \in S
                              /\ \A j \in 1..(m - 1) : s[j] \notin S
  <1> DEFINE First(t, m) == t[m] = Head(Those(t, S)) /\ t[m] \in S /\ \A j \in 1..(m - 1) : t[j] \notin S
             Q == {t \in Seq(X) : Those(t, S) # <<>> => \E m \in 1..Len(t) : First(t, m)}
  <1>1. <<>> \in Q
    BY ThoseEmpty
  <1>2. \A t \in Seq(X) : \A e \in X : t \in Q => Append(t, e) \in Q
    <2> SUFFICES ASSUME NEW t \in Seq(X), NEW e \in X, t \in Q, Those(Append(t, e), S) # <<>>
                 PROVE  \E m \in 1..Len(Append(t, e)) : First(Append(t, e), m)
      <3>1. \A t \in Seq(X) : \A e \in X : Append(t, e) \in Seq(X)
        OBVIOUS
      <3> HIDE DEF First
      <3> QED
        BY <3>1
    <2> DEFINE a == Those(t, S)
               u == Append(t, e)
               n == Len(t)
    <2>1. a \in Seq(X) /\ Those(u, S) = IF e \in S THEN Append(a, e) ELSE a
      BY ThoseType, ThoseAppend
    <2>2. /\ n \in Nat /\ Len(u) = n + 1 /\ u[n + 1] = e /\ n + 1 \in 1..Len(u)
          /\ \A k \in 1..n : u[k] = t[k] /\ k \in 1..Len(u)
      OBVIOUS
    <2>3. CASE a # <<>>
      <3>1. PICK m \in 1..n : First(t, m)
        BY <2>3
      <3>2. Head(Those(u, S)) = Head(a)
        <4> HIDE DEF a
        <4>1. Head(Append(a, e)) = Head(a)
          BY <2>1, <2>3
        <4> QED
          BY <2>1, <4>1
      <3>3. u[m] = t[m] /\ m \in 1..Len(u) /\ \A j \in 1..(m - 1) : u[j] = t[j]
        BY <2>2, <3>1
      <3>4. First(u, m)
        BY <3>1, <3>2, <3>3
      <3> QED
        BY <3>3, <3>4
    <2>4. CASE a = <<>>
      <3>1. e \in S /\ Those(u, S) = Append(a, e)
        BY <2>1, <2>4
      <3>2. Head(Those(u, S)) = e
        <4> HIDE DEF a
        <4> QED
          BY <2>1, <2>4, <3>1
      <3>3. \A j \in 1..n : t[j] \notin S
        <4>1. ToSet(t) \cap S = {}
          BY <2>4, ThoseEnds
        <4> QED
          BY <4>1 DEF ToSet
      <3>4. \A j \in 1..((n + 1) - 1) : u[j] \notin S
        BY <2>2, <3>3
      <3>5. First(u, n + 1)
        BY <2>2, <3>1, <3>2, <3>4
      <3> QED
        BY <2>2, <3>5
    <2> QED
      BY <2>3, <2>4
  <1>3. s \in Q
    <2> HIDE DEF Q
    <2> QED
      BY <1>1, <1>2, SequenceInduction
  <1> QED
    BY <1>3

-----------------------------------------------------------------------------
(* The walk of ordered_nodes. *)

\* An id tells the node.
IdsTell(nodes) == \A m, n \in ToSet(nodes) : m.id = n.id => m = n

LEMMA UniqueForms ==
  ASSUME NEW X, NEW s \in Seq(X)
  PROVE  /\ UniqueIds(s) => IsInjective(s) /\ IdsTell(s)
         /\ IsInjective(s) /\ IdsTell(s) => UniqueIds(s)
  BY DEF UniqueIds, IsInjective, IdsTell, ToSet

LEMMA AppendEntries ==
  ASSUME NEW X, NEW s \in Seq(X), NEW e \in X
  PROVE  /\ Len(s) \in Nat /\ DOMAIN s = 1..Len(s) /\ DOMAIN Append(s, e) = 1..(Len(s) + 1)
         /\ Append(s, e)[Len(s) + 1] = e /\ \A i \in 1..Len(s) : Append(s, e)[i] = s[i]
         /\ Append(s, e) \in Seq(X) /\ Len(Append(s, e)) = Len(s) + 1
  OBVIOUS

LEMMA FollowFacts ==
  ASSUME NEW X, NEW M \in Seq(X), NEW w \in Seq(X)
  PROVE  /\ Follow(M, w) \in Seq(X)
         /\ w # <<>> => Follow(M, w) # <<>> /\ Follow(M, w)[1] = w[1]
         /\ UniqueIds(w) => UniqueIds(Follow(M, w))
         /\ ToSet(w) \subseteq ToSet(Follow(M, w))
         /\ ToSet(Follow(M, w)) \subseteq ToSet(w) \cup ToSet(M)
         /\ Follow(M, w) # w => Len(Follow(M, w)) = Len(w) + 1
  <1> DEFINE S == {n \in ToSet(M) : n.id = Last(w).next}
             next == Those(M, S)
  <1>1. next # <<>> => Last(next) \in ToSet(M) \cap S
    BY ThoseEnds
  <1>2. ToSet(M) \subseteq X
    BY DEF ToSet
  <1>3. Follow(M, w) = IF next = <<>> \/ Last(w).next \in Ids(w) THEN w ELSE Append(w, Last(next))
    BY DEF Follow
  <1> HIDE DEF next
  <1>4. CASE next = <<>> \/ Last(w).next \in Ids(w)
    BY <1>3, <1>4
  <1>5. CASE next # <<>> /\ Last(w).next \notin Ids(w)
    <2> DEFINE e == Last(next)
    <2>1. e \in X /\ e \in ToSet(M) /\ e.id = Last(w).next
      BY <1>1, <1>2, <1>5
    <2>2. \A i \in DOMAIN w : w[i].id # e.id
      BY <1>5, <2>1 DEF Ids, ToSet
    <2>3. Follow(M, w) = Append(w, e)
      BY <1>3, <1>5
    <2> HIDE DEF e
    <2>4. ToSet(Append(w, e)) = ToSet(w) \cup {e}
      BY <2>1, ToSetAppend
    <2>5. UniqueIds(w) => UniqueIds(Append(w, e))
      <3> SUFFICES ASSUME UniqueIds(w) PROVE UniqueIds(Append(w, e))
        OBVIOUS
      <3> DEFINE n == Len(w)
      <3>1. /\ n \in Nat /\ DOMAIN w = 1..n /\ DOMAIN Append(w, e) = 1..(n + 1)
            /\ Append(w, e)[n + 1] = e /\ \A i \in 1..n : Append(w, e)[i] = w[i]
        BY <2>1, AppendEntries
      <3> HIDE DEF n
      <3>2. \A i \in 1..(n + 1) : i = n + 1 \/ i \in 1..n
        BY <3>1
      <3> QED
        BY <2>2, <3>1, <3>2 DEF UniqueIds
    <2>6. Append(w, e) \in Seq(X) /\ Append(w, e) # <<>> /\ (w # <<>> => Append(w, e)[1] = w[1])
          /\ Len(Append(w, e)) = Len(w) + 1
      BY <2>1
    <2> QED
      BY <2>1, <2>3, <2>4, <2>5, <2>6
  <1> QED
    BY <1>4, <1>5

\* The walk goes the same way in a list that has, of the nodes of an id it comes to,
\* only the one it came to.
LEMMA FollowSame ==
  ASSUME NEW X, NEW M \in Seq(X), NEW K \in Seq(X), NEW w \in Seq(X), NEW v \in Seq(X),
         ToSet(K) \subseteq ToSet(M), ToSet(v) \subseteq ToSet(K), ToSet(Follow(M, w)) \subseteq ToSet(v),
         \A m \in ToSet(v), n \in ToSet(K) : m.id = n.id => m = n
  PROVE  Follow(K, w) = Follow(M, w)
  <1> DEFINE x == Last(w).next
             k == Those(K, {n \in ToSet(K) : n.id = x})
             m == Those(M, {n \in ToSet(M) : n.id = x})
  <1>1. (k = <<>> <=> ToSet(K) \cap {n \in ToSet(K) : n.id = x} = {}) /\ (k # <<>> => Last(k) \in ToSet(K) /\ Last(k).id = x)
    BY ThoseEnds
  <1>2. (m = <<>> <=> ToSet(M) \cap {n \in ToSet(M) : n.id = x} = {}) /\ (m # <<>> => Last(m) \in ToSet(M) /\ Last(m).id = x)
    BY ThoseEnds
  <1>3. /\ Follow(K, w) = IF k = <<>> \/ x \in Ids(w) THEN w ELSE Append(w, Last(k))
        /\ Follow(M, w) = IF m = <<>> \/ x \in Ids(w) THEN w ELSE Append(w, Last(m))
    BY DEF Follow
  <1> HIDE DEF k, m, x
  <1>4. CASE x \in Ids(w)
    BY <1>3, <1>4
  <1>5. CASE m = <<>>
    <2>1. k = <<>>
      BY <1>1, <1>2, <1>5
    <2> QED
      BY <1>3, <1>5, <2>1
  <1>6. CASE m # <<>> /\ x \notin Ids(w)
    <2> DEFINE e == Last(m)
    <2>1. Follow(M, w) = Append(w, e) /\ e \in X /\ e.id = x
      <3>1. e \in ToSet(M)
        BY <1>2, <1>6
      <3>2. e \in X
        BY <3>1 DEF ToSet
      <3> QED
        BY <1>2, <1>3, <1>6, <3>2
    <2> HIDE DEF e
    <2>2. e \in ToSet(v)
      <3>1. ToSet(Append(w, e)) = ToSet(w) \cup {e}
        BY <2>1, ToSetAppend
      <3> QED
        BY <2>1, <3>1
    <2>3. k # <<>>
      BY <1>1, <2>1, <2>2
    <2>4. Last(k) = e
      BY <1>1, <2>1, <2>2, <2>3
    <2> QED
      BY <1>3, <1>6, <2>1, <2>3, <2>4
  <1> QED
    BY <1>4, <1>5, <1>6

\* f has the walk step by step.
Walks(f, nodes, first, n) ==
    f[0] = <<first>> /\ \A k \in 1..n : f[k] = Follow(nodes, f[k - 1])

LEMMA WalkStepwise ==
  ASSUME NEW X, NEW M \in Seq(X), NEW first \in X
  PROVE  \E f \in [0..Len(M) -> Seq(X)] : Walks(f, M, first, Len(M)) /\ Walk(M, first) = f[Len(M)]
  <1> DEFINE n == Len(M)
             Q == Seq(X)
             step == [k \in 0..n |-> [q \in Q |-> Follow(M, q)]]
             Body(f) == [k \in 0..n |-> IF k = 0 THEN <<first>> ELSE Follow(M, f[k - 1])]
             chain == CHOOSE f : f = Body(f)
  <1>n. n \in Nat
    OBVIOUS
  <1>1. step \in [0..n -> [Q -> Q]]
    BY FollowFacts
  <1>2. PICK f \in [0..n -> Q] : Iterates(f, n, <<first>>, step)
    <2>1. <<first>> \in Q
      OBVIOUS
    <2> HIDE DEF step, n, Q, Body, chain
    <2> QED
      BY <1>1, <1>n, <2>1, Recursion
  <1>3. f[0] = <<first>> /\ \A k \in 0..n : k # 0 => f[k] = Follow(M, f[k - 1])
    <2>1. f[0] = <<first>> /\ \A k \in 0..n : k # 0 => f[k] = step[k][f[k - 1]]
      BY <1>2 DEF Iterates
    <2> SUFFICES ASSUME NEW k \in 0..n, k # 0 PROVE f[k] = Follow(M, f[k - 1])
      BY <2>1
    <2>2. f[k - 1] \in Q
      <3>1. k - 1 \in 0..n
        BY <1>n
      <3> HIDE DEF n, Q, step, Body, chain
      <3> QED
        BY <1>2, <3>1
    <2>3. f[k] = step[k][f[k - 1]]
      BY <2>1
    <2> HIDE DEF Q, n
    <2> QED
      BY <2>2, <2>3
  <1>4. f = Body(f)
    <2> HIDE DEF Q, n, step
    <2>2. f = [k \in 0..n |-> f[k]]
      BY <1>2
    <2> QED
      BY <1>3, <2>2
  <1>5. chain = Body(chain)
    <2> HIDE DEF Body
    <2> QED
      BY <1>4
  <1>6. Walk(M, first) = chain[n]
    BY DEF Walk
  <1>7. \A k \in 0..n : chain[k] = f[k]
    <2> DEFINE K == {k \in 0..n : chain[k] = f[k]}
    <2> HIDE DEF chain, n, Q, step
    <2>1. 0 \in K
      BY <1>n, <1>3, <1>5
    <2>2. \A k \in 0..(n - 1) : k \in K => k + 1 \in K
      <3> SUFFICES ASSUME NEW k \in 0..(n - 1), k \in K PROVE k + 1 \in K
        OBVIOUS
      <3>1. k + 1 - 1 = k /\ k + 1 \in 0..n /\ k + 1 # 0
        BY <1>n
      <3>2. chain[k + 1] = Follow(M, chain[k])
        <4>1. chain[k + 1] = Body(chain)[k + 1]
          BY <1>5
        <4> QED
          BY <1>n, <3>1, <4>1
      <3>3. f[k + 1] = Follow(M, f[k])
        BY <1>3, <3>1
      <3> QED
        BY <3>1, <3>2, <3>3
    <2>3. \A k \in 0..n : k \in K
      <3> HIDE DEF K
      <3> QED
        BY <1>n, <2>1, <2>2, Induction
    <2> QED
      BY <2>3
  <1>8. Walk(M, first) = f[n]
    <2> HIDE DEF chain, n, step, Q
    <2> QED
      BY <1>6, <1>7, <1>n
  <1>9. Walks(f, M, first, n)
    <2> HIDE DEF chain, n, step, Q
    <2>1. \A k \in 1..n : k \in 0..n /\ k # 0
      BY <1>n
    <2> QED
      BY <1>3, <2>1 DEF Walks
  <1> HIDE DEF chain, step
  <1> QED
    BY <1>2, <1>8, <1>9

\* A sequence is at least as long as it has entries.
LEMMA EntriesCount ==
  ASSUME NEW X, NEW s \in Seq(X)
  PROVE  IsFiniteSet(ToSet(s)) /\ Cardinality(ToSet(s)) <= Len(s)
  <1> DEFINE Q == {t \in Seq(X) : IsFiniteSet(ToSet(t)) /\ Cardinality(ToSet(t)) \in Nat /\ Cardinality(ToSet(t)) <= Len(t)}
  <1>1. <<>> \in Q
    <2>1. ToSet(<<>>) = {} /\ Len(<<>>) = 0 /\ <<>> \in Seq(X)
      BY DEF ToSet
    <2>2. IsFiniteSet(ToSet(<<>>))
      BY <2>1, FS_EmptySet
    <2>3. Cardinality(ToSet(<<>>)) = 0
      BY <2>1, FS_EmptySet
    <2>4. Cardinality(ToSet(<<>>)) \in Nat /\ Cardinality(ToSet(<<>>)) <= Len(<<>>)
      BY <2>1, <2>3
    <2> QED
      BY <2>1, <2>2, <2>4
  <1>2. \A t \in Seq(X) : \A e \in X : t \in Q => Append(t, e) \in Q
    <2> SUFFICES ASSUME NEW t \in Seq(X), NEW e \in X, t \in Q PROVE Append(t, e) \in Q
      OBVIOUS
    <2>1. Append(t, e) \in Seq(X) /\ Len(Append(t, e)) = Len(t) + 1 /\ Len(t) \in Nat
      OBVIOUS
    <2>2. ToSet(Append(t, e)) = ToSet(t) \cup {e}
      BY ToSetAppend
    <2> DEFINE c == Cardinality(ToSet(t))
               d == Cardinality(ToSet(Append(t, e)))
    <2>3. IsFiniteSet(ToSet(Append(t, e)))
      BY <2>2, FS_AddElement
    <2>4. d = IF e \in ToSet(t) THEN c ELSE c + 1
      BY <2>2, FS_AddElement
    <2>5. c \in Nat /\ c <= Len(t)
      OBVIOUS
    <2> HIDE DEF c, d
    <2>6. d = c \/ d = c + 1
      BY <2>4
    <2>7. d \in Nat /\ d <= Len(Append(t, e))
      BY <2>1, <2>5, <2>6
    <2> QED
      BY <2>1, <2>3, <2>7 DEF d
  <1> HIDE DEF Q
  <1>3. s \in Q
    BY <1>1, <1>2, SequenceInduction
  <1> QED
    BY <1>3 DEF Q

\* A part of a walk, after k steps.
PartOfWalk(v, M, first, k) ==
    /\ v # <<>> /\ v[1] = first /\ UniqueIds(v) /\ ToSet(v) \subseteq ToSet(M)
    /\ Len(v) = k + 1 \/ Follow(M, v) = v

\* The walk w does not leave v's nodes, and ends at v only if it is v.
PartOf(v, M, w) == ToSet(v) \subseteq ToSet(w) /\ (Follow(M, v) = v => v = w)

\* The walk step by step: it only grows, each step by one node or none, and has ended
\* when it does not.
LEMMA WalkChain ==
  ASSUME NEW X, NEW M \in Seq(X), NEW first \in ToSet(M)
  PROVE  \E f \in [0..Len(M) -> Seq(X)] :
            /\ Walks(f, M, first, Len(M)) /\ Walk(M, first) = f[Len(M)]
            /\ Follow(M, Walk(M, first)) = Walk(M, first)
            /\ \A k \in 0..Len(M) : PartOfWalk(f[k], M, first, k) /\ PartOf(f[k], M, Walk(M, first))
  <1> DEFINE n == Len(M)
  <1>n. n \in Nat
    OBVIOUS
  <1>x. first \in X
    BY DEF ToSet
  <1>1. PICK f \in [0..n -> Seq(X)] : Walks(f, M, first, n) /\ Walk(M, first) = f[n]
    BY <1>x, WalkStepwise
  <1>c. n = Len(M)
    OBVIOUS
  <1> HIDE DEF n
  <1> DEFINE Good(k) == /\ PartOfWalk(f[k], M, first, k)
                        /\ \A j \in 0..k : ToSet(f[j]) \subseteq ToSet(f[k]) /\ (Follow(M, f[j]) = f[j] => f[k] = f[j])
             K == {k \in 0..n : Good(k)}
  <1>2. 0 \in K
    <2> DEFINE one == <<first>>
    <2>1. one # <<>> /\ one[1] = first /\ Len(one) = 1 /\ DOMAIN one = {1}
      OBVIOUS
    <2>2. ToSet(one) = {first} /\ UniqueIds(one)
      BY <2>1 DEF ToSet, UniqueIds
    <2>3. f[0] = one
      BY <1>1 DEF Walks
    <2> HIDE DEF one
    <2>4. PartOfWalk(one, M, first, 0)
      BY <2>1, <2>2 DEF PartOfWalk
    <2>5. \A j \in 0..0 : j = 0
      OBVIOUS
    <2>6. Good(0)
      BY <2>3, <2>4, <2>5
    <2> HIDE DEF Good
    <2> QED
      BY <1>n, <2>6
  <1>3. \A k \in 0..(n - 1) : k \in K => k + 1 \in K
    <2> SUFFICES ASSUME NEW k \in 0..(n - 1), k \in K PROVE k + 1 \in K
      OBVIOUS
    <2>1. k + 1 \in 1..n /\ k + 1 - 1 = k /\ k + 1 \in 0..n /\ k \in 0..n /\ k \in Nat
      BY <1>n
    <2>2. f[k + 1] = Follow(M, f[k])
      BY <1>1, <2>1 DEF Walks
    <2> DEFINE u == f[k]
               v == Follow(M, u)
    <2>3. Good(k) /\ u \in Seq(X)
      BY <1>1, <2>1
    <2>4. f[k + 1] = v
      BY <2>2
    <2>5. /\ v \in Seq(X) /\ (u # <<>> => v # <<>> /\ v[1] = u[1])
          /\ UniqueIds(u) => UniqueIds(v)
          /\ ToSet(u) \subseteq ToSet(v) /\ ToSet(v) \subseteq ToSet(u) \cup ToSet(M)
          /\ v # u => Len(v) = Len(u) + 1
      BY <2>3, FollowFacts
    <2>6. Len(u) = k + 1 \/ v = u
      BY <2>3 DEF PartOfWalk
    <2>7. Follow(M, u) = v
      OBVIOUS
    <2>8. PartOfWalk(u, M, first, k)
      BY <2>3
    <2>9. \A j \in 0..k : ToSet(f[j]) \subseteq ToSet(u) /\ (Follow(M, f[j]) = f[j] => u = f[j])
      BY <2>3
    <2> HIDE DEF v, u
    <2>10. Len(v) = (k + 1) + 1 \/ Follow(M, v) = v
      <3>1. CASE v = u
        BY <2>7, <3>1
      <3>2. CASE v # u
        BY <2>5, <2>6, <3>2
      <3> QED
        BY <3>1, <3>2
    <2>11. PartOfWalk(v, M, first, k + 1)
      BY <2>5, <2>8, <2>10 DEF PartOfWalk
    <2>12. ASSUME NEW j \in 0..(k + 1)
           PROVE  ToSet(f[j]) \subseteq ToSet(v) /\ (Follow(M, f[j]) = f[j] => v = f[j])
      <3>1. CASE j = k + 1
        BY <2>4, <3>1
      <3>2. CASE j # k + 1
        <4>1. j \in 0..k
          BY <2>1, <3>2
        <4>2. ToSet(f[j]) \subseteq ToSet(v)
          BY <2>5, <2>9, <4>1
        <4>3. ASSUME Follow(M, f[j]) = f[j] PROVE v = f[j]
          <5>1. u = f[j]
            BY <2>9, <4>1, <4>3
          <5> QED
            BY <2>7, <4>3, <5>1
        <4> QED
          BY <4>2, <4>3
      <3> QED
        BY <3>1, <3>2
    <2>13. Good(k + 1)
      BY <2>4, <2>11, <2>12
    <2> HIDE DEF Good
    <2> QED
      BY <2>1, <2>13
  <1>4. \A k \in 0..n : k \in K
    <2> HIDE DEF K
    <2> QED
      BY <1>n, <1>2, <1>3, Induction
  <1> DEFINE w == f[n]
  <1>5. n \in 0..n
    BY <1>n
  <1>6. Good(n)
    BY <1>4, <1>5
  <1>7. PartOfWalk(w, M, first, n) /\ w \in Seq(X)
        /\ \A j \in 0..n : ToSet(f[j]) \subseteq ToSet(w) /\ (Follow(M, f[j]) = f[j] => w = f[j])
    BY <1>1, <1>5, <1>6
  <1>8. \A k \in 0..n : PartOfWalk(f[k], M, first, k)
    BY <1>4
  <1>9. w = Walk(M, first)
    BY <1>1
  <1> HIDE DEF Good, K, w
  <1>10. Follow(M, w) = w
    <2>1. IsInjective(w) /\ ToSet(w) \subseteq ToSet(M)
      BY <1>7, UniqueForms DEF PartOfWalk
    <2>2. IsFiniteSet(ToSet(M)) /\ Cardinality(ToSet(M)) <= n /\ Cardinality(ToSet(M)) \in Nat
      BY <1>c, EntriesCount, FS_CardinalityType
    <2>3. Cardinality(ToSet(w)) = Len(w)
      BY <1>7, <2>1, InjectiveCount
    <2>4. Cardinality(ToSet(w)) <= Cardinality(ToSet(M))
      BY <2>1, <2>2, FS_Subset
    <2>5. Len(w) \in Nat
      BY <1>7
    <2>6. Len(w) # n + 1
      BY <1>n, <2>2, <2>3, <2>4, <2>5
    <2> QED
      BY <1>7, <2>6 DEF PartOfWalk
  <1>11. \A k \in 0..n : PartOf(f[k], M, w)
    BY <1>7 DEF PartOf
  <1> QED
    BY <1>1, <1>8, <1>9, <1>10, <1>11, <1>c

\* The walk visits entries, each id once, from the first one on, as far as it can.
LEMMA WalkFacts ==
  ASSUME NEW X, NEW M \in Seq(X), NEW first \in ToSet(M)
  PROVE  /\ Walk(M, first) \in Seq(X) /\ Walk(M, first) # <<>> /\ Walk(M, first)[1] = first
         /\ UniqueIds(Walk(M, first)) /\ IsInjective(Walk(M, first))
         /\ ToSet(Walk(M, first)) \subseteq ToSet(M)
         /\ Follow(M, Walk(M, first)) = Walk(M, first)
  <1>1. PICK f \in [0..Len(M) -> Seq(X)] :
            /\ Walk(M, first) = f[Len(M)]
            /\ Follow(M, Walk(M, first)) = Walk(M, first)
            /\ \A k \in 0..Len(M) : PartOfWalk(f[k], M, first, k)
    BY WalkChain
  <1>2. Len(M) \in 0..Len(M)
    OBVIOUS
  <1>3. Walk(M, first) \in Seq(X) /\ PartOfWalk(Walk(M, first), M, first, Len(M))
    BY <1>1, <1>2
  <1> QED
    BY <1>1, <1>3, UniqueForms DEF PartOfWalk

\* ... and comes to the same nodes again when those it has not come to, of other ids,
\* are put behind them.
LEMMA WalkSame ==
  ASSUME NEW X, NEW M \in Seq(X), NEW K \in Seq(X), NEW first \in ToSet(M),
         ToSet(Walk(M, first)) \subseteq ToSet(K), ToSet(K) \subseteq ToSet(M),
         \A m \in ToSet(Walk(M, first)), n \in ToSet(K) : m.id = n.id => m = n
  PROVE  Walk(K, first) = Walk(M, first)
  <1> DEFINE n == Len(M)
             w == Walk(M, first)
             Ends(v) == Follow(M, v) = v
  <1>n. n \in Nat
    OBVIOUS
  <1>0. PICK f \in [0..Len(M) -> Seq(X)] :
            /\ Walks(f, M, first, Len(M)) /\ Walk(M, first) = f[Len(M)]
            /\ Follow(M, Walk(M, first)) = Walk(M, first)
            /\ \A k \in 0..Len(M) : PartOfWalk(f[k], M, first, k) /\ PartOf(f[k], M, Walk(M, first))
    BY WalkChain
  <1>1. /\ f \in [0..n -> Seq(X)] /\ Walks(f, M, first, n) /\ w = f[n] /\ Ends(w)
        /\ \A k \in 0..n : ToSet(f[k]) \subseteq ToSet(w) /\ (Ends(f[k]) => f[k] = w)
    <2>1. f \in [0..n -> Seq(X)] /\ Walks(f, M, first, n) /\ w = f[n] /\ Ends(w)
      BY <1>0
    <2>2. ASSUME NEW k \in 0..n PROVE ToSet(f[k]) \subseteq ToSet(w) /\ (Ends(f[k]) => f[k] = w)
      BY <1>0 DEF PartOf
    <2> HIDE DEF w, n, Ends
    <2> QED
      BY <2>1, <2>2
  <1>2. w \in Seq(X) /\ w # <<>> /\ w[1] = first
    BY WalkFacts
  <1>k. first \in ToSet(K)
    <2>1. first \in ToSet(w)
      BY <1>2 DEF ToSet
    <2> QED
      BY <2>1
  <1> DEFINE d == Len(K)
  <1>d. d \in Nat
    OBVIOUS
  <1>3. PICK g \in [0..d -> Seq(X)] :
            /\ Walks(g, K, first, d) /\ Walk(K, first) = g[d]
            /\ Follow(K, Walk(K, first)) = Walk(K, first)
    BY <1>k, WalkChain
  <1>s. ASSUME NEW v \in Seq(X), ToSet(Follow(M, v)) \subseteq ToSet(w)
        PROVE  Follow(K, v) = Follow(M, v)
    <2>1. ToSet(w) \subseteq ToSet(K)
      OBVIOUS
    <2>2. \A a \in ToSet(w), b \in ToSet(K) : a.id = b.id => a = b
      OBVIOUS
    <2>w. w \in Seq(X)
      BY <1>2
    <2> HIDE DEF w
    <2> QED
      BY <2>w, <1>s, <2>1, <2>2, FollowSame
  <1> HIDE DEF n, w, d
  <1> DEFINE G == {k \in 0..d : IF k <= n THEN g[k] = f[k] ELSE g[k] = w}
  <1>4. 0 \in G
    <2>1. f[0] = <<first>> /\ g[0] = <<first>>
      BY <1>1, <1>3 DEF Walks
    <2>2. 0 \in 0..d /\ 0 <= n
      BY <1>n, <1>d
    <2> QED
      BY <2>1, <2>2
  <1>5. \A k \in 0..(d - 1) : k \in G => k + 1 \in G
    <2> SUFFICES ASSUME NEW k \in 0..(d - 1), k \in G PROVE k + 1 \in G
      OBVIOUS
    <2>1. k + 1 \in 1..d /\ k + 1 - 1 = k /\ k + 1 \in 0..d /\ k \in Nat
      BY <1>d
    <2>2. g[k + 1] = Follow(K, g[k])
      BY <1>3, <2>1 DEF Walks
    <2>3. CASE k + 1 <= n
      <3>1. k + 1 \in 1..n /\ k + 1 \in 0..n /\ k \in 0..n /\ k <= n
        BY <1>n, <2>1, <2>3
      <3>2. g[k] = f[k] /\ f[k] \in Seq(X)
        BY <1>1, <3>1
      <3>3. f[k + 1] = Follow(M, f[k])
        BY <1>1, <2>1, <3>1 DEF Walks
      <3>4. ToSet(Follow(M, f[k])) \subseteq ToSet(w)
        BY <1>1, <3>1, <3>3
      <3>5. Follow(K, f[k]) = Follow(M, f[k])
        BY <1>s, <3>2, <3>4
      <3> QED
        BY <2>1, <2>2, <2>3, <3>2, <3>3, <3>5
    <2>4. CASE ~(k + 1 <= n)
      <3>1. g[k] = w
        <4>1. CASE k <= n
          <5>1. k = n
            BY <1>n, <2>1, <2>4, <4>1
          <5> QED
            BY <1>1, <4>1, <5>1
        <4>2. CASE ~(k <= n)
          BY <4>2
        <4> QED
          BY <4>1, <4>2
      <3>2. Follow(K, w) = w
        BY <1>1, <1>2, <1>s
      <3> QED
        BY <2>1, <2>2, <2>4, <3>1, <3>2
    <2> QED
      BY <2>3, <2>4
  <1>6. d \in G
    <2> HIDE DEF G
    <2>1. \A k \in 0..d : k \in G
      BY <1>d, <1>4, <1>5, Induction
    <2> QED
      BY <1>d, <2>1
  <1>7. g[d] = w
    <2>1. CASE d <= n
      <3>1. g[d] = f[d] /\ d \in 0..n
        BY <1>n, <1>d, <1>6, <2>1
      <3>2. Follow(K, f[d]) = f[d]
        BY <1>3, <3>1
      <3>3. CASE d + 1 <= n
        <4>1. d + 1 \in 1..n /\ d + 1 \in 0..n /\ d + 1 - 1 = d
          BY <1>n, <1>d, <3>3
        <4>2. f[d + 1] = Follow(M, f[d])
          <5> DEFINE k == d + 1
          <5>1. k \in 1..n /\ k - 1 = d
            BY <1>d, <1>n, <4>1
          <5> HIDE DEF k
          <5>2. f[k] = Follow(M, f[k - 1])
            BY <1>1, <5>1 DEF Walks
          <5> QED
            BY <5>1, <5>2 DEF k
        <4>3. Follow(K, f[d]) = Follow(M, f[d])
          BY <1>1, <1>s, <3>1, <4>1, <4>2
        <4> QED
          BY <1>1, <3>1, <3>2, <4>3
      <3>4. CASE ~(d + 1 <= n)
        <4>1. d = n
          BY <1>n, <1>d, <2>1, <3>4
        <4> QED
          BY <1>1, <3>1, <4>1
      <3> QED
        BY <3>3, <3>4
    <2>2. CASE ~(d <= n)
      BY <1>6, <2>2
    <2> QED
      BY <2>1, <2>2
  <1> QED
    BY <1>3, <1>7 DEF w

\* An entry that comes first stays first among those that are kept.
LEMMA ThoseFirst ==
  ASSUME NEW X, NEW s \in Seq(X), NEW S, s # <<>>, s[1] \in S
  PROVE  Those(s, S) # <<>> /\ Head(Those(s, S)) = s[1]
  <1> DEFINE Q == {t \in Seq(X) : t # <<>> /\ t[1] \in S => Those(t, S) # <<>> /\ Those(t, S)[1] = t[1]}
  <1>1. <<>> \in Q
    OBVIOUS
  <1>2. \A t \in Seq(X) : \A e \in X : t \in Q => Append(t, e) \in Q
    <2> SUFFICES ASSUME NEW t \in Seq(X), NEW e \in X, t \in Q PROVE Append(t, e) \in Q
      OBVIOUS
    <2>0. Append(t, e) \in Seq(X)
      OBVIOUS
    <2> SUFFICES ASSUME Append(t, e)[1] \in S
                 PROVE  Those(Append(t, e), S) # <<>> /\ Those(Append(t, e), S)[1] = Append(t, e)[1]
      BY <2>0
    <2>1. Those(Append(t, e), S) = IF e \in S THEN Append(Those(t, S), e) ELSE Those(t, S)
      BY ThoseAppend
    <2>2. Those(t, S) \in Seq(X)
      BY ThoseType
    <2>3. CASE t = <<>>
      <3>1. e \in S /\ Append(t, e)[1] = e
        BY <2>3
      <3>2. Those(t, S) = <<>>
        BY <2>3, ThoseEmpty
      <3> QED
        BY <2>1, <3>1, <3>2
    <2>4. CASE t # <<>>
      <3>1. Append(t, e)[1] = t[1]
        BY <2>4
      <3>2. Those(t, S) # <<>> /\ Those(t, S)[1] = t[1]
        BY <2>4, <3>1
      <3>3. Append(Those(t, S), e) # <<>> /\ Append(Those(t, S), e)[1] = t[1]
        BY <2>2, <3>2
      <3> QED
        BY <2>1, <3>1, <3>2, <3>3
    <2> QED
      BY <2>3, <2>4
  <1> HIDE DEF Q
  <1>3. s \in Q
    BY <1>1, <1>2, SequenceInduction
  <1>4. Those(s, S) \in Seq(X)
    BY ThoseType
  <1> QED
    BY <1>3, <1>4 DEF Q

IsHome(nodes) == {n \in ToSet(nodes) : n.type = "home"}

\* The nodes whose ids the walk has not been at.
Elsewhere(nodes, walked) == {n \in ToSet(nodes) : n.id \notin Ids(walked)}

\* The walk from the first home, and the nodes it leaves out.
LEMMA OrderedForm ==
  ASSUME NEW M
  PROVE  Ordered(M) = IF Those(M, IsHome(M)) = <<>> THEN M
                      ELSE LET w == Walk(M, Head(Those(M, IsHome(M))))
                           IN w \o Those(M, Elsewhere(M, w))
  BY DEF Ordered, IsHome, Elsewhere

LEMMA ElsewhereFacts ==
  ASSUME NEW M, NEW w, ToSet(w) \subseteq ToSet(M)
  PROVE  /\ Elsewhere(M, w) \subseteq ToSet(M) \ ToSet(w)
         /\ IdsTell(M) => Elsewhere(M, w) = ToSet(M) \ ToSet(w)
  BY DEF Elsewhere, Ids, IdsTell

\* ordered_nodes only orders and leaves out; nothing, if each node has an id of its own.
LEMMA OrderedFacts ==
  ASSUME NEW X, NEW M \in Seq(X)
  PROVE  /\ Ordered(M) \in Seq(X) /\ ToSet(Ordered(M)) \subseteq ToSet(M)
         /\ UniqueIds(M) => /\ UniqueIds(Ordered(M)) /\ IsInjective(Ordered(M))
                            /\ ToSet(Ordered(M)) = ToSet(M) /\ Len(Ordered(M)) = Len(M)
  <1>u. UniqueIds(M) => IsInjective(M) /\ IdsTell(M)
    BY UniqueForms
  <1>1. CASE Those(M, IsHome(M)) = <<>>
    BY <1>1, <1>u, OrderedForm
  <1>2. CASE Those(M, IsHome(M)) # <<>>
    <2> DEFINE h == Head(Those(M, IsHome(M)))
               w == Walk(M, h)
               S == Elsewhere(M, w)
               r == Those(M, S)
    <2>1. h \in ToSet(M)
      BY <1>2, ThoseEnds
    <2>3. Ordered(M) = w \o r
      BY <1>2, OrderedForm
    <2> HIDE DEF h
    <2>2. w \in Seq(X) /\ IsInjective(w) /\ ToSet(w) \subseteq ToSet(M)
      BY <2>1, WalkFacts
    <2> HIDE DEF w
    <2>s. S \subseteq ToSet(M) \ ToSet(w) /\ (IdsTell(M) => S = ToSet(M) \ ToSet(w))
      BY <2>2, ElsewhereFacts
    <2> HIDE DEF S
    <2>4. r \in Seq(X) /\ (IsInjective(M) => IsInjective(r)) /\ ToSet(r) = ToSet(M) \cap S
      BY ThoseType, ThoseRange, ThoseInjective
    <2> HIDE DEF r
    <2>5. /\ w \o r \in Seq(X) /\ ToSet(w \o r) = ToSet(w) \cup ToSet(r)
          /\ IsInjective(r) /\ ToSet(w) \cap ToSet(r) = {} => IsInjective(w \o r)
      BY <2>2, <2>4, ConcatFacts
    <2>6. ToSet(w \o r) \subseteq ToSet(M)
      BY <2>2, <2>4, <2>5
    <2>7. ASSUME UniqueIds(M)
          PROVE  /\ UniqueIds(w \o r) /\ IsInjective(w \o r)
                 /\ ToSet(w \o r) = ToSet(M) /\ Len(w \o r) = Len(M)
      <3>1. IsInjective(M) /\ IdsTell(M)
        BY <1>u, <2>7
      <3>2. ToSet(w \o r) = ToSet(M) /\ IsInjective(w \o r)
        BY <2>2, <2>4, <2>5, <2>s, <3>1
      <3>3. UniqueIds(w \o r)
        <4>1. IdsTell(w \o r)
          BY <3>1, <3>2 DEF IdsTell
        <4> QED
          BY <2>5, <3>2, <4>1, UniqueForms
      <3>4. Cardinality(ToSet(M)) = Len(M) /\ Cardinality(ToSet(w \o r)) = Len(w \o r)
        BY <2>5, <3>1, <3>2, InjectiveCount
      <3> QED
        BY <3>2, <3>3, <3>4
    <2> QED
      BY <2>3, <2>5, <2>6, <2>7
  <1> QED
    BY <1>1, <1>2

\* ... and what is ordered is in order.
LEMMA OrderedAgain ==
  ASSUME NEW X, NEW M \in Seq(X)
  PROVE  Ordered(Ordered(M)) = Ordered(M)
  <1>1. CASE Those(M, IsHome(M)) = <<>>
    BY <1>1, OrderedForm
  <1>2. CASE Those(M, IsHome(M)) # <<>>
    <2> DEFINE h == Head(Those(M, IsHome(M)))
               w == Walk(M, h)
               S == Elsewhere(M, w)
               r == Those(M, S)
               K == w \o r
    <2>1. h \in ToSet(M) /\ h \in IsHome(M)
      BY <1>2, ThoseEnds
    <2>x. h \in X
      BY <2>1 DEF ToSet
    <2>3. Ordered(M) = K
      BY <1>2, OrderedForm
    <2> HIDE DEF h
    <2>2. w \in Seq(X) /\ w # <<>> /\ w[1] = h /\ UniqueIds(w) /\ ToSet(w) \subseteq ToSet(M)
      BY <2>1, WalkFacts
    <2>w. w = Walk(M, h)
      OBVIOUS
    <2> HIDE DEF w
    <2>s. S = {n \in ToSet(M) : n.id \notin Ids(w)}
      BY DEF Elsewhere
    <2> HIDE DEF S
    <2>5. r \in Seq(X) /\ ToSet(r) = ToSet(M) \cap S
      BY ThoseType, ThoseRange
    <2> HIDE DEF r
    <2>4. K \in Seq(X) /\ ToSet(K) = ToSet(w) \cup ToSet(r)
      BY <2>2, <2>5, ConcatFacts
    <2>6. K # <<>> /\ K[1] = h
      BY <2>2, <2>5
    <2>c. \A T : Those(K, T) = Those(w, T) \o Those(r, T)
      BY <2>2, <2>5, ThoseConcat
    <2> HIDE DEF K
    <2>7. h \in IsHome(K)
      <3>1. h \in ToSet(w)
        BY <2>2 DEF ToSet
      <3> QED
        BY <2>1, <2>4, <3>1 DEF IsHome
    <2>8. Those(K, IsHome(K)) # <<>> /\ Head(Those(K, IsHome(K))) = h
      BY <2>4, <2>6, <2>7, ThoseFirst
    <2>9. Walk(K, h) = w
      <3>1. ToSet(w) \subseteq ToSet(K) /\ ToSet(K) \subseteq ToSet(M)
        BY <2>2, <2>4, <2>5
      <3>2. IdsTell(w)
        BY <2>2, UniqueForms
      <3>3. ASSUME NEW m \in ToSet(w), NEW n \in ToSet(K), m.id = n.id PROVE m = n
        <4>1. m.id \in Ids(w)
          BY DEF Ids
        <4>2. n \notin ToSet(r)
          BY <2>5, <2>s, <3>3, <4>1
        <4> QED
          BY <2>4, <3>2, <3>3, <4>2 DEF IdsTell
      <3> QED
        BY <2>1, <2>4, <2>w, <3>1, <3>3, WalkSame
    <2>10. Those(K, Elsewhere(K, w)) = r
      <3> DEFINE T == Elsewhere(K, w)
      <3>t. T = {n \in ToSet(K) : n.id \notin Ids(w)}
        BY DEF Elsewhere
      <3> HIDE DEF T
      <3>1. Those(w, T) = <<>>
        <4>1. ToSet(w) \cap T = {}
          BY <3>t DEF Ids
        <4> QED
          BY <2>2, <4>1, ThoseAll
      <3>2. Those(r, T) = r
        <4>1. ToSet(r) \subseteq T
          BY <2>4, <2>5, <2>s, <3>t
        <4> QED
          BY <2>5, <4>1, ThoseAll
      <3>3. Those(K, T) = Those(w, T) \o Those(r, T)
        BY <2>c
      <3>4. <<>> \o r = r
        BY <2>5
      <3>5. Those(K, T) = r
        BY <3>1, <3>2, <3>3, <3>4
      <3> QED
        BY <3>5 DEF T
    <2>11. Ordered(K) = w \o r
      BY <2>8, <2>9, <2>10, OrderedForm
    <2> QED
      BY <2>3, <2>11 DEF K
  <1> QED
    BY <1>1, <1>2

-----------------------------------------------------------------------------
(* strip_transition_nodes. *)



\* What LinkChain keeps.
LEMMA LinkFacts ==
  ASSUME NEW K \in Seq(Nodes)
  PROVE  /\ LinkChain(K) \in Seq(Nodes) /\ Len(LinkChain(K)) = Len(K)
         /\ \A i \in DOMAIN K : LinkChain(K)[i].id = K[i].id /\ LinkChain(K)[i].type = K[i].type
         /\ Len(K) > 1 => HasLinks(LinkChain(K))
         /\ Len(K) <= 1 /\ ~HasLinks(K) => LinkChain(K) = K
  <1> DEFINE n == Len(K)
             to(i) == IF i = n THEN 0 ELSE K[i + 1].id
             of(i) == IF i = 1 THEN 0 ELSE K[i - 1].id
  <1>n. n \in Nat /\ DOMAIN K = 1..n /\ \A i \in 1..n : K[i] \in Nodes
    OBVIOUS
  <1>1. \A i \in 1..n : to(i) \in Nat /\ (i # n => to(i) # 0) /\ of(i) \in Nat
    <2> SUFFICES ASSUME NEW i \in 1..n PROVE to(i) \in Nat /\ (i # n => to(i) # 0) /\ of(i) \in Nat
      OBVIOUS
    <2>1. (i # n => K[i + 1] \in Nodes) /\ (i # 1 => K[i - 1] \in Nodes)
      <3>1. (i # n => i + 1 \in 1..n) /\ (i # 1 => i - 1 \in 1..n)
        OBVIOUS
      <3> QED
        BY <1>n, <3>1
    <2> QED
      BY <2>1 DEF Nodes
  <1>2. LinkChain(K) = [i \in 1..n |-> [K[i] EXCEPT !.next = to(i), !.prev = of(i)]]
    BY <1>n DEF LinkChain
  <1> HIDE DEF n, to, of
  <1>3. \A i \in 1..n : LET k == [K[i] EXCEPT !.next = to(i), !.prev = of(i)]
                        IN k \in Nodes /\ k.id = K[i].id /\ k.type = K[i].type /\ k.next = to(i)
    BY <1>n, <1>1 DEF Nodes
  <1>4. LinkChain(K) \in Seq(Nodes) /\ Len(LinkChain(K)) = n /\ DOMAIN LinkChain(K) = 1..n
    <2> DEFINE link(i) == [K[i] EXCEPT !.next = to(i), !.prev = of(i)]
    <2>1. \A i \in 1..n : link(i) \in Nodes
      BY <1>3
    <2>2. LinkChain(K) = [i \in 1..n |-> link(i)]
      BY <1>2
    <2> HIDE DEF link
    <2>3. [i \in 1..n |-> link(i)] \in [1..n -> Nodes]
      BY <2>1
    <2>4. [1..n -> Nodes] \subseteq Seq(Nodes)
      BY <1>n
    <2>5. LinkChain(K) \in Seq(Nodes) /\ DOMAIN LinkChain(K) = 1..n
      BY <2>2, <2>3, <2>4
    <2> QED
      BY <1>n, <2>5
  <1>5. \A i \in 1..n : LinkChain(K)[i].id = K[i].id /\ LinkChain(K)[i].type = K[i].type
                           /\ LinkChain(K)[i].next = to(i)
    BY <1>2, <1>3
  <1>6. n > 1 => HasLinks(LinkChain(K))
    <2> SUFFICES ASSUME n > 1 PROVE HasLinks(LinkChain(K))
      OBVIOUS
    <2>1. 1 \in 1..n /\ 1 # n
      BY <1>n
    <2> QED
      BY <1>1, <1>4, <1>5, <2>1 DEF HasLinks
  <1>7. n <= 1 /\ ~HasLinks(K) => LinkChain(K) = K
    <2> SUFFICES ASSUME n <= 1, ~HasLinks(K) PROVE LinkChain(K) = K
      OBVIOUS
    <2>1. \A i \in 1..n : [K[i] EXCEPT !.next = to(i), !.prev = of(i)] = K[i]
      <3> SUFFICES ASSUME NEW i \in 1..n PROVE [K[i] EXCEPT !.next = to(i), !.prev = of(i)] = K[i]
        OBVIOUS
      <3>1. i = n /\ i = 1
        BY <1>n
      <3>2. to(i) = 0 /\ of(i) = 0
        BY <3>1 DEF to, of
      <3>3. K[i].next = 0 /\ K[i].prev = 0
        BY <1>n DEF HasLinks
      <3> QED
        BY <1>n, <3>2, <3>3 DEF Nodes
    <2>2. K = [i \in 1..n |-> K[i]]
      BY <1>n
    <2> QED
      BY <1>2, <2>1, <2>2
  <1> QED
    BY <1>n, <1>4, <1>5, <1>6, <1>7 DEF n

LEMMA LinksOfSet ==
  ASSUME NEW X, NEW s \in Seq(X), NEW t \in Seq(X), ToSet(s) = ToSet(t)
  PROVE  HasLinks(s) => HasLinks(t)
  <1> SUFFICES ASSUME NEW i \in DOMAIN s, s[i].next # 0 \/ s[i].prev # 0 PROVE HasLinks(t)
    BY DEF HasLinks
  <1>1. s[i] \in ToSet(t)
    BY DEF ToSet
  <1>2. PICK j \in DOMAIN t : t[j] = s[i]
    BY <1>1 DEF ToSet
  <1> QED
    BY <1>2 DEF HasLinks

Stays(nodes) == {n \in ToSet(nodes) : n.type # "transition"}

\* A list without transition nodes that has links, unless it is too short for them.
Stripped(nodes) ==
  /\ nodes \in Seq(Nodes)
  /\ ToSet(nodes) \subseteq Stays(nodes)
  /\ HasLinks(nodes) \/ Len(nodes) <= 1

LEMMA StripForm ==
  ASSUME NEW nodes
  PROVE  Strip(nodes) = LET kept == Those(nodes, Stays(nodes))
                        IN IF kept # nodes \/ ~HasLinks(kept) THEN LinkChain(kept) ELSE kept
  BY DEF Strip, Stays

LEMMA StripFacts ==
  ASSUME NEW nodes \in Seq(Nodes)
  PROVE  Stripped(Strip(nodes)) /\ (UniqueIds(nodes) => UniqueIds(Strip(nodes)))
  <1> DEFINE K == Those(nodes, Stays(nodes))
  <1>1. UniqueIds(nodes) => IsInjective(nodes) /\ IdsTell(nodes)
    BY UniqueForms
  <1>2. K \in Seq(Nodes) /\ ToSet(K) = ToSet(nodes) \cap Stays(nodes)
        /\ (UniqueIds(nodes) => IsInjective(K))
    BY <1>1, ThoseType, ThoseRange, ThoseInjective
  <1>3. Strip(nodes) = IF K # nodes \/ ~HasLinks(K) THEN LinkChain(K) ELSE K
    BY StripForm
  <1> HIDE DEF K
  <1>4. UniqueIds(nodes) => IdsTell(K)
    BY <1>1, <1>2 DEF IdsTell
  <1>5. UniqueIds(nodes) => UniqueIds(K)
    BY <1>2, <1>4, UniqueForms
  <1>6. \A n \in ToSet(K) : n.type # "transition"
    BY <1>2 DEF Stays
  <1>7. CASE K # nodes \/ ~HasLinks(K)
    <2> DEFINE L == LinkChain(K)
    <2>1. /\ L \in Seq(Nodes) /\ Len(L) = Len(K)
          /\ \A i \in DOMAIN K : L[i].id = K[i].id /\ L[i].type = K[i].type
          /\ Len(K) > 1 => HasLinks(L)
      BY <1>2, LinkFacts
    <2> HIDE DEF L
    <2>2. DOMAIN L = DOMAIN K
      BY <1>2, <2>1
    <2>3. UniqueIds(K) => UniqueIds(L)
      BY <2>1, <2>2 DEF UniqueIds
    <2>4. \A n \in ToSet(L) : n.type # "transition"
      BY <1>6, <2>1, <2>2 DEF ToSet
    <2>5. HasLinks(L) \/ Len(L) <= 1
      <3>1. Len(K) \in Nat
        BY <1>2
      <3> QED
        BY <2>1, <3>1
    <2>6. Strip(nodes) = L
      BY <1>3, <1>7 DEF L
    <2> QED
      BY <1>5, <2>1, <2>3, <2>4, <2>5, <2>6 DEF Stripped, Stays
  <1>8. CASE ~(K # nodes \/ ~HasLinks(K))
    BY <1>2, <1>3, <1>5, <1>6, <1>8 DEF Stripped, Stays
  <1> QED
    BY <1>7, <1>8

LEMMA StripAgain ==
  ASSUME NEW nodes, Stripped(nodes)
  PROVE  Strip(nodes) = nodes /\ (IF HasLinks(nodes) THEN nodes ELSE LinkChain(nodes)) = nodes
  <1>1. Those(nodes, Stays(nodes)) = nodes
    BY ThoseAll DEF Stripped
  <1>2. HasLinks(nodes) \/ LinkChain(nodes) = nodes
    BY LinkFacts DEF Stripped
  <1>3. Strip(nodes) = IF nodes # nodes \/ ~HasLinks(nodes) THEN LinkChain(nodes) ELSE nodes
    BY <1>1, StripForm
  <1> QED
    BY <1>2, <1>3

\* The order does not matter; what is left out may be the last node with a link.
LEMMA OrderedStripped ==
  ASSUME NEW nodes, Stripped(nodes)
  PROVE  /\ Ordered(nodes) \in Seq(Nodes) /\ Ordered(Ordered(nodes)) = Ordered(nodes)
         /\ UniqueIds(nodes) => UniqueIds(Ordered(nodes))
         /\ UniqueIds(nodes) \/ HasLinks(Ordered(nodes)) => Stripped(Ordered(nodes))
         /\ ~HasLinks(nodes) => LinkChain(Ordered(nodes)) = Ordered(nodes)
  <1> DEFINE L == Ordered(nodes)
  <1>1. nodes \in Seq(Nodes)
    BY DEF Stripped
  <1>2. /\ L \in Seq(Nodes) /\ ToSet(L) \subseteq ToSet(nodes)
        /\ UniqueIds(nodes) => UniqueIds(L) /\ ToSet(L) = ToSet(nodes) /\ Len(L) = Len(nodes)
    BY <1>1, OrderedFacts
  <1>3. Ordered(L) = L
    BY <1>1, OrderedAgain
  <1> HIDE DEF L
  <1>5. ToSet(L) \subseteq Stays(L)
    BY <1>2 DEF Stripped, Stays
  <1>6. UniqueIds(nodes) => HasLinks(L) \/ Len(L) <= 1
    BY <1>1, <1>2, LinksOfSet DEF Stripped
  <1>7. UniqueIds(nodes) \/ HasLinks(L) => Stripped(L)
    BY <1>2, <1>5, <1>6 DEF Stripped
  <1>8. ~HasLinks(nodes) => LinkChain(L) = L
    <2> SUFFICES ASSUME ~HasLinks(nodes) PROVE LinkChain(L) = L
      OBVIOUS
    <2>1. Len(nodes) <= 1 /\ Len(nodes) \in Nat /\ DOMAIN nodes = 1..Len(nodes)
      BY <1>1 DEF Stripped
    <2>2. UniqueIds(nodes)
      BY <2>1 DEF UniqueIds
    <2>3. Len(L) <= 1 /\ ~HasLinks(L)
      BY <1>1, <1>2, <2>1, <2>2, LinksOfSet
    <2> QED
      BY <1>2, <2>3, LinkFacts
  <1> QED
    BY <1>2, <1>3, <1>7, <1>8 DEF L

-----------------------------------------------------------------------------
(* normalize_path_document. *)

\* Pairs of known points that are safe in both directions.
SafePairs(pairs, ids) ==
  /\ pairs \subseteq ids \X ids
  /\ \A r \in pairs : r[1] # r[2] /\ <<r[2], r[1]>> \in pairs

LEMMA MirrorSafe ==
  ASSUME NEW ids, NEW P, P \subseteq ids \X ids, \A r \in P : r[1] # r[2]
  PROVE  SafePairs(Mirror(P), ids)
  <1>1. \A r \in P : r = <<r[1], r[2]>> /\ r[1] \in ids /\ r[2] \in ids
    OBVIOUS
  <1> SUFFICES ASSUME NEW r \in Mirror(P)
               PROVE  r \in ids \X ids /\ r[1] # r[2] /\ <<r[2], r[1]>> \in Mirror(P)
    BY DEF SafePairs
  <1>2. CASE r \in P
    BY <1>1, <1>2 DEF Mirror
  <1>3. ASSUME NEW q \in P, r = <<q[2], q[1]>>
        PROVE  r \in ids \X ids /\ r[1] # r[2] /\ <<r[2], r[1]>> \in Mirror(P)
    <2>1. r[1] = q[2] /\ r[2] = q[1] /\ <<r[2], r[1]>> = q
      BY <1>1, <1>3
    <2> QED
      BY <1>1, <1>3, <2>1 DEF Mirror
  <1> QED
    BY <1>2, <1>3 DEF Mirror

LEMMA SafeMirror ==
  ASSUME NEW ids, NEW P, SafePairs(P, ids)
  PROVE  Mirror({r \in P : r[1] \in ids /\ r[2] \in ids /\ r[1] # r[2]}) = P
  <1>1. {r \in P : r[1] \in ids /\ r[2] \in ids /\ r[1] # r[2]} = P
    BY DEF SafePairs
  <1>2. {<<r[2], r[1]>> : r \in P} \subseteq P
    BY DEF SafePairs
  <1> QED
    BY <1>1, <1>2 DEF Mirror

\* A document of a client's.
Typed == [points : Seq(Nat), nodes : Seq(Nodes), pairs : SUBSET (Nat \X Nat),
          matrix : {"absent", "empty", "given", "unmatched"}]

\* ... whose nodes have ids of their own.
IsDocument(doc) == doc \in Typed /\ UniqueIds(doc.nodes)

LEMMA ResolvedSafe ==
  ASSUME NEW doc \in Typed
  PROVE  SafePairs(ResolvedRoutes(doc), ToSet(doc.points))
  <1> DEFINE ids == ToSet(doc.points)
             P == {r \in doc.pairs : r[1] \in ids /\ r[2] \in ids /\ r[1] # r[2]}
             Q == {r \in ids \X ids : r[1] # r[2] /\ Cardinality(ids) <= 2}
  <1> HIDE DEF ids
  <1>1. SafePairs(Q, ids)
    BY DEF SafePairs
  <1>2. SafePairs(Mirror(P), ids)
    <2>1. doc.pairs \subseteq Nat \X Nat
      BY DEF Typed
    <2>2. P \subseteq ids \X ids /\ \A r \in P : r[1] # r[2]
      BY <2>1
    <2> HIDE DEF P
    <2> QED
      BY <2>2, MirrorSafe
  <1>3. ResolvedRoutes(doc) = IF doc.matrix \in {"absent", "unmatched"} THEN Q ELSE Mirror(P)
    BY DEF ResolvedRoutes, ids
  <1> HIDE DEF P, Q
  <1>4. SafePairs(ResolvedRoutes(doc), ids)
    BY <1>1, <1>2, <1>3
  <1> QED
    BY <1>4 DEF ids

LEMMA NeighborSafe ==
  ASSUME NEW nodes, NEW ids
  PROVE  SafePairs(NeighborRoutes(nodes, ids), ids)
  <1> DEFINE P == {r \in ids \X ids : /\ r[1] # r[2]
                               /\ \E i \in 1..(Len(nodes) - 1) : nodes[i].point = r[1] /\ nodes[i + 1].point = r[2]}
  <1>1. P \subseteq ids \X ids /\ \A r \in P : r[1] # r[2]
    OBVIOUS
  <1>2. NeighborRoutes(nodes, ids) = Mirror(P)
    BY DEF NeighborRoutes
  <1> HIDE DEF P
  <1> QED
    BY <1>1, <1>2, MirrorSafe

LEMMA UnionSafe ==
  ASSUME NEW ids, NEW P, NEW Q, SafePairs(P, ids), SafePairs(Q, ids)
  PROVE  SafePairs(P \cup Q, ids)
  BY DEF SafePairs

\* What a stored document is.
NormalNodes(doc) == Ordered(Strip(doc.nodes))
NormalPairs(doc) ==
  ResolvedRoutes(doc) \cup IF doc.matrix \in {"given", "unmatched"} THEN {}
                           ELSE NeighborRoutes(NormalNodes(doc), ToSet(doc.points))

LEMMA NormalForm ==
  ASSUME NEW doc \in Typed
  PROVE  /\ Normalize(doc) = [points |-> doc.points, nodes |-> NormalNodes(doc),
                              matrix |-> IF doc.points = <<>> THEN "empty" ELSE "given",
                              pairs |-> NormalPairs(doc)]
         /\ NormalNodes(doc) \in Seq(Nodes) /\ Ordered(NormalNodes(doc)) = NormalNodes(doc)
         /\ UniqueIds(doc.nodes) => UniqueIds(NormalNodes(doc))
         /\ UniqueIds(doc.nodes) \/ HasLinks(NormalNodes(doc)) => Stripped(NormalNodes(doc))
         /\ SafePairs(NormalPairs(doc), ToSet(doc.points))
  <1> DEFINE kept == Strip(doc.nodes)
             nodes == NormalNodes(doc)
             linked == IF HasLinks(kept) THEN Ordered(kept) ELSE LinkChain(Ordered(kept))
  <1>1. Stripped(kept) /\ (UniqueIds(doc.nodes) => UniqueIds(kept))
    BY StripFacts DEF Typed
  <1>2. /\ nodes \in Seq(Nodes) /\ Ordered(nodes) = nodes
        /\ UniqueIds(doc.nodes) => UniqueIds(nodes)
        /\ UniqueIds(doc.nodes) \/ HasLinks(nodes) => Stripped(nodes)
    BY <1>1, OrderedStripped DEF NormalNodes
  <1>3. linked = nodes
    BY <1>1, OrderedStripped DEF NormalNodes
  <1>4. Normalize(doc) =
          [points |-> doc.points, nodes |-> linked,
           matrix |-> IF doc.points = <<>> THEN "empty" ELSE "given",
           pairs |-> ResolvedRoutes(doc)
                       \cup IF doc.matrix \in {"given", "unmatched"} THEN {}
                            ELSE NeighborRoutes(Ordered(linked), ToSet(doc.points))]
    BY DEF Normalize
  <1> HIDE DEF linked, nodes, kept
  <1>5. NormalPairs(doc) = ResolvedRoutes(doc)
                       \cup IF doc.matrix \in {"given", "unmatched"} THEN {}
                            ELSE NeighborRoutes(Ordered(linked), ToSet(doc.points))
    BY <1>2, <1>3 DEF NormalPairs, nodes
  <1>6. SafePairs(NormalPairs(doc), ToSet(doc.points))
    <2> DEFINE R == ResolvedRoutes(doc)
               N == NeighborRoutes(nodes, ToSet(doc.points))
    <2>1. SafePairs(R, ToSet(doc.points)) /\ SafePairs(N, ToSet(doc.points))
      BY ResolvedSafe, NeighborSafe
    <2>2. NormalPairs(doc) = R \cup IF doc.matrix \in {"given", "unmatched"} THEN {} ELSE N
      BY <1>5, <1>2, <1>3
    <2> HIDE DEF R, N
    <2>3. SafePairs(R \cup N, ToSet(doc.points))
      BY <2>1, UnionSafe
    <2>4. NormalPairs(doc) = R \/ NormalPairs(doc) = R \cup N
      BY <2>2
    <2> QED
      BY <2>1, <2>3, <2>4
  <1> QED
    BY <1>2, <1>3, <1>4, <1>5, <1>6 DEF nodes

\* A document that is normalised is a document ...
LEMMA NormalIsTyped ==
  ASSUME NEW doc \in Typed
  PROVE  Normalize(doc) \in Typed /\ (IsDocument(doc) => IsDocument(Normalize(doc)))
  <1> DEFINE P == NormalPairs(doc)
             N == NormalNodes(doc)
  <1>1. Normalize(doc) = [points |-> doc.points, nodes |-> N,
                              matrix |-> IF doc.points = <<>> THEN "empty" ELSE "given",
                              pairs |-> P]
    BY NormalForm
  <1>2. N \in Seq(Nodes) /\ (UniqueIds(doc.nodes) => UniqueIds(N)) /\ SafePairs(P, ToSet(doc.points))
    BY NormalForm
  <1> HIDE DEF P, N
  <1>3. doc.points \in Seq(Nat)
    BY DEF Typed
  <1>4. ToSet(doc.points) \subseteq Nat
    BY <1>3 DEF ToSet
  <1>5. P \in SUBSET (Nat \X Nat)
    BY <1>2, <1>4 DEF SafePairs
  <1> QED
    BY <1>1, <1>2, <1>3, <1>5 DEF IsDocument, Typed

\* ... with the same safe routes when it is normalised again ...
LEMMA PairsAgain ==
  ASSUME NEW doc \in Typed
  PROVE  /\ Normalize(doc).points = doc.points /\ Normalize(doc).pairs = NormalPairs(doc)
         /\ Normalize(doc).nodes = NormalNodes(doc)
         /\ NormalPairs(Normalize(doc)) = NormalPairs(doc)
  <1> DEFINE d == Normalize(doc)
             P == NormalPairs(doc)
             N == NormalNodes(doc)
             ids == ToSet(doc.points)
  <1>1. d = [points |-> doc.points, nodes |-> N,
             matrix |-> IF doc.points = <<>> THEN "empty" ELSE "given",
             pairs |-> P]
    BY NormalForm
  <1>2. SafePairs(P, ids)
    BY NormalForm
  <1> HIDE DEF d, P, N, ids
  <1>4. d.points = doc.points /\ d.nodes = N /\ d.pairs = P /\ ToSet(d.points) = ids
    BY <1>1 DEF ids
  <1>6. NormalPairs(d) = P
    <2>1. d.matrix = "empty" \/ d.matrix = "given"
      BY <1>1
    <2>2. ResolvedRoutes(d) = Mirror({r \in P : r[1] \in ids /\ r[2] \in ids /\ r[1] # r[2]})
      BY <1>4, <2>1 DEF ResolvedRoutes
    <2>3. ResolvedRoutes(d) = P
      BY <1>2, <2>2, SafeMirror
    <2>4. CASE doc.points = <<>>
      <3>1. ids = {}
        BY <2>4 DEF ids, ToSet
      <3>2. P = {}
        BY <1>2, <3>1 DEF SafePairs
      <3>3. NeighborRoutes(NormalNodes(d), ids) = {}
        BY <3>1, NeighborSafe DEF SafePairs
      <3> QED
        BY <1>4, <2>3, <3>2, <3>3 DEF NormalPairs
    <2>5. CASE doc.points # <<>>
      <3>1. d.matrix = "given"
        BY <1>1, <2>5
      <3> QED
        BY <2>3, <3>1 DEF NormalPairs
    <2> QED
      BY <2>4, <2>5
  <1> QED
    BY <1>4, <1>6 DEF d, P, N

\* ... and is not changed by that, unless the last of its links was left out.
LEMMA NormalizeAgain ==
  ASSUME NEW doc \in Typed, UniqueIds(doc.nodes) \/ HasLinks(NormalNodes(doc))
  PROVE  Normalize(Normalize(doc)) = Normalize(doc)
  <1> DEFINE d == Normalize(doc)
             P == NormalPairs(doc)
             N == NormalNodes(doc)
  <1>1. d = [points |-> doc.points, nodes |-> N,
             matrix |-> IF doc.points = <<>> THEN "empty" ELSE "given",
             pairs |-> P]
    BY NormalForm
  <1>2. Stripped(N) /\ Ordered(N) = N
    BY NormalForm
  <1>3. d \in Typed
    BY NormalIsTyped
  <1>4. d.points = doc.points /\ d.nodes = N /\ NormalPairs(d) = P
    BY PairsAgain
  <1> HIDE DEF d, P, N
  <1>5. NormalNodes(d) = N
    <2>1. Strip(N) = N
      BY <1>2, StripAgain
    <2> QED
      BY <1>2, <1>4, <2>1 DEF NormalNodes
  <1>7. Normalize(d) = [points |-> d.points, nodes |-> NormalNodes(d),
             matrix |-> IF d.points = <<>> THEN "empty" ELSE "given",
             pairs |-> NormalPairs(d)]
    BY <1>3, NormalForm
  <1>8. Normalize(d) = d
    BY <1>1, <1>4, <1>5, <1>7
  <1> QED
    BY <1>8 DEF d

\* What is stored was normalised, with the points and the safe routes of what the
\* client sent; it is what the client sent if the nodes of that have ids of their own.
StoredOf(doc) ==
  /\ \E d \in Typed : doc = Normalize(d)
  /\ doc.points = sent.points /\ doc.pairs = NormalPairs(sent)
  /\ UniqueIds(sent.nodes) => doc = Normalize(sent)

StoreInv == sent \in Documents /\ (file # NoFile => StoredOf(file))

LEMMA SentIsDocument ==
  ASSUME NEW doc \in Documents
  PROVE  doc \in Typed /\ (UniqueIds(doc.nodes) => IsDocument(doc))
  BY DocumentsAssumption DEF IsDocument, Typed

LEMMA SentIsStored ==
  ASSUME sent \in Typed
  PROVE  StoredOf(Normalize(sent))
  BY PairsAgain DEF StoredOf

\* It stays so, however often it is normalised again.
LEMMA StoredAgain ==
  ASSUME sent \in Typed, NEW doc, StoredOf(doc)
  PROVE  StoredOf(Normalize(doc)) /\ (UniqueIds(sent.nodes) => Normalize(doc) = doc)
  <1>1. PICK d \in Typed : doc = Normalize(d)
    BY DEF StoredOf
  <1>2. doc \in Typed
    BY <1>1, NormalIsTyped
  <1>3. doc.pairs = NormalPairs(d) /\ NormalPairs(doc) = NormalPairs(d)
    BY <1>1, PairsAgain
  <1>4. Normalize(doc).points = doc.points /\ Normalize(doc).pairs = NormalPairs(doc)
    BY <1>2, PairsAgain
  <1>5. UniqueIds(sent.nodes) => Normalize(doc) = doc
    BY NormalizeAgain DEF StoredOf
  <1> QED
    BY <1>2, <1>3, <1>4, <1>5 DEF StoredOf

LEMMA StoreInvariance == Spec => []StoreInv
  <1>1. Init => StoreInv
    BY DEF Init, StoreInv
  <1>2. StoreInv /\ [Next]_vars => StoreInv'
    <2> SUFFICES ASSUME StoreInv, [Next]_vars PROVE StoreInv'
      OBVIOUS
    <2>1. sent \in Typed
      BY SentIsDocument DEF StoreInv
    <2>2. CASE Save
      <3>1. file' = Normalize(sent) /\ sent' = sent
        BY <2>2 DEF Save, Stores
      <3>2. StoredOf(Normalize(sent))
        BY <2>1, SentIsStored
      <3>3. StoredOf(file)'
        BY <3>1, <3>2 DEF StoredOf
      <3> QED
        BY <3>1, <3>3 DEF StoreInv
    <2>3. CASE SaveAgain
      <3>1. file' = Normalize(Normalize(file)) /\ sent' = sent /\ file # NoFile
        BY <2>3 DEF SaveAgain, Stores
      <3>2. StoredOf(Normalize(Normalize(file)))
        <4>1. StoredOf(file)
          BY <3>1 DEF StoreInv
        <4>2. StoredOf(Normalize(file))
          BY <2>1, <4>1, StoredAgain
        <4> QED
          BY <2>1, <4>2, StoredAgain
      <3>3. StoredOf(file)'
        BY <3>1, <3>2 DEF StoredOf
      <3> QED
        BY <3>1, <3>3 DEF StoreInv
    <2>4. CASE UNCHANGED <<sent, file>>
      BY <2>4 DEF StoreInv, StoredOf
    <2> QED
      BY <2>2, <2>3, <2>4 DEF Next, StartupTravel, HomeTravel, MoveTo, vars
  <1> QED
    BY <1>1, <1>2, PTL DEF Spec

\* A stored document reads as it was written, so that what save_active_document
\* answers, what a restart loads and what a client saves again agree: whatever nodes
\* a client sent, if each has an id of its own, or a link of theirs was stored.
THEOREM ReadsAsWrittenCorrect == Spec => []ReadsAsWritten
  <1>1. ASSUME StoreInv PROVE ReadsAsWritten
    <2> SUFFICES ASSUME file # NoFile, UniqueIds(sent.nodes) \/ HasLinks(file.nodes)
                 PROVE  Normalize(file) = file
      BY DEF ReadsAsWritten
    <2>1. StoredOf(file) /\ sent \in Typed
      BY <1>1, SentIsDocument DEF StoreInv
    <2>2. CASE UniqueIds(sent.nodes)
      BY <2>1, <2>2, StoredAgain
    <2>3. CASE HasLinks(file.nodes)
      <3>1. PICK d \in Typed : file = Normalize(d)
        BY <2>1 DEF StoredOf
      <3>2. file.nodes = NormalNodes(d)
        BY <3>1, PairsAgain
      <3> QED
        BY <2>3, <3>1, <3>2, NormalizeAgain
    <2> QED
      BY <2>2, <2>3
  <1> QED
    BY <1>1, StoreInvariance, PTL

-----------------------------------------------------------------------------
(* The angles of nodes and transitions. *)

LEMMA ClampType == ASSUME NEW c \in Int PROVE Clamp(c) \in Angles
  BY RevAssumption DEF Clamp, Angles

LEMMA QuantizeType == ASSUME NEW p \in Int, NEW q \in Nat \ {0} PROVE Quantize(p, q) \in Angles
  <1>1. p \div q \in Int /\ p % q \in Int
    OBVIOUS
  <1>2. Round(p, q) \in Int
    BY <1>1 DEF Round
  <1> QED
    BY <1>2, ClampType DEF Quantize

LEMMA AngleIsInt == Angles \subseteq Int
  BY RevAssumption DEF Angles

LEMMA StepAnglesType ==
  ASSUME NEW start \in Int, NEW step \in Int, NEW count \in Nat \ {0}
  PROVE  StepAngles(start, step, count) \in [1..count -> Angles]
  <1>1. \A i \in 1..count : (i - 1) * step \in Int
    OBVIOUS
  <1>2. \A i \in 1..count : start + (i - 1) * step \in Int
    BY <1>1
  <1>3. \A i \in 1..count : Clamp(start + (i - 1) * step) \in Angles
    BY <1>2, ClampType
  <1> QED
    BY <1>3 DEF StepAngles

LEMMA RangeAnglesType ==
  ASSUME NEW start \in Int, NEW end \in Int, NEW count \in Nat \ {0}
  PROVE  RangeAngles(start, end, count) \in [1..count -> Angles]
  <1> DEFINE angle(i) ==
        CASE IsFullRevolution(Clamp(start), Clamp(end)) /\ count = 1 -> Clamp(end)
          [] IsFullRevolution(Clamp(start), Clamp(end)) /\ count > 1 /\ Clamp(start) = 0 ->
               Quantize(Rev * i, count)
          [] IsFullRevolution(Clamp(start), Clamp(end)) /\ count > 1 /\ Clamp(start) = Rev ->
               Quantize(Rev * (count - i), count)
          [] OTHER ->
               IF count = 1 THEN Clamp(start)
               ELSE Quantize(start * (count - 1) + (end - start) * (i - 1), count - 1)
  <1>1. ASSUME NEW i \in 1..count PROVE angle(i) \in Angles
    <2>1. Clamp(start) \in Angles /\ Clamp(end) \in Angles
      BY ClampType
    <2>2. Rev * i \in Int /\ Rev * (count - i) \in Int
      BY RevAssumption
    <2>3. Quantize(Rev * i, count) \in Angles /\ Quantize(Rev * (count - i), count) \in Angles
      BY <2>2, QuantizeType
    <2>4. count # 1 => Quantize(start * (count - 1) + (end - start) * (i - 1), count - 1) \in Angles
      <3> SUFFICES ASSUME count # 1
                   PROVE  Quantize(start * (count - 1) + (end - start) * (i - 1), count - 1) \in Angles
        OBVIOUS
      <3>1. count - 1 \in Nat \ {0} /\ i - 1 \in Int /\ end - start \in Int
        OBVIOUS
      <3>2. start * (count - 1) \in Int /\ (end - start) * (i - 1) \in Int
        BY <3>1
      <3>3. start * (count - 1) + (end - start) * (i - 1) \in Int
        BY <3>2
      <3> QED
        BY <3>1, <3>3, QuantizeType
    <2> DEFINE full == IsFullRevolution(Clamp(start), Clamp(end))
    <2>5. full /\ count = 1 => angle(i) \in Angles
      BY <2>1
    <2> QED
      BY <2>1, <2>3, <2>4, <2>5
  <1>2. RangeAngles(start, end, count) = [i \in 1..count |-> angle(i)]
    BY DEF RangeAngles
  <1> HIDE DEF angle
  <1> QED
    BY <1>1, <1>2

LEMMA InterpolateType ==
  ASSUME NEW start \in Angles, NEW end \in Angles, NEW count \in Nat
  PROVE  Interpolate(start, end, count) \in [1..count -> Angles]
  <1>1. start \in Int /\ end \in Int
    BY AngleIsInt
  <1>2. ASSUME NEW i \in 1..count PROVE Quantize(start * (count + 1) - (start - end) * i, count + 1) \in Angles
    <2>1. start * (count + 1) \in Int /\ (start - end) * i \in Int /\ count + 1 \in Nat \ {0}
      BY <1>1
    <2>2. start * (count + 1) - (start - end) * i \in Int
      BY <2>1
    <2> QED
      BY <2>1, <2>2, QuantizeType
  <1> QED
    BY <1>2 DEF Interpolate

LEMMA NodeAnglesType ==
  ASSUME NEW n \in Nodes
  PROVE  /\ \E c \in Nat \ {0} : NodeAngles(n) \in [1..c -> Angles]
         /\ Entry(n) \in Angles /\ Exit(n) \in Angles
  <1>1. n.start \in Int /\ n.by \in Int /\ n.count \in Nat \ {0} /\ n.mode \in {"range", "step"}
    BY DEF Nodes
  <1>2. Clamp(n.start) \in Angles /\ Clamp(n.by) \in Angles
    BY <1>1, ClampType
  <1>3. Clamp(n.start + (n.count - 1) * n.by) \in Angles
    <2>1. (n.count - 1) * n.by \in Int
      BY <1>1
    <2>2. n.start + (n.count - 1) * n.by \in Int
      BY <1>1, <2>1
    <2> QED
      BY <2>2, ClampType
  <1>4. /\ StepAngles(n.start, n.by, n.count) \in [1..n.count -> Angles]
        /\ RangeAngles(n.start, n.by, n.count) \in [1..n.count -> Angles]
    BY <1>1, StepAnglesType, RangeAnglesType
  <1>5. <<Clamp(n.start)>> \in [1..1 -> Angles]
    BY <1>2
  <1>6. \E c \in Nat \ {0} : NodeAngles(n) \in [1..c -> Angles]
    <2>1. CASE n.type = "advanced_scan" /\ n.mode = "step"
      BY <1>1, <1>4, <2>1 DEF NodeAngles
    <2>2. CASE n.type = "advanced_scan" /\ n.mode = "range"
      BY <1>1, <1>4, <2>2 DEF NodeAngles
    <2>3. CASE n.type # "advanced_scan"
      <3>1. NodeAngles(n) = <<Clamp(n.start)>>
        BY <2>3 DEF NodeAngles
      <3>2. 1 \in Nat \ {0}
        OBVIOUS
      <3> QED
        BY <1>5, <3>1, <3>2
    <2> QED
      BY <1>1, <2>1, <2>2, <2>3
  <1> QED
    BY <1>2, <1>3, <1>6 DEF Entry, Exit

-----------------------------------------------------------------------------
(* The steps of find_id_route. *)

\* What a search has: paths to look at, and points it has seen.
Searches == [queue : Seq(Seq(Nat)), visited : SUBSET Nat]

Finished(search, goal) == search.queue = <<>> \/ Last(Head(search.queue)) = goal

LEMMA OnwardFacts ==
  ASSUME NEW doc, doc.points \in Seq(Nat), NEW search \in Searches, search.queue # <<>>
  PROVE  LET fresh == Those(doc.points, Fresh(doc, search))
         IN /\ fresh \in Seq(Nat) /\ ToSet(fresh) = Fresh(doc, search)
            /\ Onward(doc, search) \in Seq(Seq(Nat)) /\ Len(Onward(doc, search)) = Len(fresh)
            /\ \A i \in 1..Len(fresh) : Onward(doc, search)[i] = Append(Head(search.queue), fresh[i])
  <1> DEFINE fresh == Those(doc.points, Fresh(doc, search))
             h == Head(search.queue)
  <1>1. fresh \in Seq(Nat) /\ ToSet(fresh) = ToSet(doc.points) \cap Fresh(doc, search)
    BY ThoseType, ThoseRange
  <1>2. Fresh(doc, search) \subseteq ToSet(doc.points)
    BY DEF Fresh
  <1>3. h \in Seq(Nat)
    BY DEF Searches
  <1>4. Onward(doc, search) = [i \in DOMAIN fresh |-> Append(h, fresh[i])]
    BY DEF Onward
  <1> HIDE DEF fresh, h
  <1>5. \A i \in 1..Len(fresh) : Append(h, fresh[i]) \in Seq(Nat)
    BY <1>1, <1>3
  <1>6. /\ Onward(doc, search) \in Seq(Seq(Nat)) /\ Len(Onward(doc, search)) = Len(fresh)
        /\ \A i \in 1..Len(fresh) : Onward(doc, search)[i] = Append(h, fresh[i])
    <2>1. Len(fresh) \in Nat /\ DOMAIN fresh = 1..Len(fresh)
      BY <1>1
    <2> DEFINE path(i) == Append(h, fresh[i])
               Y == Seq(Nat)
    <2>2. \A i \in 1..Len(fresh) : path(i) \in Y
      BY <1>5
    <2>3. Onward(doc, search) = [i \in 1..Len(fresh) |-> path(i)]
      BY <1>4, <2>1
    <2> HIDE DEF Y
    <2>p. \A i \in 1..Len(fresh) : Onward(doc, search)[i] = path(i)
      BY <2>3
    <2> HIDE DEF path
    <2>4. [i \in 1..Len(fresh) |-> path(i)] \in [1..Len(fresh) -> Y]
      BY <2>2
    <2>5. [1..Len(fresh) -> Y] \subseteq Seq(Y)
      BY <2>1
    <2>6. Onward(doc, search) \in Seq(Y) /\ Len(Onward(doc, search)) = Len(fresh)
      BY <2>1, <2>3, <2>4, <2>5
    <2> QED
      BY <2>6, <2>p DEF Y, path
  <1> QED
    BY <1>1, <1>2, <1>6 DEF fresh, h

LEMMA SearchOnType ==
  ASSUME NEW doc, doc.points \in Seq(Nat), NEW search \in Searches, NEW goal
  PROVE  SearchOn(doc, search, goal) \in Searches
  <1>1. CASE Finished(search, goal)
    BY <1>1 DEF SearchOn, Finished
  <1>2. CASE ~Finished(search, goal)
    <2> DEFINE Y == Seq(Nat)
               q == search.queue
               o == Onward(doc, search)
    <2>1. o \in Seq(Y)
      BY <1>2, OnwardFacts DEF Finished
    <2>2. q \in Seq(Y) /\ q # <<>> /\ search.visited \in SUBSET Nat
      BY <1>2 DEF Searches, Finished
    <2>3. Fresh(doc, search) \subseteq Nat
      BY DEF Fresh, ToSet
    <2>4. SearchOn(doc, search, goal) = [queue |-> Tail(q) \o o, visited |-> search.visited \cup Fresh(doc, search)]
      BY <1>2 DEF SearchOn, Finished
    <2> HIDE DEF q, o, Y
    <2>5. Tail(q) \o o \in Seq(Y)
      BY <2>1, <2>2
    <2> QED
      BY <2>2, <2>3, <2>4, <2>5 DEF Searches, Y
  <1> QED
    BY <1>1, <1>2

\* f has the search step by step.
SearchLength(doc, starts) == Len(starts) + Len(doc.points)
SearchesBy(f, doc, starts, goal) ==
    /\ f[0] = SearchFrom(starts)
    /\ \A k \in 1..SearchLength(doc, starts) : f[k] = SearchOn(doc, f[k - 1], goal)
    /\ SearchEnd(doc, starts, goal) = f[SearchLength(doc, starts)]

LEMMA SearchFromType ==
  ASSUME NEW starts \in Seq(Nat)
  PROVE  /\ SearchFrom(starts) \in Searches
         /\ SearchFrom(starts).visited = ToSet(starts) /\ Len(SearchFrom(starts).queue) = Len(starts)
         /\ \A i \in 1..Len(starts) : SearchFrom(starts).queue[i] = <<starts[i]>>
  <1> DEFINE Y == Seq(Nat)
             n == Len(starts)
             path(i) == <<starts[i]>>
  <1>1. n \in Nat /\ DOMAIN starts = 1..n /\ \A i \in 1..n : path(i) \in Y
    OBVIOUS
  <1>2. SearchFrom(starts) = [queue |-> [i \in 1..n |-> path(i)], visited |-> ToSet(starts)]
    BY <1>1 DEF SearchFrom
  <1>3. ToSet(starts) \subseteq Nat
    BY DEF ToSet
  <1> HIDE DEF n, Y
  <1>p. \A i \in 1..n : [j \in 1..n |-> path(j)][i] = path(i)
    OBVIOUS
  <1> HIDE DEF path
  <1>4. [i \in 1..n |-> path(i)] \in [1..n -> Y]
    BY <1>1
  <1>5. [1..n -> Y] \subseteq Seq(Y)
    BY <1>1
  <1>6. [i \in 1..n |-> path(i)] \in Seq(Y) /\ Len([i \in 1..n |-> path(i)]) = n
    BY <1>1, <1>4, <1>5
  <1> QED
    BY <1>2, <1>3, <1>6, <1>p DEF Searches, Y, n, path

LEMMA SearchStepwise ==
  ASSUME NEW doc, doc.points \in Seq(Nat), NEW starts \in Seq(Nat), NEW goal
  PROVE  \E f \in [0..SearchLength(doc, starts) -> Searches] : SearchesBy(f, doc, starts, goal)
  <1> DEFINE n == SearchLength(doc, starts)
             Q == Searches
             step == [k \in 0..n |-> [q \in Q |-> SearchOn(doc, q, goal)]]
             Body(f) == [k \in 0..n |-> IF k = 0 THEN SearchFrom(starts) ELSE SearchOn(doc, f[k - 1], goal)]
             search == CHOOSE f : f = Body(f)
  <1>n. n \in Nat
    BY DEF SearchLength
  <1>6. SearchEnd(doc, starts, goal) = search[n]
    BY DEF SearchEnd, SearchLength
  <1> HIDE DEF n
  <1> DEFINE first == SearchFrom(starts)
  <1>0. first \in Q
    BY SearchFromType
  <1>1. step \in [0..n -> [Q -> Q]]
    BY SearchOnType
  <1> HIDE DEF first
  <1>2. PICK f \in [0..n -> Q] : Iterates(f, n, first, step)
    <2> HIDE DEF step, Q, Body, search
    <2> QED
      BY <1>0, <1>1, <1>n, Recursion
  <1>3. f[0] = first /\ \A k \in 0..n : k # 0 => f[k] = SearchOn(doc, f[k - 1], goal)
    <2>1. f[0] = first /\ \A k \in 0..n : k # 0 => f[k] = step[k][f[k - 1]]
      BY <1>2 DEF Iterates
    <2> SUFFICES ASSUME NEW k \in 0..n, k # 0 PROVE f[k] = SearchOn(doc, f[k - 1], goal)
      BY <2>1
    <2>2. f[k - 1] \in Q
      <3>1. k - 1 \in 0..n
        BY <1>n
      <3> HIDE DEF Q, step, Body, search
      <3> QED
        BY <1>2, <3>1
    <2>3. f[k] = step[k][f[k - 1]]
      BY <2>1
    <2> HIDE DEF Q
    <2> QED
      BY <2>2, <2>3
  <1>4. f = Body(f)
    <2> HIDE DEF Q, step
    <2>2. f = [k \in 0..n |-> f[k]]
      BY <1>2
    <2> QED
      BY <1>3, <2>2 DEF first
  <1>5. search = Body(search)
    <2> HIDE DEF Body
    <2> QED
      BY <1>4
  <1>7. \A k \in 0..n : search[k] = f[k]
    <2> DEFINE K == {k \in 0..n : search[k] = f[k]}
    <2> HIDE DEF search, Q, step
    <2>1. 0 \in K
      BY <1>n, <1>3, <1>5 DEF first
    <2>2. \A k \in 0..(n - 1) : k \in K => k + 1 \in K
      <3> SUFFICES ASSUME NEW k \in 0..(n - 1), k \in K PROVE k + 1 \in K
        OBVIOUS
      <3>1. k + 1 - 1 = k /\ k + 1 \in 0..n /\ k + 1 # 0
        BY <1>n
      <3>2. search[k + 1] = SearchOn(doc, search[k], goal)
        <4>1. search[k + 1] = Body(search)[k + 1]
          BY <1>5
        <4> QED
          BY <1>n, <3>1, <4>1
      <3>3. f[k + 1] = SearchOn(doc, f[k], goal)
        <4>1. f[k + 1] = SearchOn(doc, f[k + 1 - 1], goal)
          BY <1>3, <3>1
        <4> QED
          BY <3>1, <4>1
      <3> QED
        BY <3>1, <3>2, <3>3
    <2>3. \A k \in 0..n : k \in K
      <3> HIDE DEF K
      <3> QED
        BY <1>n, <2>1, <2>2, Induction
    <2> QED
      BY <2>3
  <1>8. SearchEnd(doc, starts, goal) = f[n]
    <2> HIDE DEF search, step, Q
    <2>1. n \in 0..n
      BY <1>n
    <2> QED
      BY <1>6, <1>7, <2>1
  <1>9. SearchesBy(f, doc, starts, goal)
    <2> HIDE DEF search, step, Q
    <2>1. \A k \in 1..n : k \in 0..n /\ k # 0
      BY <1>n
    <2> QED
      BY <1>3, <1>8, <2>1 DEF SearchesBy, first, n
  <1> HIDE DEF search, step
  <1> QED
    BY <1>2, <1>9 DEF n

LEMMA ThoseShorter ==
  ASSUME NEW X, NEW s \in Seq(X), NEW B, B \subseteq ToSet(s)
  PROVE  Len(Those(s, B)) \in Nat /\ Len(Those(s, B)) <= Len(s)
  <1>1. Those(s, ToSet(s)) = s
    BY ThoseAll
  <1>2. Len(Those(s, ToSet(s))) = Len(Those(s, B)) + Len(Those(s, ToSet(s) \ B))
    BY ThoseSplit
  <1>3. Those(s, B) \in Seq(X) /\ Those(s, ToSet(s) \ B) \in Seq(X)
    BY ThoseType
  <1>4. Len(Those(s, B)) \in Nat /\ Len(Those(s, ToSet(s) \ B)) \in Nat
    BY <1>3
  <1> QED
    BY <1>1, <1>2, <1>4

\* The paths to look at and the points that may still be appended.
Ahead(doc, search) ==
    Len(search.queue) + Len(Those(doc.points, ToSet(doc.points) \ search.visited))

LEMMA ConcatEntries ==
  ASSUME NEW X, NEW s \in Seq(X), NEW t \in Seq(X)
  PROVE  /\ Len(s \o t) = Len(s) + Len(t)
         /\ \A i \in 1..Len(s) : (s \o t)[i] = s[i]
         /\ \A i \in (Len(s) + 1)..(Len(s) + Len(t)) : (s \o t)[i] = t[i - Len(s)]
  OBVIOUS

\* What a step does to the search: the head is taken off, a path to each fresh
\* point is appended.
StepsOn(doc, search, next) ==
    LET m == Len(search.queue)
    IN /\ next.visited = search.visited \cup Fresh(doc, search)
       /\ m \in Nat /\ m > 0 /\ Len(next.queue) = m - 1 + Len(Those(doc.points, Fresh(doc, search)))
       /\ \A i \in 1..Len(next.queue) :
             \/ i \in 1..(m - 1) /\ i + 1 \in 1..m /\ next.queue[i] = search.queue[i + 1]
             \/ \E p \in Fresh(doc, search) : i \notin 1..(m - 1) /\ next.queue[i] = Append(search.queue[1], p)
       /\ \A i \in 2..m : i - 1 \in 1..Len(next.queue) /\ next.queue[i - 1] = search.queue[i]
       /\ \A p \in Fresh(doc, search) : \E i \in 1..Len(next.queue) : next.queue[i] = Append(search.queue[1], p)

LEMMA SearchStep ==
  ASSUME NEW doc, doc.points \in Seq(Nat), NEW search \in Searches, NEW goal, ~Finished(search, goal)
  PROVE  StepsOn(doc, search, SearchOn(doc, search, goal))
  <1> DEFINE next == SearchOn(doc, search, goal)
             fresh == Those(doc.points, Fresh(doc, search))
             m == Len(search.queue)
             q == search.queue
             o == Onward(doc, search)
             Y == Seq(Nat)
  <1>1. q \in Seq(Y) /\ q # <<>>
    BY DEF Searches, Finished
  <1>2. /\ fresh \in Seq(Nat) /\ ToSet(fresh) = Fresh(doc, search)
        /\ o \in Seq(Y) /\ Len(o) = Len(fresh)
        /\ \A i \in 1..Len(fresh) : o[i] = Append(Head(q), fresh[i])
    BY <1>1, OnwardFacts
  <1>3. next = [queue |-> Tail(q) \o o, visited |-> search.visited \cup Fresh(doc, search)]
    BY DEF SearchOn, Finished
  <1>4. m \in Nat /\ m > 0 /\ Head(q) = q[1]
    BY <1>1
  <1>m. m = Len(q) /\ q = search.queue
    OBVIOUS
  <1>v. next.visited = search.visited \cup Fresh(doc, search) /\ next.queue = Tail(q) \o o
    BY <1>3
  <1> HIDE DEF next, fresh, q, o, Y, m
  <1>5. /\ Len(next.queue) = m - 1 + Len(fresh) /\ Len(fresh) \in Nat
        /\ \A i \in 1..(m - 1) : next.queue[i] = q[i + 1]
        /\ \A i \in m..(m - 1 + Len(fresh)) : next.queue[i] = o[i - (m - 1)]
    <2>1. Tail(q) \in Seq(Y) /\ Len(Tail(q)) = m - 1 /\ \A i \in 1..(m - 1) : Tail(q)[i] = q[i + 1]
      BY <1>1, <1>4, <1>m
    <2> DEFINE t == Tail(q)
    <2>2. t \in Seq(Y) /\ o \in Seq(Y) /\ Len(t) = m - 1 /\ Len(o) = Len(fresh) /\ Len(fresh) \in Nat
      BY <1>2, <2>1
    <2>3. next.queue = t \o o
      BY <1>v
    <2> HIDE DEF t
    <2>4. /\ Len(t \o o) = Len(t) + Len(o)
          /\ \A i \in 1..Len(t) : (t \o o)[i] = t[i]
          /\ \A i \in (Len(t) + 1)..(Len(t) + Len(o)) : (t \o o)[i] = o[i - Len(t)]
      BY <2>2, ConcatEntries
    <2>5. Len(t) + 1 = m /\ m - 1 = Len(t)
      BY <1>4, <2>2
    <2>6. \A i \in 1..(m - 1) : t[i] = q[i + 1]
      BY <2>1 DEF t
    <2> QED
      BY <2>2, <2>3, <2>4, <2>5, <2>6
  <1>6. ASSUME NEW i \in 1..Len(next.queue)
        PROVE  \/ i \in 1..(m - 1) /\ i + 1 \in 1..m /\ next.queue[i] = q[i + 1]
               \/ \E p \in Fresh(doc, search) : i \notin 1..(m - 1) /\ next.queue[i] = Append(q[1], p)
    <2>1. CASE i \in 1..(m - 1)
      BY <1>4, <1>5, <2>1
    <2>2. CASE i \notin 1..(m - 1)
      <3> DEFINE j == i - (m - 1)
      <3>1. i \in m..(m - 1 + Len(fresh)) /\ j \in 1..Len(fresh)
        BY <1>4, <1>5, <2>2
      <3>2. next.queue[i] = o[j]
        BY <1>5, <3>1
      <3> HIDE DEF j
      <3>3. next.queue[i] = Append(q[1], fresh[j])
        BY <1>2, <1>4, <3>1, <3>2
      <3>4. fresh[j] \in ToSet(fresh)
        <4>1. j \in DOMAIN fresh
          BY <1>2, <3>1
        <4> QED
          BY <4>1 DEF ToSet
      <3>5. fresh[j] \in Fresh(doc, search)
        BY <1>2, <3>4
      <3> QED
        BY <2>2, <3>3, <3>5
    <2> QED
      BY <2>1, <2>2
  <1>7. ASSUME NEW i \in 2..m PROVE i - 1 \in 1..Len(next.queue) /\ next.queue[i - 1] = q[i]
    <2>1. i - 1 \in 1..(m - 1) /\ i - 1 + 1 = i
      BY <1>4
    <2> QED
      BY <1>4, <1>5, <2>1
  <1>8. ASSUME NEW p \in Fresh(doc, search)
        PROVE  \E i \in 1..Len(next.queue) : next.queue[i] = Append(q[1], p)
    <2>1. PICK j \in 1..Len(fresh) : fresh[j] = p
      BY <1>2 DEF ToSet
    <2> DEFINE i == j + (m - 1)
    <2>2. i \in m..(m - 1 + Len(fresh)) /\ i - (m - 1) = j /\ i \in 1..Len(next.queue)
      BY <1>4, <1>5
    <2>3. next.queue[i] = o[i - (m - 1)]
      BY <1>5, <2>2
    <2> HIDE DEF i
    <2>4. next.queue[i] = Append(q[1], p)
      BY <1>2, <1>4, <2>1, <2>2, <2>3
    <2> QED
      BY <2>2, <2>4
  <1> QED
    BY <1>v, <1>4, <1>5, <1>6, <1>7, <1>8, <1>m DEF StepsOn, next, fresh, m

LEMMA AheadIsNat ==
  ASSUME NEW doc, doc.points \in Seq(Nat), NEW search \in Searches
  PROVE  /\ Ahead(doc, search) \in Nat
         /\ Ahead(doc, search) = 0 => search.queue = <<>>
  <1> DEFINE m == Len(search.queue)
             l == Len(Those(doc.points, ToSet(doc.points) \ search.visited))
  <1>1. l \in Nat
    BY ThoseType
  <1>2. m \in Nat /\ (m = 0 => search.queue = <<>>)
    BY DEF Searches
  <1>3. Ahead(doc, search) = m + l
    BY DEF Ahead
  <1> HIDE DEF m, l
  <1> QED
    BY <1>1, <1>2, <1>3

LEMMA SearchProgress ==
  ASSUME NEW doc, doc.points \in Seq(Nat), NEW search \in Searches, NEW goal, ~Finished(search, goal)
  PROVE  Ahead(doc, SearchOn(doc, search, goal)) = Ahead(doc, search) - 1
  <1> DEFINE next == SearchOn(doc, search, goal)
             A == ToSet(doc.points) \ search.visited
             B == Fresh(doc, search)
             m == Len(search.queue)
  <1>1. B \subseteq A
    BY DEF Fresh
  <1>2. next.visited = search.visited \cup B /\ m \in Nat /\ Len(next.queue) = m - 1 + Len(Those(doc.points, B))
    BY SearchStep DEF StepsOn
  <1>3. ToSet(doc.points) \ next.visited = A \ B
    BY <1>2
  <1> HIDE DEF next, B, A, m
  <1>4. Len(Those(doc.points, A)) = Len(Those(doc.points, B)) + Len(Those(doc.points, A \ B))
    BY <1>1, ThoseSplit
  <1>5. \A C : Len(Those(doc.points, C)) \in Nat
    BY ThoseType
  <1>6. Ahead(doc, search) = m + Len(Those(doc.points, A))
    BY DEF Ahead, m, A
  <1>7. Ahead(doc, next) = m - 1 + Len(Those(doc.points, B)) + Len(Those(doc.points, A \ B))
    BY <1>2, <1>3 DEF Ahead
  <1>8. Len(Those(doc.points, A)) \in Nat /\ Len(Those(doc.points, B)) \in Nat /\ Len(Those(doc.points, A \ B)) \in Nat
    BY <1>5
  <1> QED
    BY <1>2, <1>4, <1>6, <1>7, <1>8 DEF next

LEMMA SearchFinishes ==
  ASSUME NEW doc, doc.points \in Seq(Nat), NEW starts \in Seq(Nat), NEW goal
  PROVE  Finished(SearchEnd(doc, starts, goal), goal)
  <1> DEFINE n == SearchLength(doc, starts)
  <1>n. n \in Nat /\ n = Len(starts) + Len(doc.points)
    BY DEF SearchLength
  <1>1. PICK f \in [0..n -> Searches] : SearchesBy(f, doc, starts, goal)
    BY SearchStepwise
  <1>e. SearchEnd(doc, starts, goal) = f[n] /\ \A k \in 1..n : f[k] = SearchOn(doc, f[k - 1], goal)
    BY <1>1 DEF SearchesBy
  <1> HIDE DEF n
  <1>2. Ahead(doc, f[0]) \in Nat /\ Ahead(doc, f[0]) <= n
    <2> DEFINE B == ToSet(doc.points) \ ToSet(starts)
    <2>1. f[0] = SearchFrom(starts)
      BY <1>1 DEF SearchesBy
    <2>2. Len(f[0].queue) = Len(starts) /\ f[0].visited = ToSet(starts)
      BY <2>1, SearchFromType
    <2>3. Ahead(doc, f[0]) = Len(starts) + Len(Those(doc.points, B))
      BY <2>2 DEF Ahead
    <2>4. Len(Those(doc.points, B)) \in Nat /\ Len(Those(doc.points, B)) <= Len(doc.points)
      <3>1. B \subseteq ToSet(doc.points)
        OBVIOUS
      <3> HIDE DEF B
      <3> QED
        BY <3>1, ThoseShorter
    <2> HIDE DEF B
    <2>5. Len(starts) \in Nat /\ Len(doc.points) \in Nat
      OBVIOUS
    <2> QED
      BY <1>n, <2>3, <2>4, <2>5
  <1> DEFINE Good(k) == Finished(f[k], goal) \/ (Ahead(doc, f[k]) \in Nat /\ Ahead(doc, f[k]) <= n - k)
             K == {k \in 0..n : Good(k)}
  <1>3. 0 \in K
    BY <1>n, <1>2
  <1>4. \A k \in 0..(n - 1) : k \in K => k + 1 \in K
    <2> SUFFICES ASSUME NEW k \in 0..(n - 1), k \in K PROVE k + 1 \in K
      OBVIOUS
    <2>1. k + 1 \in 1..n /\ k + 1 - 1 = k /\ k + 1 \in 0..n /\ k \in 0..n
      BY <1>n
    <2>2. f[k + 1] = SearchOn(doc, f[k], goal) /\ f[k] \in Searches /\ f[k + 1] \in Searches
      BY <1>1, <1>e, <2>1
    <2>3. CASE Finished(f[k], goal)
      <3>1. f[k + 1] = f[k]
        BY <2>2, <2>3 DEF SearchOn, Finished
      <3> QED
        BY <2>1, <2>3, <3>1
    <2>4. CASE ~Finished(f[k], goal)
      <3>1. Ahead(doc, f[k + 1]) = Ahead(doc, f[k]) - 1
        BY <2>2, <2>4, SearchProgress
      <3>2. Ahead(doc, f[k + 1]) \in Nat
        BY <2>2, AheadIsNat
      <3>3. Ahead(doc, f[k]) \in Nat /\ Ahead(doc, f[k]) <= n - k
        BY <2>4
      <3>4. Ahead(doc, f[k + 1]) <= n - (k + 1)
        BY <1>n, <3>1, <3>3
      <3> QED
        BY <2>1, <3>2, <3>4
    <2> QED
      BY <2>3, <2>4
  <1>5. n \in K
    <2> HIDE DEF K
    <2>1. \A k \in 0..n : k \in K
      BY <1>n, <1>3, <1>4, Induction
    <2> QED
      BY <1>n, <2>1
  <1>6. CASE Ahead(doc, f[n]) \in Nat /\ Ahead(doc, f[n]) <= n - n
    <2>1. f[n] \in Searches /\ Ahead(doc, f[n]) = 0
      BY <1>n, <1>6
    <2>5. f[n].queue = <<>>
      BY <2>1, AheadIsNat
    <2> QED
      BY <1>e, <2>5 DEF Finished
  <1> QED
    BY <1>e, <1>5, <1>6

-----------------------------------------------------------------------------
(* The reference: points within reach. *)

\* f has the points within reach, move by move.
NearBy(f, cells, from, k) ==
    /\ f[0] = from
    /\ \A j \in 1..k : f[j] = f[j - 1] \cup Onto(cells, f[j - 1])
    /\ Within(cells, from, k) = f[k]

Reachable(cells, from) == SUBSET (from \cup {r[2] : r \in cells})

LEMMA WithinStepwise ==
  ASSUME NEW cells, NEW from, NEW n \in Nat
  PROVE  \E f \in [0..n -> Reachable(cells, from)] : NearBy(f, cells, from, n)
  <1> DEFINE Q == Reachable(cells, from)
             step == [k \in 0..n |-> [q \in Q |-> q \cup Onto(cells, q)]]
             Body(f) == [k \in 0..n |-> IF k = 0 THEN from ELSE f[k - 1] \cup Onto(cells, f[k - 1])]
             near == CHOOSE f : f = Body(f)
  <1>6. Within(cells, from, n) = near[n]
    BY DEF Within
  <1>0. from \in Q /\ \A q \in Q : q \cup Onto(cells, q) \in Q
    BY DEF Reachable, Onto
  <1>1. step \in [0..n -> [Q -> Q]]
    BY <1>0
  <1>2. PICK f \in [0..n -> Q] : Iterates(f, n, from, step)
    <2> HIDE DEF step, Q, Body, near
    <2> QED
      BY <1>0, <1>1, Recursion
  <1>3. f[0] = from /\ \A k \in 0..n : k # 0 => f[k] = f[k - 1] \cup Onto(cells, f[k - 1])
    <2>1. f[0] = from /\ \A k \in 0..n : k # 0 => f[k] = step[k][f[k - 1]]
      BY <1>2 DEF Iterates
    <2> SUFFICES ASSUME NEW k \in 0..n, k # 0 PROVE f[k] = f[k - 1] \cup Onto(cells, f[k - 1])
      BY <2>1
    <2>2. f[k - 1] \in Q
      <3>1. k - 1 \in 0..n
        OBVIOUS
      <3> HIDE DEF Q, step, Body, near
      <3> QED
        BY <1>2, <3>1
    <2>3. f[k] = step[k][f[k - 1]]
      BY <2>1
    <2> HIDE DEF Q
    <2> QED
      BY <2>2, <2>3
  <1>4. f = Body(f)
    <2> HIDE DEF Q, step
    <2>2. f = [k \in 0..n |-> f[k]]
      BY <1>2
    <2> QED
      BY <1>3, <2>2
  <1>5. near = Body(near)
    <2> HIDE DEF Body
    <2> QED
      BY <1>4
  <1>7. \A k \in 0..n : near[k] = f[k]
    <2> DEFINE K == {k \in 0..n : near[k] = f[k]}
    <2> HIDE DEF near, Q, step
    <2>1. 0 \in K
      <3>1. near[0] = Body(near)[0] /\ 0 \in 0..n
        BY <1>5
      <3> QED
        BY <1>3, <3>1
    <2>2. \A k \in 0..(n - 1) : k \in K => k + 1 \in K
      <3> SUFFICES ASSUME NEW k \in 0..(n - 1), k \in K PROVE k + 1 \in K
        OBVIOUS
      <3>1. k + 1 - 1 = k /\ k + 1 \in 0..n /\ k + 1 # 0
        OBVIOUS
      <3>2. near[k + 1] = near[k] \cup Onto(cells, near[k])
        <4>1. near[k + 1] = Body(near)[k + 1]
          BY <1>5
        <4> QED
          BY <3>1, <4>1
      <3>3. f[k + 1] = f[k] \cup Onto(cells, f[k])
        <4>1. f[k + 1] = f[k + 1 - 1] \cup Onto(cells, f[k + 1 - 1])
          BY <1>3, <3>1
        <4> QED
          BY <3>1, <4>1
      <3> QED
        BY <3>1, <3>2, <3>3
    <2>3. \A k \in 0..n : k \in K
      <3> HIDE DEF K
      <3> QED
        BY <2>1, <2>2, Induction
    <2> QED
      BY <2>3
  <1>8. Within(cells, from, n) = f[n]
    <2> HIDE DEF near, step, Q
    <2> QED
      BY <1>6, <1>7
  <1>9. NearBy(f, cells, from, n)
    <2> HIDE DEF near, step, Q
    <2>1. \A k \in 1..n : k \in 0..n /\ k # 0
      OBVIOUS
    <2> QED
      BY <1>3, <1>8, <2>1 DEF NearBy
  <1> HIDE DEF near, step
  <1> QED
    BY <1>2, <1>9

LEMMA WithinFacts ==
  ASSUME NEW cells, NEW from
  PROVE  /\ Within(cells, from, 0) = from
         /\ \A k \in Nat : Within(cells, from, k + 1) = Within(cells, from, k) \cup Onto(cells, Within(cells, from, k))
  <1>1. Within(cells, from, 0) = from
    <2>1. PICK f : NearBy(f, cells, from, 0)
      BY WithinStepwise
    <2> QED
      BY <2>1 DEF NearBy
  <1>2. ASSUME NEW k \in Nat
        PROVE  Within(cells, from, k + 1) = Within(cells, from, k) \cup Onto(cells, Within(cells, from, k))
    <2>1. PICK f : NearBy(f, cells, from, k)
      BY WithinStepwise
    <2>2. k + 1 \in Nat
      OBVIOUS
    <2>3. PICK g : NearBy(g, cells, from, k + 1)
      BY <2>2, WithinStepwise
    <2>4. /\ f[0] = from /\ \A j \in 1..k : f[j] = f[j - 1] \cup Onto(cells, f[j - 1])
          /\ Within(cells, from, k) = f[k]
      BY <2>1 DEF NearBy
    <2>5. /\ g[0] = from /\ \A j \in 1..(k + 1) : g[j] = g[j - 1] \cup Onto(cells, g[j - 1])
          /\ Within(cells, from, k + 1) = g[k + 1]
      BY <2>3 DEF NearBy
    <2> DEFINE K == {j \in 0..k : f[j] = g[j]}
    <2>6. 0 \in K
      BY <2>4, <2>5
    <2>7. \A j \in 0..(k - 1) : j \in K => j + 1 \in K
      <3> SUFFICES ASSUME NEW j \in 0..(k - 1), j \in K PROVE j + 1 \in K
        OBVIOUS
      <3>1. j + 1 \in 1..k /\ j + 1 \in 1..(k + 1) /\ j + 1 - 1 = j /\ j + 1 \in 0..k
        OBVIOUS
      <3>2. f[j + 1] = f[j + 1 - 1] \cup Onto(cells, f[j + 1 - 1])
        BY <2>4, <3>1
      <3>3. g[j + 1] = g[j + 1 - 1] \cup Onto(cells, g[j + 1 - 1])
        BY <2>5, <3>1
      <3> QED
        BY <3>1, <3>2, <3>3
    <2>8. \A j \in 0..k : j \in K
      <3> HIDE DEF K
      <3> QED
        BY <2>6, <2>7, Induction
    <2>9. f[k] = g[k]
      BY <2>8
    <2>10. g[k + 1] = g[k] \cup Onto(cells, g[k])
      <3>1. k + 1 \in 1..(k + 1) /\ k + 1 - 1 = k
        OBVIOUS
      <3>2. g[k + 1] = g[k + 1 - 1] \cup Onto(cells, g[k + 1 - 1])
        BY <2>5, <3>1
      <3> QED
        BY <3>1, <3>2
    <2> QED
      BY <2>4, <2>5, <2>9, <2>10
  <1> QED
    BY <1>1, <1>2

LEMMA WithinClosed ==
  ASSUME NEW cells, NEW from, NEW S, from \subseteq S, Onto(cells, S) \subseteq S, NEW n \in Nat
  PROVE  Within(cells, from, n) \subseteq S
  <1> DEFINE K == {k \in 0..n : Within(cells, from, k) \subseteq S}
  <1>1. 0 \in K
    BY WithinFacts
  <1>2. \A k \in 0..(n - 1) : k \in K => k + 1 \in K
    <2> SUFFICES ASSUME NEW k \in 0..(n - 1), k \in K PROVE k + 1 \in K
      OBVIOUS
    <2>1. Within(cells, from, k + 1) = Within(cells, from, k) \cup Onto(cells, Within(cells, from, k))
      BY WithinFacts
    <2>2. Onto(cells, Within(cells, from, k)) \subseteq Onto(cells, S)
      BY DEF Onto
    <2> QED
      BY <2>1, <2>2
  <1>3. \A k \in 0..n : k \in K
    <2> HIDE DEF K
    <2> QED
      BY <1>1, <1>2, Induction
  <1> QED
    BY <1>3

-----------------------------------------------------------------------------
(* Breadth first finds the shortest way. *)

\* The points at most k moves from the starts.
Near(doc, starts, k) == Within(doc.pairs, ToSet(starts), k)

LEMMA NearFacts ==
  ASSUME NEW doc, NEW starts
  PROVE  /\ Near(doc, starts, 0) = ToSet(starts)
         /\ \A k \in Nat : Near(doc, starts, k + 1) = Near(doc, starts, k) \cup Onto(doc.pairs, Near(doc, starts, k))
  BY WithinFacts DEF Near

\* A way of safe moves away from the starts.
Leads(doc, starts, p) ==
    /\ p \in Seq(Nat) /\ p # <<>> /\ p[1] \in ToSet(starts)
    /\ \A i \in 1..(Len(p) - 1) : <<p[i], p[i + 1]>> \in doc.pairs
    /\ \A i \in 2..Len(p) : p[i] \notin ToSet(starts)

\* ... that is as short as any.
Way(doc, starts, p) ==
    /\ Leads(doc, starts, p)
    /\ Last(p) \in Near(doc, starts, Len(p) - 1)
    /\ Len(p) > 1 => Last(p) \notin Near(doc, starts, Len(p) - 2)

\* A point that is not the goal, from which the search has seen all others.
Past(doc, search, goal, v) ==
    v # goal /\ \A p : <<v, p>> \in doc.pairs => p \in search.visited

\* A point that waits in the queue.
Waits(search, v) == \E i \in 1..Len(search.queue) : Last(search.queue[i]) = v

WaysInv(doc, starts, search) ==
    /\ ToSet(starts) \subseteq search.visited
    /\ \A i \in 1..Len(search.queue) :
          Way(doc, starts, search.queue[i]) /\ Last(search.queue[i]) \in search.visited
SeenInv(doc, search, goal) ==
    \A v \in search.visited : Past(doc, search, goal, v) \/ Waits(search, v)
LengthInv(search) ==
    \A i, j \in 1..Len(search.queue) :
        i <= j => /\ Len(search.queue[i]) <= Len(search.queue[j])
                  /\ Len(search.queue[j]) <= Len(search.queue[i]) + 1
\* What is nearer than the point that is next is behind.
BreadthInv(doc, starts, search, goal) ==
    search.queue # <<>> /\ Len(search.queue[1]) > 1 =>
        \A v \in Near(doc, starts, Len(search.queue[1]) - 2) :
            v \in search.visited /\ Past(doc, search, goal, v)

SearchInv(doc, starts, search, goal) ==
    /\ WaysInv(doc, starts, search) /\ SeenInv(doc, search, goal)
    /\ LengthInv(search) /\ BreadthInv(doc, starts, search, goal)

LEMMA SearchBegins ==
  ASSUME NEW doc, NEW starts \in Seq(Nat), NEW goal
  PROVE  SearchInv(doc, starts, SearchFrom(starts), goal)
  <1> DEFINE s == SearchFrom(starts)
             n == Len(starts)
  <1>1. /\ s.visited = ToSet(starts) /\ Len(s.queue) = n
        /\ \A i \in 1..n : s.queue[i] = <<starts[i]>>
    BY SearchFromType
  <1>2. n \in Nat /\ DOMAIN starts = 1..n /\ \A i \in 1..n : starts[i] \in Nat
    OBVIOUS
  <1> HIDE DEF s, n
  <1>3. \A i \in 1..n : starts[i] \in ToSet(starts)
    BY <1>2 DEF ToSet
  <1>4. \A i \in 1..n : Len(s.queue[i]) = 1 /\ Last(s.queue[i]) = starts[i]
    <2> SUFFICES ASSUME NEW i \in 1..n PROVE Len(s.queue[i]) = 1 /\ Last(s.queue[i]) = starts[i]
      OBVIOUS
    <2> DEFINE p == <<starts[i]>>
    <2>1. Len(p) = 1 /\ p[1] = starts[i]
      OBVIOUS
    <2>2. s.queue[i] = p
      BY <1>1
    <2> HIDE DEF p
    <2> QED
      BY <2>1, <2>2 DEF Last
  <1>5. WaysInv(doc, starts, s)
    <2> SUFFICES ASSUME NEW i \in 1..n PROVE Way(doc, starts, s.queue[i]) /\ Last(s.queue[i]) \in s.visited
      BY <1>1 DEF WaysInv
    <2> DEFINE p == <<starts[i]>>
    <2>1. p \in Seq(Nat) /\ p # <<>> /\ p[1] = starts[i] /\ Len(p) = 1
      BY <1>2
    <2>2. Leads(doc, starts, p)
      BY <1>3, <2>1 DEF Leads
    <2>3. Last(p) \in Near(doc, starts, Len(p) - 1)
      BY <1>3, <2>1, NearFacts DEF Last
    <2> HIDE DEF p
    <2>4. Way(doc, starts, p)
      BY <2>1, <2>2, <2>3 DEF Way
    <2>5. s.queue[i] = p
      BY <1>1 DEF p
    <2>6. Last(s.queue[i]) \in s.visited
      BY <1>1, <1>3, <1>4
    <2> QED
      BY <2>4, <2>5, <2>6
  <1>6. SeenInv(doc, s, goal)
    <2> SUFFICES ASSUME NEW v \in ToSet(starts) PROVE Waits(s, v)
      BY <1>1 DEF SeenInv
    <2>1. PICK i \in 1..n : starts[i] = v
      BY <1>2 DEF ToSet
    <2> QED
      BY <1>1, <1>4, <2>1 DEF Waits
  <1>7. LengthInv(s)
    BY <1>1, <1>4 DEF LengthInv
  <1>8. BreadthInv(doc, starts, s, goal)
    <2>1. s.queue # <<>> => 1 \in 1..n
      <3>1. s.queue \in Seq(Seq(Nat))
        BY SearchFromType DEF s, Searches
      <3> QED
        BY <1>1, <1>2, <3>1
    <2>2. s.queue # <<>> => Len(s.queue[1]) = 1
      BY <1>4, <2>1
    <2>3. ASSUME s.queue # <<>>, Len(s.queue[1]) > 1
          PROVE  FALSE
      <3> DEFINE m == Len(s.queue[1])
      <3>1. m = 1 /\ m > 1
        BY <2>2, <2>3
      <3> HIDE DEF m
      <3> QED
        BY <3>1
    <2> QED
      BY <2>3 DEF BreadthInv
  <1> QED
    BY <1>5, <1>6, <1>7, <1>8 DEF SearchInv, s

\* The points one move further than the head's are behind or in the queue.
LEMMA NearSeen ==
  ASSUME NEW doc, doc.pairs \subseteq Nat \X Nat, NEW starts, NEW search \in Searches, NEW goal,
         search.queue # <<>>, SearchInv(doc, starts, search, goal)
  PROVE  Near(doc, starts, Len(search.queue[1]) - 1) \subseteq search.visited
  <1> DEFINE l == Len(search.queue[1])
  <1>0. 1 \in 1..Len(search.queue)
    BY DEF Searches
  <1>1. l \in Nat /\ l > 0
    BY <1>0 DEF SearchInv, WaysInv, Way, Leads
  <1>2. CASE l = 1
    BY <1>2, NearFacts DEF SearchInv, WaysInv
  <1>3. CASE l > 1
    <2> DEFINE k == l - 2
    <2>1. k \in Nat /\ k + 1 = l - 1
      BY <1>1, <1>3
    <2>2. \A v \in Near(doc, starts, k) : v \in search.visited /\ Past(doc, search, goal, v)
      BY <1>3 DEF SearchInv, BreadthInv
    <2> HIDE DEF l, k
    <2>3. Near(doc, starts, l - 1) = Near(doc, starts, k) \cup Onto(doc.pairs, Near(doc, starts, k))
      BY <2>1, NearFacts
    <2> SUFFICES ASSUME NEW v \in Onto(doc.pairs, Near(doc, starts, k))
                 PROVE  v \in search.visited
      BY <2>2, <2>3 DEF l
    <2>4. PICK r \in doc.pairs : r[1] \in Near(doc, starts, k) /\ r[2] = v
      BY DEF Onto
    <2>5. r = <<r[1], v>>
      BY <2>4
    <2> QED
      BY <2>2, <2>4, <2>5 DEF Past
  <1>4. l = 1 \/ l > 1
    <2> HIDE DEF l
    <2> QED
      BY <1>1
  <1> QED
    BY <1>2, <1>3, <1>4

\* What the search of a document's routes works on.
Searched(doc, starts) ==
    /\ doc.points \in Seq(Nat) /\ starts \in Seq(Nat)
    /\ SafePairs(doc.pairs, ToSet(doc.points))

LEMMA SearchedFacts ==
  ASSUME NEW doc, NEW starts, Searched(doc, starts)
  PROVE  /\ ToSet(doc.points) \subseteq Nat
         /\ doc.pairs \subseteq Nat \X Nat
         /\ \A x, y : <<x, y>> \in doc.pairs => y \in ToSet(doc.points)
  <1>1. ToSet(doc.points) \subseteq Nat
    BY DEF Searched, ToSet
  <1>2. doc.pairs \subseteq ToSet(doc.points) \X ToSet(doc.points)
    BY DEF Searched, SafePairs
  <1> QED
    BY <1>1, <1>2

\* A path that is appended is a way, and as short as any.
LEMMA AppendedIsWay ==
  ASSUME NEW doc, NEW starts, Searched(doc, starts), NEW search \in Searches, NEW goal,
         ~Finished(search, goal), SearchInv(doc, starts, search, goal), NEW p \in Fresh(doc, search)
  PROVE  /\ Way(doc, starts, Append(search.queue[1], p)) /\ Last(Append(search.queue[1], p)) = p
         /\ Len(Append(search.queue[1], p)) = Len(search.queue[1]) + 1
  <1> DEFINE h == search.queue[1]
             l == Len(h)
             t == Append(h, p)
  <1>1. search.queue \in Seq(Seq(Nat)) /\ search.queue # <<>>
    BY DEF Finished, Searches
  <1>2. Head(search.queue) = h /\ 1 \in 1..Len(search.queue)
    BY <1>1
  <1>3. Way(doc, starts, h) /\ ToSet(starts) \subseteq search.visited
    BY <1>2 DEF SearchInv, WaysInv
  <1>4. p \in Nat /\ p \notin search.visited /\ <<Last(h), p>> \in doc.pairs
    BY <1>2, SearchedFacts DEF Fresh
  <1>5. Near(doc, starts, l - 1) \subseteq search.visited
    BY <1>1, NearSeen, SearchedFacts
  <1> HIDE DEF h
  <1>6. h \in Seq(Nat) /\ h # <<>> /\ h[1] \in ToSet(starts) /\ Last(h) = h[l]
    BY <1>3 DEF Way, Leads, Last
  <1>7. l \in Nat /\ l > 0
    BY <1>6
  <1>8. /\ t \in Seq(Nat) /\ t # <<>> /\ Len(t) = l + 1 /\ t[l + 1] = p
        /\ \A i \in 1..l : t[i] = h[i]
    BY <1>4, <1>6
  <1> HIDE DEF t, l
  <1>9. Last(t) = p
    BY <1>8 DEF Last
  <1>10. Leads(doc, starts, t)
    <2>1. t[1] \in ToSet(starts)
      BY <1>6, <1>7, <1>8
    <2>2. ASSUME NEW i \in 1..(Len(t) - 1) PROVE <<t[i], t[i + 1]>> \in doc.pairs
      <3>1. i \in 1..l
        BY <1>7, <1>8
      <3>2. CASE i = l
        BY <1>4, <1>6, <1>8, <3>1, <3>2
      <3>3. CASE i # l
        <4>1. i \in 1..(l - 1) /\ i + 1 \in 1..l
          BY <1>7, <3>1, <3>3
        <4>2. <<h[i], h[i + 1]>> \in doc.pairs
          BY <1>3, <4>1 DEF Way, Leads, l
        <4> QED
          BY <1>8, <3>1, <4>1, <4>2
      <3> QED
        BY <3>2, <3>3
    <2>3. ASSUME NEW i \in 2..Len(t) PROVE t[i] \notin ToSet(starts)
      <3>1. i = l + 1 \/ i \in 2..l
        BY <1>7, <1>8
      <3>2. CASE i = l + 1
        BY <1>3, <1>4, <1>8, <3>2
      <3>3. CASE i \in 2..l
        <4>1. i \in 1..l
          BY <1>7, <3>3
        <4>2. h[i] \notin ToSet(starts)
          BY <1>3, <3>3 DEF Way, Leads, l
        <4> QED
          BY <1>8, <4>1, <4>2
      <3> QED
        BY <3>1, <3>2, <3>3
    <2> QED
      BY <1>8, <2>1, <2>2, <2>3 DEF Leads
  <1>11. p \in Near(doc, starts, l)
    <2>1. l - 1 \in Nat /\ (l - 1) + 1 = l
      BY <1>7
    <2>2. Near(doc, starts, l) = Near(doc, starts, l - 1) \cup Onto(doc.pairs, Near(doc, starts, l - 1))
      BY <2>1, NearFacts
    <2>3. Last(h) \in Near(doc, starts, l - 1)
      BY <1>3 DEF Way, l
    <2> DEFINE r == <<Last(h), p>>
    <2>4. r \in doc.pairs /\ r[1] \in Near(doc, starts, l - 1) /\ r[2] = p
      BY <1>4, <2>3
    <2>5. p \in Onto(doc.pairs, Near(doc, starts, l - 1))
      <3> HIDE DEF r
      <3> QED
        BY <2>4 DEF Onto
    <2> QED
      BY <2>2, <2>5
  <1>12. p \notin Near(doc, starts, l - 1)
    BY <1>4, <1>5 DEF l, h
  <1>13. Len(t) - 1 = l /\ Len(t) - 2 = l - 1
    BY <1>7, <1>8
  <1>14. Way(doc, starts, t)
    BY <1>9, <1>10, <1>11, <1>12, <1>13 DEF Way
  <1> QED
    BY <1>8, <1>9, <1>14 DEF t, l, h

\* A step of the search keeps SearchInv.
LEMMA SearchKeeps ==
  ASSUME NEW doc, NEW starts, Searched(doc, starts), NEW search \in Searches, NEW goal,
         SearchInv(doc, starts, search, goal)
  PROVE  SearchInv(doc, starts, SearchOn(doc, search, goal), goal)
  <1>1. CASE Finished(search, goal)
    BY <1>1 DEF Finished, SearchOn
  <1>2. ASSUME ~Finished(search, goal)
        PROVE  SearchInv(doc, starts, SearchOn(doc, search, goal), goal)
    <2> DEFINE next == SearchOn(doc, search, goal)
               fresh == Those(doc.points, Fresh(doc, search))
               m == Len(search.queue)
               F == Fresh(doc, search)
               new(p) == Append(search.queue[1], p)
               n == Len(next.queue)
               l == Len(search.queue[1])
    <2>p. doc.points \in Seq(Nat)
      BY DEF Searched
    <2>1. /\ next.visited = search.visited \cup F
          /\ m \in Nat /\ m > 0 /\ n = m - 1 + Len(fresh)
          /\ \A i \in 1..n :
                \/ i \in 1..(m - 1) /\ i + 1 \in 1..m /\ next.queue[i] = search.queue[i + 1]
                \/ \E p \in F : i \notin 1..(m - 1) /\ next.queue[i] = new(p)
          /\ \A i \in 2..m : i - 1 \in 1..n /\ next.queue[i - 1] = search.queue[i]
          /\ \A p \in F : \E i \in 1..n : next.queue[i] = new(p)
      <3>1. StepsOn(doc, search, next)
        BY <1>2, <2>p, SearchStep
      <3> HIDE DEF next
      <3> QED
        BY <3>1 DEF StepsOn
    <2>2. next \in Searches
      BY <2>p, SearchOnType
    <2>3. n \in Nat /\ (next.queue # <<>> => 1 \in 1..n)
      BY <2>2 DEF Searches
    <2>4. search.queue # <<>> /\ Head(search.queue) = search.queue[1] /\ Last(search.queue[1]) # goal
      BY <1>2 DEF Finished, Searches
    <2>5. \A p \in F : Way(doc, starts, new(p)) /\ Last(new(p)) = p /\ Len(new(p)) = l + 1
      BY <1>2, AppendedIsWay
    <2>6. WaysInv(doc, starts, search) /\ SeenInv(doc, search, goal) /\ LengthInv(search)
          /\ BreadthInv(doc, starts, search, goal)
      BY DEF SearchInv
    <2>7. /\ ToSet(starts) \subseteq search.visited
          /\ \A i \in 1..m : Way(doc, starts, search.queue[i]) /\ Last(search.queue[i]) \in search.visited
      BY <2>6 DEF WaysInv
    <2>8. /\ l \in Nat /\ l > 0
          /\ \A i \in 1..m : Len(search.queue[i]) \in Nat /\ Len(search.queue[i]) > 0
      <3>1. \A i \in 1..m : search.queue[i] \in Seq(Nat) /\ search.queue[i] # <<>>
        BY <2>7 DEF Way, Leads
      <3>2. \A i \in 1..m : Len(search.queue[i]) \in Nat /\ Len(search.queue[i]) > 0
        BY <3>1
      <3>3. 1 \in 1..m
        BY <2>1
      <3> QED
        BY <3>2, <3>3
    <2>9. \A p : <<Last(search.queue[1]), p>> \in doc.pairs => p \in search.visited \/ p \in F
      <3>1. F = {p \in ToSet(doc.points) \ search.visited : <<Last(search.queue[1]), p>> \in doc.pairs}
        BY <2>4 DEF Fresh
      <3>2. \A p : <<Last(search.queue[1]), p>> \in doc.pairs => p \in ToSet(doc.points)
        BY SearchedFacts
      <3> QED
        BY <3>1, <3>2
    <2>10. Near(doc, starts, l - 1) \subseteq search.visited
      BY <2>4, NearSeen, SearchedFacts
    <2>11. \A i, j \in 1..m : i <= j => /\ Len(search.queue[i]) <= Len(search.queue[j])
                                        /\ Len(search.queue[j]) <= Len(search.queue[i]) + 1
      BY <2>6 DEF LengthInv
    <2> HIDE DEF next, fresh, m, F, new, n, l
    <2>12. WaysInv(doc, starts, next)
      <3> SUFFICES ASSUME NEW i \in 1..n
                   PROVE  Way(doc, starts, next.queue[i]) /\ Last(next.queue[i]) \in next.visited
        BY <2>1, <2>7 DEF WaysInv, n
      <3>1. CASE i \in 1..(m - 1) /\ i + 1 \in 1..m /\ next.queue[i] = search.queue[i + 1]
        BY <2>1, <2>7, <3>1
      <3>2. ASSUME NEW p \in F, next.queue[i] = new(p)
            PROVE  Way(doc, starts, next.queue[i]) /\ Last(next.queue[i]) \in next.visited
        BY <2>1, <2>5, <3>2
      <3> QED
        BY <2>1, <3>1, <3>2
    <2>13. \A v \in search.visited : Past(doc, search, goal, v) => Past(doc, next, goal, v)
      BY <2>1 DEF Past
    <2>14. SeenInv(doc, next, goal)
      <3> SUFFICES ASSUME NEW v \in next.visited
                   PROVE  Past(doc, next, goal, v) \/ Waits(next, v)
        BY DEF SeenInv
      <3>1. CASE v \in F
        <4>1. PICK i \in 1..n : next.queue[i] = new(v)
          BY <2>1, <3>1
        <4>2. Last(next.queue[i]) = v
          BY <2>5, <3>1, <4>1
        <4> QED
          BY <4>2 DEF Waits, n
      <3>2. CASE v \in search.visited
        <4>1. CASE Past(doc, search, goal, v)
          BY <2>13, <3>2, <4>1
        <4>2. ASSUME Waits(search, v) PROVE Past(doc, next, goal, v) \/ Waits(next, v)
          <5>1. PICK i \in 1..m : Last(search.queue[i]) = v
            BY <4>2 DEF Waits, m
          <5>2. CASE i = 1
            BY <2>1, <2>4, <2>9, <5>1, <5>2 DEF Past
          <5>3. CASE i # 1
            <6>1. i \in 2..m
              BY <2>1, <5>3
            <6>2. i - 1 \in 1..n /\ next.queue[i - 1] = search.queue[i]
              BY <2>1, <6>1
            <6> QED
              BY <5>1, <6>2 DEF Waits, n
          <5> QED
            BY <5>2, <5>3
        <4> QED
          BY <2>6, <3>2, <4>1, <4>2 DEF SeenInv
      <3> QED
        BY <2>1, <3>1, <3>2
    <2>15. \A i \in 1..n : \/ i \in 1..(m - 1) /\ i + 1 \in 1..m /\ Len(next.queue[i]) = Len(search.queue[i + 1])
                           \/ i \notin 1..(m - 1) /\ Len(next.queue[i]) = l + 1
      BY <2>1, <2>5
    <2>16. \A i \in 1..m : l <= Len(search.queue[i]) /\ Len(search.queue[i]) <= l + 1
      <3>1. 1 \in 1..m /\ \A i \in 1..m : 1 <= i
        BY <2>1
      <3> QED
        BY <2>11, <3>1 DEF l
    <2>17. LengthInv(next)
      <3> SUFFICES ASSUME NEW i \in 1..n, NEW j \in 1..n, i <= j
                   PROVE  /\ Len(next.queue[i]) <= Len(next.queue[j])
                          /\ Len(next.queue[j]) <= Len(next.queue[i]) + 1
        BY DEF LengthInv, n
      <3> DEFINE a == Len(next.queue[i])
                 b == Len(next.queue[j])
      <3>1. CASE i \in 1..(m - 1) /\ j \in 1..(m - 1)
        <4>1. i + 1 \in 1..m /\ j + 1 \in 1..m /\ i + 1 <= j + 1
          BY <2>1, <3>1
        <4>2. /\ Len(search.queue[i + 1]) <= Len(search.queue[j + 1])
              /\ Len(search.queue[j + 1]) <= Len(search.queue[i + 1]) + 1
          BY <2>11, <4>1
        <4>3. a = Len(search.queue[i + 1]) /\ b = Len(search.queue[j + 1])
          BY <2>15, <3>1
        <4> QED
          BY <4>2, <4>3
      <3>2. CASE i \in 1..(m - 1) /\ j \notin 1..(m - 1)
        <4> DEFINE c == Len(search.queue[i + 1])
        <4>1. i + 1 \in 1..m /\ a = c /\ b = l + 1
          BY <2>15, <3>2
        <4>2. c \in Nat /\ l <= c /\ c <= l + 1
          BY <2>8, <2>16, <4>1
        <4> HIDE DEF a, b, c
        <4>3. a <= b /\ b <= a + 1
          BY <2>8, <4>1, <4>2
        <4> QED
          BY <4>3 DEF a, b
      <3>3. CASE i \notin 1..(m - 1) /\ j \notin 1..(m - 1)
        <4>1. a = l + 1 /\ b = l + 1
          BY <2>15, <3>3
        <4> HIDE DEF a, b
        <4>3. a <= b /\ b <= a + 1
          BY <2>8, <4>1
        <4> QED
          BY <4>3 DEF a, b
      <3>4. ~(i \notin 1..(m - 1) /\ j \in 1..(m - 1))
        BY <2>1, <2>3
      <3> QED
        BY <3>1, <3>2, <3>3, <3>4
    <2>18. BreadthInv(doc, starts, next, goal)
      <3> DEFINE k == Len(next.queue[1])
      <3> SUFFICES ASSUME next.queue # <<>>, k > 1, NEW v \in Near(doc, starts, k - 2)
                   PROVE  v \in next.visited /\ Past(doc, next, goal, v)
        BY DEF BreadthInv
      <3>1. 1 \in 1..n
        BY <2>3
      <3>2. k = l \/ k = l + 1
        <4>1. CASE 2 \in 1..m /\ k = Len(search.queue[2])
          <5> DEFINE c == Len(search.queue[2])
          <5>1. c \in Nat /\ l <= c /\ c <= l + 1
            BY <2>8, <2>16, <4>1
          <5> HIDE DEF c
          <5>2. c = l \/ c = l + 1
            BY <2>8, <5>1
          <5> QED
            BY <4>1, <5>2 DEF c
        <4> QED
          BY <2>15, <3>1, <4>1
      <3>3. ASSUME k = l
            PROVE  v \in next.visited /\ Past(doc, next, goal, v)
        <4>1. v \in search.visited /\ Past(doc, search, goal, v)
          BY <2>4, <2>6, <3>3 DEF BreadthInv, l
        <4> QED
          BY <2>1, <2>13, <4>1
      <3>4. ASSUME k = l + 1
            PROVE  v \in next.visited /\ Past(doc, next, goal, v)
        <4>1. k - 2 = l - 1
          BY <2>8, <3>4
        <4>2. v \in next.visited
          BY <2>1, <2>10, <4>1
        <4>3. ASSUME Waits(next, v) PROVE FALSE
          <5>1. PICK i \in 1..n : Last(next.queue[i]) = v
            BY <4>3 DEF Waits, n
          <5> DEFINE c == Len(next.queue[i])
          <5>2. k <= c /\ c <= k + 1
            BY <2>3, <2>17, <3>1 DEF LengthInv, n
          <5>3. c \in Nat
            BY <2>12 DEF WaysInv, Way, Leads, n
          <5>4. v \notin Near(doc, starts, c - 2)
            <6>1. Way(doc, starts, next.queue[i])
              BY <2>12 DEF WaysInv, n
            <6>2. c > 1
              <7> HIDE DEF k, c
              <7> QED
                BY <2>8, <3>4, <5>2, <5>3
            <6> QED
              BY <5>1, <6>1, <6>2 DEF Way
          <5> HIDE DEF c, k
          <5>5. c - 2 = l - 1 \/ c - 2 = l
            BY <2>8, <3>4, <5>2, <5>3
          <5>6. l - 1 \in Nat /\ (l - 1) + 1 = l
            BY <2>8
          <5>7. Near(doc, starts, l - 1) \subseteq Near(doc, starts, l)
            <6> DEFINE j == l - 1
            <6>1. j \in Nat /\ j + 1 = l
              BY <5>6
            <6> HIDE DEF j
            <6>2. Near(doc, starts, j) \subseteq Near(doc, starts, j + 1)
              <7>1. Near(doc, starts, j + 1) = Near(doc, starts, j) \cup Onto(doc.pairs, Near(doc, starts, j))
                BY <6>1, NearFacts
              <7> QED
                BY <7>1
            <6> QED
              BY <6>1, <6>2 DEF j
          <5>8. v \in Near(doc, starts, l - 1)
            BY <4>1
          <5> QED
            BY <5>4, <5>5, <5>7, <5>8
        <4> QED
          BY <2>14, <4>2, <4>3 DEF SeenInv
      <3> QED
        BY <3>2, <3>3, <3>4
    <2> QED
      BY <2>12, <2>14, <2>17, <2>18 DEF SearchInv, next
  <1> QED
    BY <1>1, <1>2

\* When the search has ended.
LEMMA SearchEnds ==
  ASSUME NEW doc, NEW starts, Searched(doc, starts), NEW goal
  PROVE  /\ SearchEnd(doc, starts, goal) \in Searches
         /\ SearchInv(doc, starts, SearchEnd(doc, starts, goal), goal)
         /\ Finished(SearchEnd(doc, starts, goal), goal)
  <1> DEFINE n == SearchLength(doc, starts)
  <1>1. doc.points \in Seq(Nat) /\ starts \in Seq(Nat)
    BY DEF Searched
  <1>2. n \in Nat
    BY <1>1 DEF SearchLength
  <1>3. PICK f \in [0..n -> Searches] : SearchesBy(f, doc, starts, goal)
    BY <1>1, SearchStepwise
  <1>4. /\ f[0] = SearchFrom(starts)
        /\ \A k \in 1..n : f[k] = SearchOn(doc, f[k - 1], goal)
        /\ SearchEnd(doc, starts, goal) = f[n]
    BY <1>3 DEF SearchesBy
  <1> HIDE DEF n
  <1> DEFINE S == {k \in 0..n : SearchInv(doc, starts, f[k], goal)}
  <1>5. 0 \in S
    <2>1. 0 \in 0..n
      BY <1>2
    <2> QED
      BY <1>1, <1>4, <2>1, SearchBegins
  <1>6. \A k \in 0..(n - 1) : k \in S => k + 1 \in S
    <2> SUFFICES ASSUME NEW k \in 0..(n - 1), k \in S PROVE k + 1 \in S
      OBVIOUS
    <2>1. k \in 0..n /\ k + 1 \in 1..n /\ k + 1 \in 0..n /\ (k + 1) - 1 = k
      BY <1>2
    <2>2. f[k] \in Searches /\ f[k + 1] = SearchOn(doc, f[k], goal)
      BY <1>3, <1>4, <2>1
    <2>3. SearchInv(doc, starts, f[k], goal)
      OBVIOUS
    <2>4. SearchInv(doc, starts, SearchOn(doc, f[k], goal), goal)
      BY <2>2, <2>3, SearchKeeps
    <2> QED
      BY <2>1, <2>2, <2>4
  <1> HIDE DEF S
  <1>7. \A k \in 0..n : k \in S
    BY <1>2, <1>5, <1>6, Induction
  <1>8. n \in 0..n
    BY <1>2
  <1>9. SearchInv(doc, starts, f[n], goal) /\ f[n] \in Searches
    BY <1>3, <1>7, <1>8 DEF S
  <1> QED
    BY <1>1, <1>4, <1>9, SearchFinishes

\* find_id_route: no route only if the goal cannot be reached, else a shortest one.
LEMMA RouteFacts ==
  ASSUME NEW doc, NEW starts, Searched(doc, starts), NEW goal
  PROVE  /\ FindRoute(doc, starts, goal) = <<>> =>
              \A k \in Nat : goal \notin Near(doc, starts, k)
         /\ FindRoute(doc, starts, goal) # <<>> =>
              Way(doc, starts, FindRoute(doc, starts, goal)) /\ Last(FindRoute(doc, starts, goal)) = goal
  <1> DEFINE search == SearchEnd(doc, starts, goal)
             q == search.queue
             route == FindRoute(doc, starts, goal)
  <1>1. search \in Searches /\ SearchInv(doc, starts, search, goal) /\ Finished(search, goal)
    BY SearchEnds
  <1>2. route = IF Contains(starts, goal) THEN <<goal>> ELSE IF q = <<>> THEN <<>> ELSE Head(q)
    BY DEF FindRoute
  <1> HIDE DEF search, route
  <1>3. starts \in Seq(Nat) /\ (Contains(starts, goal) => goal \in ToSet(starts))
        /\ (goal \in ToSet(starts) => Contains(starts, goal))
    BY DEF Searched, Contains, ToSet
  <1>4. CASE Contains(starts, goal)
    <2> DEFINE t == <<goal>>
    <2>1. goal \in Nat
      BY <1>3, <1>4 DEF ToSet
    <2>2. t \in Seq(Nat) /\ t # <<>> /\ t[1] = goal /\ Len(t) = 1
      BY <2>1
    <2>3. route = t
      BY <1>2, <1>4
    <2> HIDE DEF t
    <2>4. Last(t) = goal
      BY <2>2 DEF Last
    <2>5. Leads(doc, starts, t)
      BY <1>3, <1>4, <2>2 DEF Leads
    <2>6. goal \in Near(doc, starts, Len(t) - 1)
      BY <1>3, <1>4, <2>2, NearFacts
    <2>7. ~(Len(t) > 1)
      BY <2>2
    <2>8. Way(doc, starts, t)
      BY <2>4, <2>5, <2>6, <2>7 DEF Way
    <2> QED
      BY <2>2, <2>3, <2>4, <2>8 DEF route
  <1>5. CASE ~Contains(starts, goal) /\ q # <<>>
    <2>1. q \in Seq(Seq(Nat)) /\ route = Head(q)
      BY <1>1, <1>2, <1>5 DEF Searches
    <2>2. 1 \in 1..Len(q) /\ Head(q) = q[1]
      BY <1>5, <2>1
    <2>3. Way(doc, starts, q[1])
      BY <1>1, <2>2 DEF SearchInv, WaysInv
    <2>4. Last(route) = goal
      BY <1>1, <1>5, <2>1 DEF Finished
    <2>5. Way(doc, starts, route) /\ route # <<>>
      BY <2>1, <2>2, <2>3 DEF Way, Leads
    <2> QED
      BY <2>4, <2>5 DEF route
  <1>6. CASE ~Contains(starts, goal) /\ q = <<>>
    <2> DEFINE V == search.visited
    <2>1. \A v \in V : Past(doc, search, goal, v)
      <3>1. \A v : ~Waits(search, v)
        <4>1. Len(q) = 0
          BY <1>6
        <4> QED
          BY <4>1 DEF Waits
      <3> QED
        BY <1>1, <3>1 DEF SearchInv, SeenInv
    <2>2. ToSet(starts) \subseteq V
      BY <1>1 DEF SearchInv, WaysInv
    <2>3. Onto(doc.pairs, V) \subseteq V
      <3> SUFFICES ASSUME NEW r \in doc.pairs, r[1] \in V PROVE r[2] \in V
        BY DEF Onto
      <3>1. r = <<r[1], r[2]>>
        BY SearchedFacts
      <3> QED
        BY <2>1, <3>1 DEF Past
    <2>4. goal \notin V
      BY <2>1 DEF Past
    <2> HIDE DEF V
    <2>5. \A k \in Nat : Near(doc, starts, k) \subseteq V
      BY <2>2, <2>3, WithinClosed DEF Near
    <2>6. route = <<>>
      BY <1>2, <1>6
    <2> QED
      BY <2>4, <2>5, <2>6 DEF route
  <1> QED
    BY <1>4, <1>5, <1>6

-----------------------------------------------------------------------------
(* Travels. *)

\* What is stored is searched.
LEMMA FileSearched ==
  ASSUME sent \in Typed, NEW doc, StoredOf(doc), NEW starts \in Seq(Nat)
  PROVE  Searched(doc, starts)
  <1>1. doc.points = sent.points /\ doc.pairs = NormalPairs(sent)
    BY DEF StoredOf
  <1>2. SafePairs(doc.pairs, ToSet(doc.points))
    BY <1>1, NormalForm
  <1>3. doc.points \in Seq(Nat)
    BY <1>1 DEF Typed
  <1> QED
    BY <1>2, <1>3 DEF Searched

\* A travel is planned on what is stored, or on its like.
LEMMA PlannedFacts ==
  ASSUME StoreInv, file # NoFile
  PROVE  /\ sent \in Typed /\ StoredOf(file) /\ StoredOf(Planned) /\ Planned \in Typed
         /\ Ordered(Planned.nodes) = Planned.nodes
         /\ UniqueIds(sent.nodes) => Planned = file
  <1>1. sent \in Typed /\ StoredOf(file)
    BY SentIsDocument DEF StoreInv
  <1>2. StoredOf(Normalize(file)) /\ (UniqueIds(sent.nodes) => Normalize(file) = file)
    BY <1>1, StoredAgain
  <1>3. StoredOf(Planned)
    BY <1>1, <1>2, StoredAgain DEF Planned
  <1>4. UniqueIds(sent.nodes) => Planned = file
    BY <1>2 DEF Planned
  <1>5. PICK d \in Typed : Planned = Normalize(d)
    BY <1>3 DEF StoredOf
  <1>6. Planned \in Typed /\ Ordered(Planned.nodes) = Planned.nodes
    BY <1>5, NormalIsTyped, NormalForm, PairsAgain
  <1> QED
    BY <1>1, <1>3, <1>4, <1>6

LEMMA StartsType ==
  ASSUME file.points \in Seq(Nat), NEW starts \in Starts
  PROVE  starts \in Seq(Nat)
  <1>1. PICK S : starts = Those(file.points, S)
    BY DEF Starts
  <1> QED
    BY <1>1, ThoseType

\* A plan that has the points of a route.
Plans(plan, route) ==
    /\ Len(plan) = Len(route)
    /\ \E Y : plan \in Seq(Y)
    /\ \A i \in 1..Len(route) : /\ plan[i].point = route[i]
                                /\ [plan[i] EXCEPT !.angle = 0].point = route[i]

\* The plan of a travel follows its route.
LEMMA PlanFacts ==
  ASSUME NEW doc, NEW route \in Seq(Nat), NEW goal
  PROVE  Plans(TravelPlan(doc, route, goal), route)
  <1> DEFINE named == Named(doc.nodes, goal.id)
             at(p) == IF p = named.point THEN <<named>>
                 ELSE Those(doc.nodes, {n \in ToSet(doc.nodes) : n.point = p})
             entry(p) == IF at(p) = <<>> THEN 0 ELSE Entry(Last(at(p)))
             exit(p) == IF at(p) = <<>> THEN 0 ELSE Exit(Last(at(p)))
             onTheWay == Interpolate(exit(Head(route)), entry(goal.point), Len(route) - 2)
             angle(i) == IF i \in 2..(Len(route) - 1) THEN onTheWay[i - 1] ELSE entry(route[i])
             step(i) == [point |-> route[i], angle |-> angle(i)]
             n == Len(route)
             Y == {step(i) : i \in 1..n}
             plan == [i \in 1..n |-> step(i)]
  <1>1. n \in Nat /\ DOMAIN route = 1..n
    OBVIOUS
  <1>2. TravelPlan(doc, route, goal) = plan
    BY <1>1 DEF TravelPlan
  <1>3. \A i \in 1..n : step(i).point = route[i] /\ [step(i) EXCEPT !.angle = 0].point = route[i]
    OBVIOUS
  <1> HIDE DEF step, angle
  <1>4. plan \in [1..n -> Y]
    OBVIOUS
  <1>5. \A i \in 1..n : plan[i] = step(i)
    OBVIOUS
  <1> HIDE DEF Y, plan, n
  <1>6. plan \in Seq(Y) /\ Len(plan) = n
    BY <1>1, <1>4
  <1>7. \A i \in 1..n : plan[i].point = route[i] /\ [plan[i] EXCEPT !.angle = 0].point = route[i]
    BY <1>3, <1>5
  <1> QED
    BY <1>2, <1>6, <1>7 DEF n, Plans

\* Only the first move of a travel may lead to where the robot stands.
LEMMA HopsFacts ==
  ASSUME NEW doc, NEW route \in Seq(Nat), route # <<>>, NEW starts, NEW goal,
         \A i \in 2..Len(route) : route[i] \notin ToSet(starts), starts \in Seq(Nat)
  PROVE  LET hops == Hops(TravelPlan(doc, route, goal), starts, goal)
         IN \A i \in DOMAIN hops :
               /\ Contains(starts, hops[i].point) => i = 1
               /\ [hops[i] EXCEPT !.angle = 0].point = hops[i].point
  <1> DEFINE plan == TravelPlan(doc, route, goal)
             n == Len(route)
             hops == Hops(plan, starts, goal)
  <1>0. Plans(plan, route)
    BY PlanFacts
  <1>1. n \in Nat /\ n > 0 
    OBVIOUS
  <1> HIDE DEF plan
  <1>2. PICK Y : plan \in Seq(Y)
    BY <1>0 DEF Plans
  <1>3. /\ Len(plan) = n
        /\ \A i \in 1..n : plan[i].point = route[i] /\ [plan[i] EXCEPT !.angle = 0].point = route[i]
    BY <1>0 DEF Plans
  <1>c. \A p : Contains(starts, p) => p \in ToSet(starts)
    BY DEF Contains, ToSet
  <1> HIDE DEF plan, n
  <1> SUFFICES ASSUME NEW i \in DOMAIN hops
               PROVE  /\ Contains(starts, hops[i].point) => i = 1
                      /\ [hops[i] EXCEPT !.angle = 0].point = hops[i].point
    BY DEF plan
  <1>4. CASE Contains(starts, goal.point) /\ goal.type = "basic_scan"
    <2> DEFINE last == plan[n]
    <2>1. hops = <<last>>
      BY <1>3, <1>4 DEF Hops, Last
    <2>2. n \in 1..n
      BY <1>1
    <2>3. last.point = route[n] /\ [last EXCEPT !.angle = 0].point = route[n]
      BY <1>3, <2>2
    <2> HIDE DEF last, hops
    <2>4. i = 1 /\ hops[i] = last
      BY <2>1
    <2> QED
      BY <2>3, <2>4
  <1>5. CASE Contains(starts, goal.point) /\ goal.type # "basic_scan"
    <2>1. hops = <<>>
      BY <1>5 DEF Hops
    <2> HIDE DEF hops
    <2> QED
      BY <2>1
  <1>6. CASE ~Contains(starts, goal.point)
    <2>1. hops = Tail(plan)
      BY <1>6 DEF Hops
    <2> HIDE DEF hops
    <2>2. plan # <<>>
      BY <1>1, <1>2, <1>3
    <2>3. i \in 1..(n - 1) /\ hops[i] = plan[i + 1]
      BY <1>1, <1>2, <1>3, <2>1, <2>2
    <2>4. i + 1 \in 1..n /\ i + 1 \in 2..n
      BY <1>1, <2>3
    <2>5. hops[i].point = route[i + 1] /\ [hops[i] EXCEPT !.angle = 0].point = route[i + 1]
      BY <1>3, <2>3, <2>4
    <2>6. route[i + 1] \notin ToSet(starts)
      BY <2>4 DEF n
    <2> QED
      BY <1>c, <2>5, <2>6
  <1> QED
    BY <1>4, <1>5, <1>6

\* A travel is one that find_id_route plans.
TravelInv == file = NoFile => travel = NoTravel

LEMMA TravelShortest ==
  ASSUME StoreInv, file # NoFile, NEW kind, NEW goal, TravelTo(Planned, kind, goal), UNCHANGED file
  PROVE  TravelIsShortest'
  <1>1. PICK starts \in Starts :
           LET route == FindRoute(Planned, starts, goal.point)
               hops == Hops(TravelPlan(Planned, route, goal), starts, goal)
           IN travel' = [kind |-> kind, goal |-> goal, starts |-> starts, route |-> route,
                         hops |-> IF route = <<>> THEN <<>>
                                  ELSE [i \in DOMAIN hops |->
                                       IF TurnsToZero(kind, goal) THEN [hops[i] EXCEPT !.angle = 0] ELSE hops[i]]]
    BY DEF TravelTo
  <1> DEFINE route == FindRoute(Planned, starts, goal.point)
             hops == Hops(TravelPlan(Planned, route, goal), starts, goal)
             moves == IF route = <<>> THEN <<>>
                      ELSE [i \in DOMAIN hops |->
                               IF TurnsToZero(kind, goal) THEN [hops[i] EXCEPT !.angle = 0] ELSE hops[i]]
             near(k) == Within(file.pairs, ToSet(starts), k)
  <1>2. /\ travel'.goal = goal /\ travel'.starts = starts /\ travel'.route = route /\ travel'.hops = moves
    BY <1>1
  <1>p. Planned.points = file.points /\ Planned.pairs = file.pairs /\ file.points \in Seq(Nat)
    BY PlannedFacts DEF StoredOf, Typed
  <1>3. starts \in Seq(Nat) /\ Searched(Planned, starts)
    BY <1>p, PlannedFacts, StartsType, FileSearched
  <1> HIDE DEF route, hops
  <1>4. route = <<>> => goal.point \notin near(Len(file.points))
    <2>1. Len(file.points) \in Nat
      BY <1>p
    <2> QED
      BY <1>p, <1>3, <2>1, RouteFacts DEF route, Near
  <1>5. route # <<>> => Way(Planned, starts, route) /\ Last(route) = goal.point
    BY <1>3, RouteFacts DEF route
  <1>6. route # <<>> =>
           /\ goal.point \in near(Len(route) - 1)
           /\ Len(route) > 1 => goal.point \notin near(Len(route) - 2)
           /\ \A i \in 1..(Len(route) - 1) : <<route[i], route[i + 1]>> \in file.pairs
    BY <1>p, <1>5 DEF Way, Leads, Near
  <1>7. ASSUME route # <<>>, NEW i \in DOMAIN moves, Contains(starts, moves[i].point)
        PROVE  i = 1
    <2>1. route \in Seq(Nat) /\ \A k \in 2..Len(route) : route[k] \notin ToSet(starts)
      BY <1>5, <1>7 DEF Way, Leads
    <2>2. \A k \in DOMAIN hops :
               /\ Contains(starts, hops[k].point) => k = 1
               /\ [hops[k] EXCEPT !.angle = 0].point = hops[k].point
      BY <1>3, <1>7, <2>1, HopsFacts DEF hops
    <2>3. i \in DOMAIN hops
          /\ moves[i] = IF TurnsToZero(kind, goal) THEN [hops[i] EXCEPT !.angle = 0] ELSE hops[i]
      BY <1>7
    <2>4. moves[i].point = hops[i].point
      BY <2>2, <2>3
    <2> QED
      BY <1>7, <2>2, <2>3, <2>4
  <1> HIDE DEF moves
  <1>8. (IF travel.route = <<>> THEN travel.goal.point \notin Within(file.pairs, ToSet(travel.starts), Len(file.points))
         ELSE /\ travel.goal.point \in Within(file.pairs, ToSet(travel.starts), Len(travel.route) - 1)
              /\ Len(travel.route) > 1 =>
                    travel.goal.point \notin Within(file.pairs, ToSet(travel.starts), Len(travel.route) - 2)
              /\ \A i \in DOMAIN travel.hops : Contains(travel.starts, travel.hops[i].point) => i = 1
              /\ \A i \in 1..(Len(travel.route) - 1) : <<travel.route[i], travel.route[i + 1]>> \in file.pairs)'
    BY <1>2, <1>4, <1>6, <1>7
  <1> QED
    BY <1>8 DEF TravelIsShortest

\* A document that was stored is not the absence of one.
LEMMA StoredFile ==
  ASSUME NEW doc
  PROVE  Normalize(doc) # NoFile
  <1>1. DOMAIN Normalize(doc) = {"points", "nodes", "matrix", "pairs"}
    BY DEF Normalize
  <1>2. DOMAIN NoFile = {}
    BY DEF NoFile
  <1> QED
    BY <1>1, <1>2

\* A travel is a shortest way of safe moves, and refused only when there is none;
\* a move that leads to where the robot stands can only be the first.
THEOREM TravelIsShortestCorrect == Spec => []TravelIsShortest
  <1>1. Init => TravelInv /\ TravelIsShortest
    BY DEF Init, TravelInv, TravelIsShortest
  <1>2. StoreInv /\ StoreInv' /\ TravelInv /\ TravelIsShortest /\ [Next]_vars => TravelInv' /\ TravelIsShortest'
    <2> SUFFICES ASSUME StoreInv, StoreInv', TravelInv, TravelIsShortest, [Next]_vars
                 PROVE  TravelInv' /\ TravelIsShortest'
      OBVIOUS
    <2>1. CASE Save
      <3>1. travel = NoTravel /\ travel' = NoTravel
        BY <2>1 DEF Save, Stores, TravelInv
      <3> QED
        BY <3>1 DEF TravelInv, TravelIsShortest
    <2>2. CASE SaveAgain
      <3>1. file # NoFile /\ file' # NoFile /\ travel' = travel /\ sent' = sent
        BY <2>2, StoredFile DEF SaveAgain, Stores
      <3>2. StoredOf(file) /\ StoredOf(file)'
        BY <3>1 DEF StoreInv
      <3>3. file'.points = file.points /\ file'.pairs = file.pairs
        BY <3>1, <3>2 DEF StoredOf, NormalPairs
      <3> QED
        BY <3>1, <3>3 DEF TravelInv, TravelIsShortest
    <2>3. CASE StartupTravel
      BY <2>3, TravelShortest DEF StartupTravel, TravelInv
    <2>4. CASE HomeTravel
      BY <2>4, TravelShortest DEF HomeTravel, TravelInv
    <2>5. CASE MoveTo
      BY <2>5, TravelShortest DEF MoveTo, TravelInv
    <2>6. CASE UNCHANGED vars
      BY <2>6 DEF vars, TravelInv, TravelIsShortest
    <2> QED
      BY <2>1, <2>2, <2>3, <2>4, <2>5, <2>6 DEF Next
  <1> QED
    BY <1>1, <1>2, StoreInvariance, PTL DEF Spec

-----------------------------------------------------------------------------
(* The order of the nodes. *)

\* Each entry and the next one are a pair of R.
Chained(s, R) == \A i \in 1..(Len(s) - 1) : <<s[i], s[i + 1]>> \in R

\* A node and the one it is linked to.
Linked == {r \in Nodes \X Nodes : r[2].id = r[1].next}

\* A step of the walk goes along a link, or there is none to go along.
LEMMA FollowLinks ==
  ASSUME NEW M \in Seq(Nodes), NEW w \in Seq(Nodes), w # <<>>, Chained(w, Linked)
  PROVE  /\ Chained(Follow(M, w), Linked)
         /\ Follow(M, w) # w => Len(Follow(M, w)) = Len(w) + 1
         /\ Follow(M, w) = w => \A n \in ToSet(M) : n.id = Last(w).next => \E m \in ToSet(w) : m.id = n.id
  <1> DEFINE S == {n \in ToSet(M) : n.id = Last(w).next}
             next == Those(M, S)
             e == Last(next)
  <1>1. /\ next = <<>> => ToSet(M) \cap S = {}
        /\ next # <<>> => e \in ToSet(M) \cap S
    BY ThoseEnds
  <1>2. ToSet(M) \subseteq Nodes
    BY DEF ToSet
  <1>3. Follow(M, w) = IF next = <<>> \/ Last(w).next \in Ids(w) THEN w ELSE Append(w, e)
    BY DEF Follow
  <1> HIDE DEF next, e
  <1>4. CASE next = <<>>
    BY <1>1, <1>3, <1>4
  <1>5. CASE next # <<>> /\ Last(w).next \in Ids(w)
    <2>1. Follow(M, w) = w
      BY <1>3, <1>5
    <2>2. \E m \in ToSet(w) : m.id = Last(w).next
      BY <1>5 DEF Ids
    <2> QED
      BY <2>1, <2>2
  <1>6. CASE next # <<>> /\ Last(w).next \notin Ids(w)
    <2>1. Follow(M, w) = Append(w, e) /\ e \in Nodes /\ e.id = Last(w).next
      BY <1>1, <1>2, <1>3, <1>6
    <2> DEFINE v == Append(w, e)
               n == Len(w)
    <2>2. /\ Len(v) = n + 1 /\ v # w /\ n \in Nat /\ n > 0
          /\ \A i \in 1..n : v[i] = w[i]
          /\ v[n + 1] = e
      BY <2>1
    <2>3. w[n] \in Nodes /\ Last(w) = w[n]
      BY <2>2 DEF Last
    <2>4. <<w[n], e>> \in Linked
      BY <2>1, <2>3 DEF Linked
    <2>5. Chained(v, Linked)
      <3> HIDE DEF v, n
      <3> SUFFICES ASSUME NEW i \in 1..(Len(v) - 1) PROVE <<v[i], v[i + 1]>> \in Linked
        BY DEF Chained
      <3>1. i \in 1..n
        BY <2>2
      <3>2. CASE i = n
        BY <2>2, <2>4, <3>1, <3>2
      <3>3. CASE i # n
        <4>1. i \in 1..(n - 1) /\ i + 1 \in 1..n
          BY <2>2, <3>1, <3>3
        <4>2. <<w[i], w[i + 1]>> \in Linked
          BY <4>1 DEF Chained, n
        <4> QED
          BY <2>2, <3>1, <4>1, <4>2
      <3> QED
        BY <3>2, <3>3
    <2> QED
      BY <2>1, <2>2, <2>5
  <1> QED
    BY <1>4, <1>5, <1>6

\* The walk goes along links, and ends where it cannot go on.
LEMMA WalkLinks ==
  ASSUME NEW M \in Seq(Nodes), IdsTell(M), NEW first \in ToSet(M)
  PROVE  LET w == Walk(M, first)
         IN /\ Chained(w, Linked)
            /\ \A n \in ToSet(M) : n.id = Last(w).next => n \in ToSet(w)
  <1> DEFINE n == Len(M)
             w == Walk(M, first)
  <1>n. n \in Nat
    OBVIOUS
  <1>1. PICK f \in [0..n -> Seq(Nodes)] :
           /\ Walks(f, M, first, n) /\ w = f[n]
           /\ \A k \in 0..n : PartOfWalk(f[k], M, first, k)
    BY WalkChain
  <1>2. w \in Seq(Nodes) /\ w # <<>> /\ ToSet(w) \subseteq ToSet(M) /\ Follow(M, w) = w
    BY WalkFacts
  <1> HIDE DEF n, w
  <1> DEFINE K == {k \in 0..n : Chained(f[k], Linked)}
  <1>3. 0 \in K
    <2> DEFINE one == <<first>>
    <2>1. Len(one) = 1
      OBVIOUS
    <2>2. f[0] = one
      BY <1>1 DEF Walks
    <2> HIDE DEF one
    <2>3. Chained(one, Linked)
      BY <2>1 DEF Chained
    <2> QED
      BY <1>n, <2>2, <2>3
  <1>4. \A k \in 0..(n - 1) : k \in K => k + 1 \in K
    <2> SUFFICES ASSUME NEW k \in 0..(n - 1), k \in K PROVE k + 1 \in K
      OBVIOUS
    <2>1. k + 1 \in 1..n /\ k + 1 - 1 = k /\ k + 1 \in 0..n /\ k \in 0..n /\ k \in Nat
      BY <1>n
    <2>2. f[k + 1] = Follow(M, f[k])
      BY <1>1, <2>1 DEF Walks
    <2>3. f[k] \in Seq(Nodes) /\ f[k] # <<>> /\ Chained(f[k], Linked)
      BY <1>1, <2>1 DEF PartOfWalk
    <2>4. Chained(Follow(M, f[k]), Linked)
      BY <2>3, FollowLinks
    <2> QED
      BY <2>1, <2>2, <2>4
  <1>5. n \in K
    <2> HIDE DEF K
    <2>1. \A k \in 0..n : k \in K
      BY <1>n, <1>3, <1>4, Induction
    <2> QED
      BY <1>n, <2>1
  <1>6. Chained(w, Linked)
    BY <1>1, <1>5
  <1>7. \A k \in ToSet(M) : k.id = Last(w).next => \E m \in ToSet(w) : m.id = k.id
    BY <1>2, <1>6, FollowLinks
  <1>8. \A k \in ToSet(M) : k.id = Last(w).next => k \in ToSet(w)
    BY <1>2, <1>7 DEF IdsTell
  <1> QED
    BY <1>6, <1>8 DEF w

\* The entries of s that are in S come in r in the order they have in s.
InOrder(s, S, r) ==
    \A i, j \in 1..Len(s) : i < j /\ s[i] \in S /\ s[j] \in S =>
        \E a, b \in 1..Len(r) : a < b /\ r[a] = s[i] /\ r[b] = s[j]

\* Entries that are kept keep their order.
LEMMA ThoseOrder ==
  ASSUME NEW X, NEW s \in Seq(X), NEW S
  PROVE  InOrder(s, S, Those(s, S))
  <1> USE DEF InOrder
  <1> DEFINE Keeping(t) == InOrder(t, S, Those(t, S))
             Q == {t \in Seq(X) : Keeping(t)}
  <1>1. <<>> \in Q
    OBVIOUS
  <1>2. \A t \in Seq(X) : \A e \in X : t \in Q => Append(t, e) \in Q
    <2> SUFFICES ASSUME NEW t \in Seq(X), NEW e \in X, t \in Q PROVE Append(t, e) \in Q
      OBVIOUS
    <2> DEFINE r == Those(t, S)
               u == Append(t, e)
               n == Len(t)
               v == Those(u, S)
    <2>1. r \in Seq(X)
      BY ThoseType
    <2>2. v = IF e \in S THEN Append(r, e) ELSE r
      BY ThoseAppend
    <2>3. ToSet(r) = ToSet(t) \cap S
      BY ThoseRange
    <2>4. /\ u \in Seq(X) /\ n \in Nat /\ Len(u) = n + 1 /\ u[n + 1] = e
          /\ \A k \in 1..n : u[k] = t[k]
      OBVIOUS
    <2>5. \A i, j \in 1..n : i < j /\ t[i] \in S /\ t[j] \in S =>
             \E a, b \in 1..Len(r) : a < b /\ r[a] = t[i] /\ r[b] = t[j]
      OBVIOUS
    <2>t. \A i \in 1..n : t[i] \in ToSet(t)
      BY DEF ToSet
    <2> HIDE DEF r, u, v
    <2>6. /\ Len(r) \in Nat
          /\ \A a \in 1..Len(r) : a \in 1..Len(v) /\ v[a] = r[a]
          /\ e \in S => Len(v) = Len(r) + 1 /\ v[Len(r) + 1] = e
      BY <2>1, <2>2
    <2>7. ASSUME NEW i \in 1..Len(u), NEW j \in 1..Len(u), i < j, u[i] \in S, u[j] \in S
          PROVE  \E a, b \in 1..Len(v) : a < b /\ v[a] = u[i] /\ v[b] = u[j]
      <3>1. i \in 1..n /\ u[i] = t[i]
        <4> HIDE DEF n
        <4>1. i \in 1..n
          BY <2>4, <2>7
        <4> QED
          BY <2>4, <4>1
      <3>2. CASE j \in 1..n
        <4>1. t[i] \in S /\ t[j] \in S /\ u[j] = t[j]
          BY <2>4, <2>7, <3>1, <3>2
        <4>2. PICK a \in 1..Len(r), b \in 1..Len(r) : a < b /\ r[a] = t[i] /\ r[b] = t[j]
          BY <2>5, <2>7, <3>1, <3>2, <4>1
        <4>3. a \in 1..Len(v) /\ b \in 1..Len(v) /\ v[a] = r[a] /\ v[b] = r[b]
          BY <2>6
        <4> QED
          BY <3>1, <4>1, <4>2, <4>3
      <3>3. CASE j \notin 1..n
        <4>1. j = n + 1 /\ u[j] = e /\ e \in S
          <5> HIDE DEF n
          <5>1. j = n + 1
            BY <2>4, <3>3
          <5> QED
            BY <2>4, <2>7, <5>1
        <4>2. t[i] \in ToSet(r)
          BY <2>3, <2>7, <2>t, <3>1
        <4>3. PICK a \in 1..Len(r) : r[a] = t[i]
          BY <2>1, <4>2 DEF ToSet
        <4> DEFINE b == Len(r) + 1
        <4>4. b \in 1..Len(v) /\ a < b /\ v[b] = e /\ a \in 1..Len(v) /\ v[a] = r[a]
          BY <2>6, <4>1
        <4> HIDE DEF b
        <4> QED
          BY <3>1, <4>1, <4>3, <4>4
      <3> QED
        BY <3>2, <3>3
    <2>8. Keeping(u)
      BY <2>7 DEF v
    <2> HIDE DEF Keeping
    <2> QED
      BY <2>4, <2>8 DEF u
  <1>3. s \in Q
    <2> HIDE DEF Q
    <2> QED
      BY <1>1, <1>2, SequenceInduction
  <1> QED
    BY <1>3

\* Links as pairs of ids, the nodes that they lead to from the first home.
LinkPairs(links, M) ==
    /\ \A m, n \in ToSet(M) : (<<m.id, n.id>> \in links => m.next = n.id) /\ (m.next = n.id => <<m.id, n.id>> \in links)
    /\ \A r \in links : r = <<r[1], r[2]>> /\ \E m \in ToSet(M) : r[1] = m.id
LedTo(links, M) ==
    IF Those(M, IsHome(M)) = <<>> THEN {}
    ELSE Within(links, {Head(Those(M, IsHome(M))).id}, Len(M))

\* The points within one more step.
LEMMA WithinStep ==
  ASSUME NEW cells, NEW from, NEW k \in Nat, NEW j, j = k + 1
  PROVE  Within(cells, from, j) = Within(cells, from, k) \cup Onto(cells, Within(cells, from, k))
  BY WithinFacts

\* A point is within any number of steps of itself.
LEMMA WithinBegins ==
  ASSUME NEW cells, NEW x, NEW n \in Nat
  PROVE  x \in Within(cells, {x}, n)
  <1> DEFINE K == {k \in 0..n : x \in Within(cells, {x}, k)}
  <1>1. 0 \in K
    BY WithinFacts
  <1>2. \A k \in 0..(n - 1) : k \in K => k + 1 \in K
    <2> SUFFICES ASSUME NEW k \in 0..(n - 1), k \in K PROVE k + 1 \in K
      OBVIOUS
    <2>1. Within(cells, {x}, k + 1) = Within(cells, {x}, k) \cup Onto(cells, Within(cells, {x}, k))
      BY WithinFacts
    <2> QED
      BY <2>1
  <1>3. \A k \in 0..n : k \in K
    <2> HIDE DEF K
    <2> QED
      BY <1>1, <1>2, Induction
  <1> QED
    BY <1>3

\* What links lead to is what is walked.
LEMMA LedIsWalked ==
  ASSUME NEW M \in Seq(Nodes), UniqueIds(M), NEW links, LinkPairs(links, M), Those(M, IsHome(M)) # <<>>
  PROVE  LET w == Walk(M, Head(Those(M, IsHome(M))))
         IN \A n \in ToSet(M) : (n.id \in LedTo(links, M) => n \in ToSet(w)) /\ (n \in ToSet(w) => n.id \in LedTo(links, M))
  <1> DEFINE h == Head(Those(M, IsHome(M)))
             w == Walk(M, h)
             l == Len(M)
             near(k) == Within(links, {h.id}, k)
  <1>1. IsInjective(M) /\ IdsTell(M)
    BY UniqueForms
  <1>2. h \in ToSet(M)
    BY ThoseEnds
  <1>3. LedTo(links, M) = near(l) /\ l \in Nat
    BY DEF LedTo
  <1> HIDE DEF h
  <1>4. /\ w \in Seq(Nodes) /\ w # <<>> /\ w[1] = h /\ IsInjective(w) /\ ToSet(w) \subseteq ToSet(M)
    BY <1>2, WalkFacts
  <1>5. Chained(w, Linked) /\ \A n \in ToSet(M) : n.id = Last(w).next => n \in ToSet(w)
    BY <1>1, <1>2, WalkLinks
  <1> HIDE DEF w, l
  <1> DEFINE c == Len(w)
  <1>6. c \in Nat /\ c > 0 /\ DOMAIN w = 1..c /\ \A i \in 1..c : w[i] \in ToSet(w) /\ w[i] \in ToSet(M)
    <2>1. c \in Nat /\ c > 0 /\ DOMAIN w = 1..c
      BY <1>4
    <2> HIDE DEF c
    <2>2. \A i \in 1..c : w[i] \in ToSet(w)
      BY <2>1 DEF ToSet
    <2> QED
      BY <1>4, <2>1, <2>2
  <1>7. \A i \in 1..(c - 1) : w[i + 1].id = w[i].next
    BY <1>5 DEF Chained, Linked
  <1>8. Last(w) = w[c]
    BY DEF Last
  <1> HIDE DEF c
  <1>9. ASSUME NEW m \in ToSet(w), NEW n \in ToSet(M), n.id = m.next PROVE n \in ToSet(w)
    <2>1. PICK i \in 1..c : m = w[i]
      BY <1>6 DEF ToSet
    <2>2. CASE i = c
      BY <1>5, <1>8, <1>9, <2>1, <2>2
    <2>3. CASE i # c
      <3>1. i \in 1..(c - 1) /\ i + 1 \in 1..c
        BY <1>6, <2>3
      <3>2. w[i + 1].id = n.id /\ w[i + 1] \in ToSet(M) /\ w[i + 1] \in ToSet(w)
        BY <1>6, <1>7, <1>9, <2>1, <3>1
      <3>3. n = w[i + 1]
        BY <1>1, <3>2 DEF IdsTell
      <3> QED
        BY <3>2, <3>3
    <2> QED
      BY <2>2, <2>3
  <1>10. ASSUME NEW n \in ToSet(M), n.id \in near(l) PROVE n \in ToSet(w)
    <2> DEFINE U == {h.id} \cup {r[2] : r \in links}
               S == {x \in U : \A k \in ToSet(M) : k.id = x => k \in ToSet(w)}
    <2>1. h \in ToSet(w)
      <3>1. 1 \in 1..c
        BY <1>6
      <3> QED
        BY <1>4, <1>6, <3>1
    <2>2. {h.id} \subseteq S
      BY <1>1, <1>2, <2>1 DEF IdsTell
    <2>3. Onto(links, S) \subseteq S
      <3> SUFFICES ASSUME NEW r \in links, r[1] \in S PROVE r[2] \in S
        BY DEF Onto
      <3>1. r = <<r[1], r[2]>> /\ \E m \in ToSet(M) : r[1] = m.id
        BY DEF LinkPairs
      <3>2. PICK m \in ToSet(M) : r[1] = m.id
        BY <3>1
      <3>3. m \in ToSet(w)
        BY <3>2
      <3>4. r[2] \in U
        OBVIOUS
      <3>5. ASSUME NEW k \in ToSet(M), k.id = r[2] PROVE k \in ToSet(w)
        <4>1. <<m.id, k.id>> \in links
          BY <3>1, <3>2, <3>5
        <4>2. m.next = k.id
          BY <4>1 DEF LinkPairs
        <4> QED
          BY <1>9, <3>3, <4>2
      <3> QED
        BY <3>4, <3>5
    <2> HIDE DEF S, U
    <2>4. near(l) \subseteq S
      BY <1>3, <2>2, <2>3, WithinClosed
    <2> QED
      BY <1>10, <2>4 DEF S
  <1>11. ASSUME NEW n \in ToSet(M), n \in ToSet(w) PROVE n.id \in near(l)
    <2> DEFINE d == c - 1
               K == {k \in 0..d : \A j \in k..l : w[k + 1].id \in near(j)}
    <2>1. d \in Nat /\ c = d + 1
      BY <1>6
    <2> HIDE DEF d
    <2>2. 0 \in K
      <3>1. \A j \in 0..l : h.id \in near(j)
        BY <1>3, WithinBegins
      <3>2. 0 \in 0..d /\ w[0 + 1] = h
        BY <1>4, <2>1
      <3> QED
        BY <3>1, <3>2
    <2>3. \A k \in 0..(d - 1) : k \in K => k + 1 \in K
      <3> SUFFICES ASSUME NEW k \in 0..(d - 1), k \in K PROVE k + 1 \in K
        OBVIOUS
      <3>0. k + 1 \in 0..d
        BY <2>1
      <3> SUFFICES ASSUME NEW j \in (k + 1)..l PROVE w[(k + 1) + 1].id \in near(j)
        BY <3>0
      <3>1. k + 1 \in 1..(c - 1) /\ k + 1 \in 1..c /\ (k + 1) + 1 \in 1..c
            /\ j - 1 \in k..l /\ j - 1 \in Nat /\ (j - 1) + 1 = j
        BY <1>3, <2>1
      <3> DEFINE a == w[k + 1]
                 b == w[(k + 1) + 1]
                 i == j - 1
      <3>2. a.id \in near(i)
        BY <3>1
      <3>3. a \in ToSet(M) /\ b \in ToSet(M) /\ b.id = a.next
        BY <1>6, <1>7, <3>1
      <3>i. i \in Nat /\ i + 1 = j
        BY <3>1
      <3> HIDE DEF a, b, i
      <3>4. <<a.id, b.id>> \in links
        BY <3>3 DEF LinkPairs
      <3>5. b.id \in Onto(links, near(i))
        <4> DEFINE r == <<a.id, b.id>>
        <4>1. r \in links /\ r[1] \in near(i) /\ r[2] = b.id
          BY <3>2, <3>4
        <4> HIDE DEF r
        <4> QED
          BY <4>1 DEF Onto
      <3>6. Within(links, {h.id}, j) = Within(links, {h.id}, i) \cup Onto(links, Within(links, {h.id}, i))
        BY <3>i, WithinStep
      <3>7. near(j) = near(i) \cup Onto(links, near(i))
        BY <3>6
      <3> QED
        BY <3>5, <3>7 DEF b
    <2>4. \A k \in 0..d : k \in K
      <3> HIDE DEF K
      <3> QED
        BY <2>1, <2>2, <2>3, Induction
    <2>5. PICK i \in 1..c : n = w[i]
      BY <1>6, <1>11 DEF ToSet
    <2>6. c <= l
      <3>1. /\ IsFiniteSet(ToSet(M)) /\ Cardinality(ToSet(M)) = l
            /\ Cardinality(ToSet(w)) = c
        BY <1>1, <1>4, InjectiveCount DEF l, c
      <3> QED
        BY <1>4, <3>1, FS_Subset
    <2>7. i - 1 \in 0..d /\ (i - 1) + 1 = i /\ l \in (i - 1)..l
      BY <1>3, <1>6, <2>1, <2>6
    <2>8. w[(i - 1) + 1].id \in near(l)
      BY <2>4, <2>7
    <2> QED
      BY <2>5, <2>7, <2>8
  <1> QED
    BY <1>3, <1>10, <1>11 DEF w, h

\* Where ordered_nodes puts the nodes: each node that links lead to right before the
\* one it is linked to, if that comes later; what they do not lead to last, and in the
\* order it had.
LEMMA OrderedPlaces ==
  ASSUME NEW M \in Seq(Nodes), UniqueIds(M), NEW links, LinkPairs(links, M)
  PROVE  LET N == Ordered(M)
             led == LedTo(links, M)
         IN /\ \A a, b \in 1..Len(N) : N[a].id \in led /\ N[a].next = N[b].id /\ a < b => b = a + 1
            /\ \A i, j \in 1..Len(M), a, b \in 1..Len(N) :
                  N[a] = M[i] /\ N[b] = M[j] /\ M[j].id \notin led /\ (i < j \/ M[i].id \in led) => a <= b
  <1> DEFINE N == Ordered(M)
             led == LedTo(links, M)
             homes == Those(M, IsHome(M))
  <1>1. IsInjective(M) /\ IdsTell(M)
    BY UniqueForms
  <1>2. N \in Seq(Nodes) /\ IsInjective(N) /\ ToSet(N) = ToSet(M) /\ Len(N) = Len(M)
    BY <1>1, OrderedFacts
  <1>3. /\ \A i \in 1..Len(M) : M[i] \in ToSet(M)
        /\ \A i \in 1..Len(N) : N[i] \in ToSet(M)
        /\ \A a, b \in 1..Len(N) : N[a] = N[b] => a = b
    <2>1. \A i \in 1..Len(M) : M[i] \in ToSet(M)
      BY DEF ToSet
    <2> HIDE DEF N
    <2>2. DOMAIN N = 1..Len(N)
      BY <1>2
    <2>3. \A i \in 1..Len(N) : N[i] \in ToSet(N)
      BY <2>2 DEF ToSet
    <2>4. \A a, b \in 1..Len(N) : N[a] = N[b] => a = b
      BY <1>2, <2>2 DEF IsInjective
    <2> QED
      BY <1>2, <2>1, <2>3, <2>4
  <1>4. CASE homes = <<>>
    <2>1. N = M /\ led = {}
      BY <1>4, OrderedForm DEF LedTo
    <2> HIDE DEF N, led
    <2>2. ASSUME NEW i \in 1..Len(M), NEW j \in 1..Len(M), NEW a \in 1..Len(N), NEW b \in 1..Len(N),
                 N[a] = M[i], N[b] = M[j], i < j \/ M[i].id \in led
          PROVE  a <= b
      <3>1. a = i /\ b = j /\ i < j
        BY <1>2, <1>3, <2>1, <2>2
      <3> QED
        BY <3>1
    <2> QED
      BY <2>1, <2>2 DEF N, led
  <1>5. CASE homes # <<>>
    <2> DEFINE w == Walk(M, Head(homes))
               r == Those(M, ToSet(M) \ ToSet(w))
    <2>2. Head(homes) \in ToSet(M)
      BY <1>5, ThoseEnds
    <2>3. w \in Seq(Nodes) /\ w # <<>> /\ ToSet(w) \subseteq ToSet(M)
      BY <2>2, WalkFacts
    <2>1. N = w \o r
      <3>1. N = w \o Those(M, Elsewhere(M, w))
        BY <1>5, OrderedForm
      <3>2. Elsewhere(M, w) = ToSet(M) \ ToSet(w)
        BY <1>1, <2>3, ElsewhereFacts
      <3> QED
        BY <3>1, <3>2
    <2>4. Chained(w, Linked) /\ \A n \in ToSet(M) : n.id = Last(w).next => n \in ToSet(w)
      BY <1>1, <2>2, WalkLinks
    <2>5. \A n \in ToSet(M) : (n.id \in led => n \in ToSet(w)) /\ (n \in ToSet(w) => n.id \in led)
      BY <1>5, LedIsWalked
    <2> HIDE DEF homes, w, led
    <2>6. r \in Seq(Nodes) /\ ToSet(r) = ToSet(M) \cap (ToSet(M) \ ToSet(w))
      BY ThoseType, ThoseRange
    <2>7. InOrder(M, ToSet(M) \ ToSet(w), r)
      BY ThoseOrder
    <2> HIDE DEF r
    <2> DEFINE c == Len(w)
               d == Len(r)
    <2>8. c \in Nat /\ d \in Nat /\ c > 0 /\ DOMAIN w = 1..c /\ DOMAIN r = 1..d
      BY <2>3, <2>6
    <2>9. /\ Len(N) = c + d
          /\ \A i \in 1..c : N[i] = w[i]
          /\ \A i \in (c + 1)..(c + d) : N[i] = r[i - c]
      BY <2>1, <2>3, <2>6, ConcatEntries
    <2>10. \A i \in 1..(c - 1) : w[i + 1].id = w[i].next
      BY <2>4 DEF Chained, Linked
    <2>11. Last(w) = w[c]
      BY DEF Last
    <2>12. \A i \in 1..c : w[i] \in ToSet(w)
      BY <2>8 DEF ToSet
    <2> HIDE DEF N
    <2>13. ASSUME NEW a \in 1..Len(N), N[a].id \in led PROVE a \in 1..c
      <3> SUFFICES ASSUME a \notin 1..c PROVE FALSE
        OBVIOUS
      <3>1. a \in (c + 1)..(c + d) /\ a - c \in 1..d
        <4> HIDE DEF c, d
        <4> QED
          BY <2>8, <2>9
      <3>2. N[a] \in ToSet(r)
        BY <2>8, <2>9, <3>1 DEF ToSet
      <3>3. N[a] \notin ToSet(w)
        BY <2>6, <3>2
      <3> QED
        BY <1>3, <2>5, <2>13, <3>3
    <2>14. ASSUME NEW b \in 1..Len(N), N[b].id \notin led PROVE b \in (c + 1)..(c + d)
      <3> SUFFICES ASSUME b \in 1..c PROVE FALSE
        <4> HIDE DEF c, d
        <4> QED
          BY <2>8, <2>9
      <3>1. N[b] \in ToSet(w)
        BY <2>9, <2>12
      <3> QED
        BY <1>3, <2>5, <2>14, <3>1
    <2>15. ASSUME NEW a \in 1..Len(N), NEW b \in 1..Len(N), N[a].id \in led, N[a].next = N[b].id, a < b
           PROVE  b = a + 1
      <3>1. a \in 1..c /\ N[a] = w[a]
        BY <2>9, <2>13, <2>15
      <3>2. CASE a = c
        <4>1. N[b] \in ToSet(w)
          BY <1>3, <2>4, <2>11, <2>15, <3>1, <3>2
        <4>2. N[b].id \in led
          BY <1>3, <2>5, <4>1
        <4>3. b \in 1..c
          BY <2>13, <4>2
        <4> HIDE DEF c
        <4> QED
          BY <2>8, <2>15, <3>2, <4>3
      <3>3. CASE a # c
        <4>1. a \in 1..(c - 1) /\ a + 1 \in 1..c /\ a + 1 \in 1..Len(N)
          <5> HIDE DEF c, d
          <5> QED
            BY <2>8, <2>9, <3>1, <3>3
        <4>2. N[a + 1] = w[a + 1] /\ w[a + 1].id = N[b].id
          BY <2>9, <2>10, <2>15, <3>1, <4>1
        <4>3. N[a + 1] = N[b]
          BY <1>1, <1>3, <4>1, <4>2 DEF IdsTell
        <4> QED
          BY <1>3, <4>1, <4>3
      <3> QED
        BY <3>2, <3>3
    <2>16. ASSUME NEW i \in 1..Len(M), NEW j \in 1..Len(M), NEW a \in 1..Len(N), NEW b \in 1..Len(N),
                  N[a] = M[i], N[b] = M[j], M[j].id \notin led, i < j \/ M[i].id \in led
           PROVE  a <= b
      <3>1. b \in (c + 1)..(c + d)
        BY <2>14, <2>16
      <3>2. CASE M[i].id \in led
        <4>1. a \in 1..c
          BY <2>13, <2>16, <3>2
        <4> HIDE DEF c, d
        <4> QED
          BY <2>8, <3>1, <4>1
      <3>3. CASE M[i].id \notin led
        <4>1. i < j /\ M[i] \in ToSet(M) \ ToSet(w) /\ M[j] \in ToSet(M) \ ToSet(w)
          BY <1>3, <2>5, <2>16, <3>3
        <4>2. PICK p \in 1..d, q \in 1..d : p < q /\ r[p] = M[i] /\ r[q] = M[j]
          BY <2>7, <4>1 DEF InOrder
        <4> DEFINE x == c + p
                   y == c + q
        <4>3. x \in (c + 1)..(c + d) /\ y \in (c + 1)..(c + d) /\ x - c = p /\ y - c = q
              /\ x \in 1..Len(N) /\ y \in 1..Len(N) /\ x < y
          <5> HIDE DEF c, d
          <5> QED
            BY <2>8, <2>9, <4>2
        <4>4. N[x] = r[x - c] /\ N[y] = r[y - c]
          BY <2>9, <4>3
        <4>5. N[x] = N[a] /\ N[y] = N[b]
          BY <2>16, <4>2, <4>3, <4>4
        <4>6. x = a /\ y = b
          BY <1>3, <4>3, <4>5
        <4> HIDE DEF x, y
        <4> QED
          BY <4>3, <4>6
      <3> QED
        BY <3>2, <3>3
    <2> QED
      BY <2>15, <2>16 DEF N, led
  <1> QED
    BY <1>4, <1>5

\* The links the client's nodes have when they are ordered.
WantedLinks ==
    IF Wanted = sent.nodes /\ HasLinks(Wanted) THEN {<<n.id, n.next>> : n \in ToSet(Wanted)}
    ELSE {<<Wanted[i].id, Wanted[i + 1].id>> : i \in 1..(Len(Wanted) - 1)}

\* Two nodes differ at most in what they are linked to.
Alike(m, n) ==
    /\ m.id = n.id /\ m.type = n.type /\ m.point = n.point /\ m.mode = n.mode
    /\ m.start = n.start /\ m.by = n.by /\ m.count = n.count

\* What is stripped is what was wanted but for the links.
SameNodes(L, W) ==
    /\ L \in Seq(Nodes) /\ W \in Seq(Nodes) /\ Len(L) = Len(W) /\ UniqueIds(L) /\ UniqueIds(W)
    /\ \A i \in 1..Len(W) : Alike(L[i], W[i])

\* Linking a list changes nothing but the links.
LEMMA ChainEntries ==
  ASSUME NEW W \in Seq(Nodes)
  PROVE  /\ LinkChain(W) \in Seq(Nodes) /\ Len(LinkChain(W)) = Len(W)
         /\ \A i \in 1..Len(W) : /\ Alike(LinkChain(W)[i], W[i])
                                 /\ LinkChain(W)[i].next = IF i = Len(W) THEN 0 ELSE W[i + 1].id
  <1> DEFINE to(i) == IF i = Len(W) THEN 0 ELSE W[i + 1].id
             of(i) == IF i = 1 THEN 0 ELSE W[i - 1].id
             C == LinkChain(W)
  <1>1. C = [i \in 1..Len(W) |-> [W[i] EXCEPT !.next = to(i), !.prev = of(i)]]
    BY DEF LinkChain
  <1>2. C \in Seq(Nodes) /\ Len(C) = Len(W)
    BY LinkFacts
  <1>3. \A i \in 1..Len(W) : W[i] \in Nodes
    OBVIOUS
  <1> HIDE DEF C
  <1>4. ASSUME NEW i \in 1..Len(W)
        PROVE  Alike(C[i], W[i]) /\ C[i].next = to(i)
    <2>1. C[i] = [W[i] EXCEPT !.next = to(i), !.prev = of(i)] /\ W[i] \in Nodes
      BY <1>1, <1>3
    <2> HIDE DEF to, of
    <2> QED
      BY <2>1 DEF Nodes, Alike
  <1> QED
    BY <1>2, <1>4 DEF C

\* Stripping leaves the nodes the client wants, linked anew unless they were all there.
LEMMA StrippedIsWanted ==
  ASSUME IsDocument(sent)
  PROVE  /\ SameNodes(Strip(sent.nodes), Wanted)
         /\ Strip(sent.nodes) = IF Wanted = sent.nodes /\ HasLinks(Wanted) THEN Wanted ELSE LinkChain(Wanted)
  <1> DEFINE W == Wanted
             L == Strip(sent.nodes)
  <1>1. sent.nodes \in Seq(Nodes) /\ UniqueIds(sent.nodes)
    BY DEF IsDocument, Typed
  <1>2. W = Those(sent.nodes, Stays(sent.nodes))
    BY DEF Wanted, Stays
  <1>3. W \in Seq(Nodes)
    BY <1>1, <1>2, ThoseType
  <1>4. UniqueIds(L) /\ L \in Seq(Nodes)
    BY <1>1, StripFacts DEF Stripped
  <1>5. L = IF W # sent.nodes \/ ~HasLinks(W) THEN LinkChain(W) ELSE W
    BY <1>2, StripForm
  <1> HIDE DEF W, L
  <1>6. /\ Len(L) = Len(W)
        /\ \A i \in 1..Len(W) : Alike(L[i], W[i])
    <2>1. CASE L = LinkChain(W)
      BY <1>3, <2>1, ChainEntries
    <2>2. CASE L = W
      <3>1. \A i \in 1..Len(W) : Alike(W[i], W[i])
        BY DEF Alike
      <3>2. \A i \in 1..Len(W) : Alike(L[i], W[i])
        BY <2>2, <3>1
      <3>3. Len(L) = Len(W)
        BY <2>2
      <3> QED
        BY <3>2, <3>3
    <2> QED
      BY <1>5, <2>1, <2>2
  <1>7. UniqueIds(W)
    BY <1>3, <1>4, <1>6 DEF UniqueIds, Alike
  <1> QED
    BY <1>3, <1>4, <1>5, <1>6, <1>7 DEF SameNodes, W, L

\* The links the property speaks of are those of the stripped nodes.
LEMMA WantedLinksPair ==
  ASSUME IsDocument(sent)
  PROVE  LinkPairs(WantedLinks, Strip(sent.nodes))
  <1> DEFINE W == Wanted
             L == Strip(sent.nodes)
             links == WantedLinks
             l == Len(W)
  <1>1. SameNodes(L, W)
    BY StrippedIsWanted
  <1>2. L = IF W = sent.nodes /\ HasLinks(W) THEN W ELSE LinkChain(W)
    BY StrippedIsWanted
  <1>3. links = IF W = sent.nodes /\ HasLinks(W) THEN {<<n.id, n.next>> : n \in ToSet(W)}
                ELSE {<<W[i].id, W[i + 1].id>> : i \in 1..(l - 1)}
    BY DEF WantedLinks
  <1> HIDE DEF W, L, links
  <1>4. /\ l \in Nat /\ W \in Seq(Nodes) /\ L \in Seq(Nodes) /\ Len(L) = l
        /\ DOMAIN W = 1..l /\ DOMAIN L = 1..l
        /\ \A i \in 1..l : L[i].id = W[i].id /\ W[i] \in ToSet(W) /\ L[i] \in ToSet(L) /\ W[i].id # 0
        /\ \A i, j \in 1..l : W[i].id = W[j].id => i = j
    <2>1. /\ l \in Nat /\ W \in Seq(Nodes) /\ L \in Seq(Nodes) /\ Len(L) = l
          /\ \A i \in 1..l : L[i].id = W[i].id
      BY <1>1 DEF SameNodes, Alike
    <2>2. DOMAIN W = 1..l /\ DOMAIN L = 1..l
      BY <2>1
    <2>3. \A i \in 1..l : W[i] \in ToSet(W) /\ L[i] \in ToSet(L)
      BY <2>2 DEF ToSet
    <2>4. \A i, j \in 1..l : W[i].id = W[j].id => i = j
      BY <1>1, <2>2 DEF SameNodes, UniqueIds
    <2>5. \A i \in 1..l : W[i].id # 0
      <3>1. \A i \in 1..l : W[i] \in Nodes
        BY <2>1
      <3> QED
        BY <3>1 DEF Nodes
    <2> QED
      BY <2>1, <2>2, <2>3, <2>4, <2>5
  <1>5. CASE L = W /\ links = {<<n.id, n.next>> : n \in ToSet(W)}
    <2>1. IdsTell(W)
      BY <1>1, <1>4, UniqueForms DEF SameNodes
    <2>2. ASSUME NEW m \in ToSet(W), NEW n \in ToSet(W), <<m.id, n.id>> \in links PROVE m.next = n.id
      <3>1. PICK k \in ToSet(W) : <<m.id, n.id>> = <<k.id, k.next>>
        BY <1>5, <2>2
      <3>2. k = m
        BY <2>1, <3>1 DEF IdsTell
      <3> QED
        BY <3>1, <3>2
    <2>3. ASSUME NEW m \in ToSet(W), NEW n \in ToSet(W), m.next = n.id PROVE <<m.id, n.id>> \in links
      BY <1>5, <2>3
    <2>4. ASSUME NEW r \in links PROVE r = <<r[1], r[2]>> /\ \E m \in ToSet(W) : r[1] = m.id
      <3>1. PICK k \in ToSet(W) : r = <<k.id, k.next>>
        BY <1>5
      <3> QED
        BY <3>1
    <2> QED
      BY <1>5, <2>2, <2>3, <2>4 DEF LinkPairs, L, links
  <1>6. CASE L = LinkChain(W) /\ links = {<<W[i].id, W[i + 1].id>> : i \in 1..(l - 1)}
    <2>1. \A i \in 1..l : L[i].next = IF i = l THEN 0 ELSE W[i + 1].id
      BY <1>4, <1>6, ChainEntries
    <2>2. \A m \in ToSet(L) : \E i \in 1..l : m = L[i]
      BY <1>4 DEF ToSet
    <2> HIDE DEF l
    <2>3. ASSUME NEW m \in ToSet(L), NEW n \in ToSet(L), <<m.id, n.id>> \in links PROVE m.next = n.id
      <3>1. PICK i \in 1..(l - 1) : <<m.id, n.id>> = <<W[i].id, W[i + 1].id>>
        BY <1>6, <2>3
      <3>2. i \in 1..l /\ i # l
        BY <1>4
      <3>3. PICK a \in 1..l : m = L[a]
        BY <2>2
      <3>4. a = i
        BY <1>4, <3>1, <3>2, <3>3
      <3> QED
        BY <2>1, <3>1, <3>2, <3>3, <3>4
    <2>4. ASSUME NEW m \in ToSet(L), NEW n \in ToSet(L), m.next = n.id PROVE <<m.id, n.id>> \in links
      <3>1. PICK a \in 1..l, b \in 1..l : m = L[a] /\ n = L[b]
        BY <2>2
      <3>2. n.id # 0 /\ m.id = W[a].id
        BY <1>4, <3>1
      <3>3. a # l /\ m.next = W[a + 1].id
        BY <2>1, <2>4, <3>1, <3>2
      <3>4. a \in 1..(l - 1)
        BY <1>4, <3>3
      <3>5. <<m.id, n.id>> = <<W[a].id, W[a + 1].id>>
        BY <2>4, <3>2, <3>3
      <3> QED
        BY <1>6, <3>4, <3>5
    <2>5. ASSUME NEW r \in links PROVE r = <<r[1], r[2]>> /\ \E m \in ToSet(L) : r[1] = m.id
      <3>1. PICK i \in 1..(l - 1) : r = <<W[i].id, W[i + 1].id>>
        BY <1>6
      <3>2. i \in 1..l
        BY <1>4
      <3>3. L[i] \in ToSet(L) /\ r[1] = L[i].id
        BY <1>4, <3>1, <3>2
      <3> QED
        BY <3>1, <3>3
    <2> QED
      BY <2>3, <2>4, <2>5 DEF LinkPairs, L, links
  <1> QED
    BY <1>2, <1>3, <1>5, <1>6

\* The nodes these links lead to from the first home.
WantedLed ==
    LET homes == Those(Wanted, {n \in ToSet(Wanted) : n.type = "home"})
    IN IF homes = <<>> THEN {} ELSE Within(WantedLinks, {Head(homes).id}, Len(Wanted))

\* The first of the same nodes that is of a type is the same.
LEMMA SameHeads ==
  ASSUME NEW L, NEW W, SameNodes(L, W)
  PROVE  LET k == Those(L, IsHome(L))
             h == Those(W, IsHome(W))
         IN /\ k = <<>> <=> h = <<>>
            /\ h # <<>> => Head(k).id = Head(h).id
  <1> DEFINE k == Those(L, IsHome(L))
             h == Those(W, IsHome(W))
             l == Len(W)
  <1>1. L \in Seq(Nodes) /\ W \in Seq(Nodes) /\ Len(L) = l /\ l \in Nat /\ DOMAIN L = 1..l /\ DOMAIN W = 1..l
    BY DEF SameNodes
  <1>2. \A i \in 1..l : /\ L[i].id = W[i].id /\ L[i].type = W[i].type
                        /\ L[i] \in ToSet(L) /\ W[i] \in ToSet(W)
    <2>1. \A i \in 1..l : L[i].id = W[i].id /\ L[i].type = W[i].type
      BY DEF SameNodes, Alike
    <2>2. \A i \in 1..l : L[i] \in ToSet(L) /\ W[i] \in ToSet(W)
      BY <1>1 DEF ToSet
    <2> QED
      BY <2>1, <2>2
  <1>3. \A i \in 1..l : L[i] \in IsHome(L) <=> W[i] \in IsHome(W)
    BY <1>2 DEF IsHome
  <1>4. k # <<>> => \E m \in 1..l : L[m] = Head(k) /\ L[m] \in IsHome(L) /\ \A j \in 1..(m - 1) : L[j] \notin IsHome(L)
    BY <1>1, ThoseHead
  <1>5. h # <<>> => \E m \in 1..l : W[m] = Head(h) /\ W[m] \in IsHome(W) /\ \A j \in 1..(m - 1) : W[j] \notin IsHome(W)
    BY <1>1, ThoseHead
  <1>6. k = <<>> <=> ToSet(L) \cap IsHome(L) = {}
    BY <1>1, ThoseEnds
  <1>7. h = <<>> <=> ToSet(W) \cap IsHome(W) = {}
    BY <1>1, ThoseEnds
  <1> HIDE DEF k, h
  <1>8. k = <<>> <=> h = <<>>
    <2>1. ASSUME k # <<>> PROVE h # <<>>
      <3>1. PICK m \in 1..l : L[m] \in IsHome(L)
        BY <1>4, <2>1
      <3>2. W[m] \in IsHome(W) /\ W[m] \in ToSet(W)
        BY <1>2, <1>3, <3>1
      <3> QED
        BY <1>7, <3>2
    <2>2. ASSUME h # <<>> PROVE k # <<>>
      <3>1. PICK m \in 1..l : W[m] \in IsHome(W)
        BY <1>5, <2>2
      <3>2. L[m] \in IsHome(L) /\ L[m] \in ToSet(L)
        BY <1>2, <1>3, <3>1
      <3> QED
        BY <1>6, <3>2
    <2> QED
      BY <2>1, <2>2
  <1>9. ASSUME h # <<>> PROVE Head(k).id = Head(h).id
    <2>1. PICK a \in 1..l : L[a] = Head(k) /\ L[a] \in IsHome(L) /\ \A j \in 1..(a - 1) : L[j] \notin IsHome(L)
      BY <1>4, <1>8, <1>9
    <2>2. PICK b \in 1..l : W[b] = Head(h) /\ W[b] \in IsHome(W) /\ \A j \in 1..(b - 1) : W[j] \notin IsHome(W)
      BY <1>5, <1>9
    <2>3. ~(a < b)
      <3> SUFFICES ASSUME a < b PROVE FALSE
        OBVIOUS
      <3>1. a \in 1..(b - 1)
        BY <1>1
      <3> QED
        BY <1>3, <2>1, <2>2, <3>1
    <2>4. ~(b < a)
      <3> SUFFICES ASSUME b < a PROVE FALSE
        OBVIOUS
      <3>1. b \in 1..(a - 1)
        BY <1>1
      <3> QED
        BY <1>3, <2>1, <2>2, <3>1
    <2>5. a = b
      BY <1>1, <2>3, <2>4
    <2> QED
      BY <1>2, <2>1, <2>2, <2>5
  <1> QED
    BY <1>8, <1>9 DEF k, h

\* They are those the walk of the stripped nodes is led to.
LEMMA WantedIsLed ==
  ASSUME IsDocument(sent)
  PROVE  WantedLed = LedTo(WantedLinks, Strip(sent.nodes))
  <1> DEFINE L == Strip(sent.nodes)
             k == Those(L, IsHome(L))
             h == Those(Wanted, IsHome(Wanted))
  <1>1. SameNodes(L, Wanted)
    BY StrippedIsWanted
  <1>2. k = <<>> <=> h = <<>>
    BY <1>1, SameHeads
  <1>3. h # <<>> => Head(k).id = Head(h).id
    BY <1>1, SameHeads
  <1>4. Len(L) = Len(Wanted)
    BY <1>1 DEF SameNodes
  <1>5. WantedLed = IF h = <<>> THEN {} ELSE Within(WantedLinks, {Head(h).id}, Len(Wanted))
    BY DEF WantedLed, IsHome
  <1>6. LedTo(WantedLinks, L) = IF k = <<>> THEN {} ELSE Within(WantedLinks, {Head(k).id}, Len(L))
    BY DEF LedTo
  <1> HIDE DEF k, h, L
  <1>7. WantedLed = LedTo(WantedLinks, L)
    <2>1. CASE h = <<>>
      BY <1>2, <1>5, <1>6, <2>1
    <2>2. CASE h # <<>>
      <3>1. Within(WantedLinks, {Head(h).id}, Len(Wanted)) = Within(WantedLinks, {Head(k).id}, Len(L))
        BY <1>3, <1>4, <2>2
      <3> QED
        BY <1>2, <1>5, <1>6, <2>2, <3>1
    <2> QED
      BY <2>1, <2>2
  <1> QED
    BY <1>7 DEF L
=============================================================================
