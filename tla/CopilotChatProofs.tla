-------------------------- MODULE CopilotChatProofs -------------------------
(***************************************************************************)
(* The conversation of the page, for any sessions, turns, texts, asks and  *)
(* faults.  Sound says which messages a list may hold given the requests:  *)
(* each belongs to the turn its name says, a question is known by the key  *)
(* of that turn, and what an aborted request left behind has settled.  The *)
(* folds that merge and clean a list are unfolded by what each step does   *)
(* to the sequence so far, and a snapshot is held against what was asked   *)
(* under each name.                                                        *)
(***************************************************************************)
EXTENDS CopilotChat, WellFoundedInduction, TLAPS

-----------------------------------------------------------------------------
\* A set of numbers that is not empty has a least one.
LEMMA Least ==
    ASSUME NEW S \in SUBSET Nat, S # {}
    PROVE  \E i \in S : \A j \in S : i <= j
<1> DEFINE Smaller == {ss \in Nat \X Nat : ss[1] < ss[2]}
<1>1. IsWellFoundedOn(Smaller, Nat)
  BY NatLessThanWellFounded DEF OpToRel
<1> HIDE DEF Smaller
<1>2. PICK i \in S : \A j \in S : ~ (<<j, i>> \in Smaller)
  BY <1>1, WFMin
<1>3. \A j \in S : ~ (j < i)
  BY <1>2 DEF Smaller
<1> QED BY <1>3

\* What holds of 0 and of the next number with each number below n holds up to n.
LEMMA Climb ==
    ASSUME NEW n \in Nat, NEW S, 0 \in S, \A k \in 0..(n - 1) : k \in S => k + 1 \in S
    PROVE  \A k \in 0..n : k \in S
<1> DEFINE Left == {k \in Nat : k <= n /\ k \notin S}
<1> SUFFICES ASSUME Left # {} PROVE FALSE
  OBVIOUS
<1>2. Left \in SUBSET Nat
  OBVIOUS
<1> HIDE DEF Left
<1>3. PICK i \in Left : \A j \in Left : i <= j
  BY <1>2, Least
<1>4. i \in Nat /\ i <= n /\ i \notin S /\ i # 0
  BY <1>3 DEF Left
<1>5. i - 1 \in S
  BY <1>3, <1>4 DEF Left
<1> QED BY <1>4, <1>5

\* The greatest of some numbers up to n.
LEMMA Greatest ==
    ASSUME NEW n \in Nat, NEW s \in SUBSET (1..n), s # {}
    PROVE  Max(s) \in s /\ \A k \in s : k <= Max(s)
<1> DEFINE S == {k \in Nat : s \cap (1..k) = {} \/ \E x \in s : \A y \in s \cap (1..k) : y <= x}
<1>1. 0 \in S
  OBVIOUS
<1>2. ASSUME NEW k \in 0..(n - 1), k \in S
      PROVE  k + 1 \in S
  <2>1. CASE k + 1 \in s
    BY <2>1
  <2>2. CASE k + 1 \notin s
    <3>1. s \cap (1..(k + 1)) = s \cap (1..k)
      BY <2>2
    <3> QED BY <3>1, <1>2
  <2> QED BY <2>1, <2>2
<1> HIDE DEF S
<1>3. n \in S
  BY <1>1, <1>2, Climb
<1>4. \E x \in s : \A y \in s : x >= y
  BY <1>3 DEF S
<1> QED BY <1>4 DEF Max

\* g applies a step once for each number of a set, the greatest last.
Iterated(g, n, base, step) ==
    \A s \in SUBSET (1..n) :
        g[s] = IF s = {} THEN base ELSE step[<<g[s \ {Max(s)}], Max(s)>>]

\* Every step on values of Q can be applied so.
LEMMA Iterates ==
    ASSUME NEW n \in Nat, NEW Q, NEW base \in Q, NEW step \in [Q \X (1..n) -> Q]
    PROVE  \E g \in [SUBSET (1..n) -> Q] : Iterated(g, n, base, step)
<1> DEFINE Solves(g, k) == \A s \in SUBSET (1..k) :
               g[s] = IF s = {} THEN base ELSE step[<<g[s \ {Max(s)}], Max(s)>>]
           S == {k \in 0..n : \E g \in [SUBSET (1..k) -> Q] : Solves(g, k)}
<1>1. 0 \in S
  <2>1. [s \in SUBSET (1..0) |-> base] \in [SUBSET (1..0) -> Q]
    OBVIOUS
  <2>2. Solves([s \in SUBSET (1..0) |-> base], 0)
    OBVIOUS
  <2> HIDE DEF Solves
  <2> QED BY <2>1, <2>2, 0 \in 0..n
<1>2. ASSUME NEW k \in 0..(n - 1), k \in S
      PROVE  k + 1 \in S
  <2>1. PICK g \in [SUBSET (1..k) -> Q] : Solves(g, k)
    BY <1>2
  <2> DEFINE h == [s \in SUBSET (1..(k + 1)) |->
                     IF k + 1 \in s THEN step[<<g[s \ {k + 1}], k + 1>>] ELSE g[s]]
  <2>2. ASSUME NEW s \in SUBSET (1..(k + 1))
        PROVE  h[s] \in Q /\ h[s] = IF s = {} THEN base ELSE step[<<h[s \ {Max(s)}], Max(s)>>]
    <3>1. CASE k + 1 \in s
      <4>1. s \ {k + 1} \in SUBSET (1..k) /\ k + 1 \notin s \ {k + 1} /\ k + 1 \in 1..n
        BY <3>1
      <4>2. Max(s) = k + 1
        <5>1. k + 1 \in Nat /\ s # {}
          BY <3>1
        <5>2. Max(s) \in s /\ \A x \in s : x <= Max(s)
          BY <5>1, Greatest
        <5>3. Max(s) \in 1..(k + 1)
          BY <5>2
        <5> QED BY <5>2, <5>3, <3>1
      <4>3. h[s] = step[<<g[s \ {k + 1}], k + 1>>] /\ h[s \ {k + 1}] = g[s \ {k + 1}]
        BY <3>1, <4>1, s \ {k + 1} \in SUBSET (1..(k + 1))
      <4>4. g[s \ {k + 1}] \in Q
        BY <4>1
      <4> QED BY <3>1, <4>1, <4>2, <4>3, <4>4
    <3>2. CASE k + 1 \notin s
      <4>1. s \in SUBSET (1..k)
        BY <3>2
      <4>2. CASE s = {}
        BY <4>1, <4>2, <3>2, <2>1
      <4>3. CASE s # {}
        <5>1. Max(s) \in s
          BY <4>1, <4>3, Greatest, k \in Nat
        <5>2. h[s] = g[s]
          BY <3>2, <4>1
        <5>3. s \ {Max(s)} \in SUBSET (1..(k + 1)) /\ k + 1 \notin s \ {Max(s)}
          BY <3>2, <4>1
        <5>4. h[s \ {Max(s)}] = g[s \ {Max(s)}]
          BY <5>3
        <5>5. g[s] = step[<<g[s \ {Max(s)}], Max(s)>>]
          BY <2>1, <4>1, <4>3
        <5>6. g[s] \in Q
          BY <4>1
        <5> QED BY <4>3, <5>2, <5>4, <5>5, <5>6
      <4> QED BY <4>2, <4>3
    <3> QED BY <3>1, <3>2
  <2>3. h \in [SUBSET (1..(k + 1)) -> Q]
    BY <2>2
  <2>4. Solves(h, k + 1)
    BY <2>2
  <2> HIDE DEF h, Solves
  <2>5. k + 1 \in 0..n
    OBVIOUS
  <2> QED BY <2>3, <2>4, <2>5
<1> HIDE DEF S
<1>3. n \in S
  BY <1>1, <1>2, Climb
<1> QED BY <1>3 DEF S, Iterated

\* The set of the first k numbers is that of the first k - 1 and k.
LEMMA Upto ==
    ASSUME NEW k \in Nat, k # 0
    PROVE  1..k # {} /\ Max(1..k) = k /\ (1..k) \ {k} = 1..(k - 1)
<1>1. 1..k \in SUBSET (1..k) /\ k \in 1..k
  OBVIOUS
<1>2. Max(1..k) \in 1..k /\ k <= Max(1..k)
  BY <1>1, Greatest
<1> QED BY <1>1, <1>2

\* The list is put message by message.
PutsUp(it, n, put, msgs, preferIncoming) ==
    /\ it[0] = put /\ it[n] = PutAll(put, msgs, preferIncoming)
    /\ \A k \in 0..(n - 1) : it[k + 1] = Put(it[k], msgs[k + 1], preferIncoming)

\* What PutNext works out is what Put does.
LEMMA PutNextIs ==
    ASSUME NEW so, NEW m, NEW preferIncoming
    PROVE  PutNext(so, m, preferIncoming) = Put(so, m, preferIncoming)
<1> DEFINE new == Put(so, m, preferIncoming)
<1>1. {Put(put, m, preferIncoming) : put \in {so}} = {new}
  OBVIOUS
<1> HIDE DEF new
<1>2. (CHOOSE next \in {new} : TRUE) = new
  OBVIOUS
<1> QED BY <1>1, <1>2 DEF PutNext, new

LEMMA PutAllUnfolds ==
    ASSUME NEW T, NEW msgs \in Seq(T), NEW Q, NEW put \in Q, NEW preferIncoming,
           \A q \in Q, m \in T : Put(q, m, preferIncoming) \in Q
    PROVE  \E it \in [0..Len(msgs) -> Q] : PutsUp(it, Len(msgs), put, msgs, preferIncoming)
<1>1. PICK n \in Nat : n = Len(msgs) /\ DOMAIN msgs = 1..n /\ \A k \in 1..n : msgs[k] \in T
  OBVIOUS
<1> DEFINE step == [a \in Q \X (1..n) |-> Put(a[1], msgs[a[2]], preferIncoming)]
           Folds(g) == g = [s \in SUBSET (1..n) |->
                              IF s = {} THEN put
                              ELSE PutNext(g[s \ {Max(s)}], msgs[Max(s)], preferIncoming)]
           it == CHOOSE g : Folds(g)
           S == {k \in 0..n : it[1..k] \in Q}
<1>2. step \in [Q \X (1..n) -> Q]
  BY <1>1
<1>3. PICK g \in [SUBSET (1..n) -> Q] : Iterated(g, n, put, step)
  <2> HIDE DEF step
  <2> QED BY <1>2, Iterates
<1>4. ASSUME NEW s \in SUBSET (1..n)
      PROVE  g[s] = IF s = {} THEN put ELSE PutNext(g[s \ {Max(s)}], msgs[Max(s)], preferIncoming)
  <2>1. CASE s # {}
    <3>1. Max(s) \in 1..n
      BY <1>1, <2>1, Greatest
    <3>2. g[s \ {Max(s)}] \in Q
      OBVIOUS
    <3> QED BY <1>3, <2>1, <3>1, <3>2, PutNextIs DEF Iterated
  <2> QED BY <1>3, <2>1 DEF Iterated
<1>5. Folds(g)
  BY <1>4
<1>6. Folds(it)
  <2> HIDE DEF Folds
  <2> QED BY <1>5
<1>7. PutAll(put, msgs, preferIncoming) = it[1..n]
  BY <1>1 DEF PutAll, FoldLeft, MapThenFoldSet
<1>8. it[{}] = put /\ \A s \in SUBSET (1..n) : s # {} =>
            it[s] = PutNext(it[s \ {Max(s)}], msgs[Max(s)], preferIncoming)
  BY <1>6
<1> HIDE DEF it, Folds
<1>9. 0 \in S
  BY <1>1, <1>8, 1..0 = {}
<1>10. ASSUME NEW k \in 0..(n - 1)
       PROVE  it[1..(k + 1)] = Put(it[1..k], msgs[k + 1], preferIncoming)
  <2>1. 1..(k + 1) \in SUBSET (1..n) /\ k + 1 \in Nat /\ k + 1 # 0 /\ (k + 1) - 1 = k
    BY <1>1
  <2> QED BY ZenonT(40), <1>8, <2>1, Upto, PutNextIs
<1>11. ASSUME NEW k \in 0..(n - 1), k \in S
       PROVE  k + 1 \in S
  <2>1. k + 1 \in 1..n /\ k + 1 \in 0..n
    BY <1>1
  <2> QED BY <1>1, <1>10, <1>11, <2>1
<1>12. \A k \in 0..n : k \in S
  <2> HIDE DEF S
  <2> QED BY <1>9, <1>11, Climb
<1> DEFINE f == [k \in 0..n |-> it[1..k]]
<1>13. f \in [0..n -> Q]
  BY <1>12
<1>14. PutsUp(f, n, put, msgs, preferIncoming)
  <2>1. f[0] = put /\ f[n] = it[1..n]
    BY <1>1, <1>8, 1..0 = {}
  <2>2. \A k \in 0..(n - 1) : f[k + 1] = Put(f[k], msgs[k + 1], preferIncoming)
    <3> SUFFICES ASSUME NEW k \in 0..(n - 1)
                 PROVE  f[k + 1] = Put(f[k], msgs[k + 1], preferIncoming)
      OBVIOUS
    <3>1. f[k] = it[1..k] /\ f[k + 1] = it[1..(k + 1)]
      BY <1>1
    <3> QED BY <1>10, <3>1
  <2> QED BY <1>7, <2>1, <2>2 DEF PutsUp
<1> HIDE DEF f
<1> QED BY <1>1, <1>13, <1>14

OncesUp(it, n, msgs) ==
    /\ it[0] = <<>> /\ it[n] = dedupeConversationMessages(msgs)
    /\ \A k \in 0..(n - 1) : it[k + 1] = PutOnce(it[k], msgs[k + 1])

LEMMA DedupeUnfolds ==
    ASSUME NEW T, NEW msgs \in Seq(T), NEW Q, <<>> \in Q,
           \A q \in Q, m \in T : PutOnce(q, m) \in Q
    PROVE  \E it \in [0..Len(msgs) -> Q] : OncesUp(it, Len(msgs), msgs)
<1>1. PICK n \in Nat : n = Len(msgs) /\ DOMAIN msgs = 1..n /\ \A k \in 1..n : msgs[k] \in T
  OBVIOUS
<1> DEFINE step == [a \in Q \X (1..n) |-> PutOnce(a[1], msgs[a[2]])]
           Folds(g) == g = [s \in SUBSET (1..n) |->
                              IF s = {} THEN <<>>
                              ELSE PutOnce(g[s \ {Max(s)}], msgs[Max(s)])]
           it == CHOOSE g : Folds(g)
           S == {k \in 0..n : it[1..k] \in Q}
<1>2. step \in [Q \X (1..n) -> Q]
  BY <1>1
<1>3. PICK g \in [SUBSET (1..n) -> Q] : Iterated(g, n, <<>>, step)
  <2> HIDE DEF step
  <2> QED BY <1>2, Iterates
<1>4. ASSUME NEW s \in SUBSET (1..n)
      PROVE  g[s] = IF s = {} THEN <<>> ELSE PutOnce(g[s \ {Max(s)}], msgs[Max(s)])
  <2>1. CASE s # {}
    <3>1. Max(s) \in 1..n
      BY <1>1, <2>1, Greatest
    <3>2. g[s \ {Max(s)}] \in Q
      OBVIOUS
    <3> QED BY <1>3, <2>1, <3>1, <3>2 DEF Iterated
  <2> QED BY <1>3, <2>1 DEF Iterated
<1>5. Folds(g)
  BY <1>4
<1>6. Folds(it)
  <2> HIDE DEF Folds
  <2> QED BY <1>5
<1>7. dedupeConversationMessages(msgs) = it[1..n]
  BY <1>1 DEF dedupeConversationMessages, FoldLeft, MapThenFoldSet
<1>8. it[{}] = <<>> /\ \A s \in SUBSET (1..n) : s # {} =>
            it[s] = PutOnce(it[s \ {Max(s)}], msgs[Max(s)])
  BY <1>6
<1> HIDE DEF it, Folds
<1>9. 0 \in S
  BY <1>1, <1>8, 1..0 = {}
<1>10. ASSUME NEW k \in 0..(n - 1)
       PROVE  it[1..(k + 1)] = PutOnce(it[1..k], msgs[k + 1])
  <2>1. 1..(k + 1) \in SUBSET (1..n) /\ k + 1 \in Nat /\ k + 1 # 0 /\ (k + 1) - 1 = k
    BY <1>1
  <2> QED BY ZenonT(40), <1>8, <2>1, Upto
<1>11. ASSUME NEW k \in 0..(n - 1), k \in S
       PROVE  k + 1 \in S
  <2>1. k + 1 \in 1..n /\ k + 1 \in 0..n
    BY <1>1
  <2> QED BY <1>1, <1>10, <1>11, <2>1
<1>12. \A k \in 0..n : k \in S
  <2> HIDE DEF S
  <2> QED BY <1>9, <1>11, Climb
<1> DEFINE f == [k \in 0..n |-> it[1..k]]
<1>13. f \in [0..n -> Q]
  BY <1>12
<1>14. OncesUp(f, n, msgs)
  <2>1. f[0] = <<>> /\ f[n] = it[1..n]
    BY <1>1, <1>8, 1..0 = {}
  <2>2. \A k \in 0..(n - 1) : f[k + 1] = PutOnce(f[k], msgs[k + 1])
    <3>1. \A k \in 0..(n - 1) : f[k + 1] = it[1..(k + 1)] /\ f[k] = it[1..k]
      BY <1>1
    <3> HIDE DEF f
    <3> QED BY <1>10, <3>1
  <2> QED BY <1>7, <2>1, <2>2 DEF OncesUp
<1> HIDE DEF f
<1> QED BY <1>1, <1>13, <1>14

\* The ids of a list are told apart.
Unrepeated(msgs) == \A i, j \in DOMAIN msgs : msgs[i].id = msgs[j].id => i = j

\* A message left out leaves a list of the others.
LEMMA WithoutStays ==
    ASSUME NEW T, NEW msgs \in Seq(T), Unrepeated(msgs), NEW mid
    PROVE  Without(msgs, mid) \in Seq(T) /\ Unrepeated(Without(msgs, mid))
<1>1. PICK n \in Nat : n = Len(msgs) /\ DOMAIN msgs = 1..n /\ \A k \in 1..n : msgs[k] \in T
  OBVIOUS
<1> DEFINE Q == Seq(T)
           Skip(q, m) == IF m.id = mid THEN q ELSE Append(q, m)
           step == [a \in Q \X (1..n) |-> Skip(a[1], msgs[a[2]])]
           Folds(g) == g = [s \in SUBSET (1..n) |->
                              IF s = {} THEN <<>> ELSE Skip(g[s \ {Max(s)}], msgs[Max(s)])]
           it == CHOOSE g : Folds(g)
           Of(q, k) == \A i \in DOMAIN q : \E j \in 1..k : q[i].id = msgs[j].id
           S == {k \in 0..n : it[1..k] \in Q /\ Unrepeated(it[1..k]) /\ Of(it[1..k], k)}
<1>2. step \in [Q \X (1..n) -> Q] /\ <<>> \in Q
  BY <1>1
<1>3. PICK g \in [SUBSET (1..n) -> Q] : Iterated(g, n, <<>>, step)
  <2> HIDE DEF step, Q
  <2> QED BY <1>2, Iterates
<1>4. ASSUME NEW s \in SUBSET (1..n)
      PROVE  g[s] = IF s = {} THEN <<>> ELSE Skip(g[s \ {Max(s)}], msgs[Max(s)])
  <2>1. CASE s # {}
    <3>1. Max(s) \in 1..n
      BY <1>1, <2>1, Greatest
    <3>2. g[s \ {Max(s)}] \in Q
      OBVIOUS
    <3> HIDE DEF Q
    <3> QED BY <1>3, <2>1, <3>1, <3>2 DEF Iterated
  <2> QED BY <1>3, <2>1 DEF Iterated
<1>5. Folds(g)
  BY <1>4
<1>6. Folds(it)
  <2> HIDE DEF Folds
  <2> QED BY <1>5
<1>7. Without(msgs, mid) = it[1..n]
  BY <1>1 DEF Without, FoldLeft, MapThenFoldSet
<1>8. it[{}] = <<>> /\ \A s \in SUBSET (1..n) : s # {} => it[s] = Skip(it[s \ {Max(s)}], msgs[Max(s)])
  BY Zenon, <1>6
<1> HIDE DEF it, Folds
<1>9. 0 \in S
  <2>1. it[1..0] = <<>> /\ DOMAIN <<>> = {}
    BY <1>8, 1..0 = {}
  <2>2. <<>> \in Seq(T) /\ Of(<<>>, 0) /\ Unrepeated(<<>>) /\ 0 \in 0..n
    BY DEF Unrepeated
  <2> HIDE DEF Of
  <2> QED BY <2>1, <2>2
<1>10. ASSUME NEW k \in 0..(n - 1), k \in S
       PROVE  k + 1 \in S
  <2>1. /\ 1..(k + 1) \in SUBSET (1..n) /\ k + 1 \in 1..n /\ k + 1 \in Nat /\ k + 1 # 0
        /\ (k + 1) - 1 = k /\ k + 1 \in 0..n /\ k \in Nat
    BY <1>1
  <2> DEFINE q == it[1..k]
             m == msgs[k + 1]
             r == it[1..(k + 1)]
  <2>2. r = Skip(q, m)
    <3>1. 1..(k + 1) # {} /\ Max(1..(k + 1)) = k + 1 /\ (1..(k + 1)) \ {k + 1} = 1..k
      BY <2>1, Upto
    <3> HIDE DEF Skip
    <3>2. it[1..(k + 1)] = Skip(it[(1..(k + 1)) \ {Max(1..(k + 1))}], msgs[Max(1..(k + 1))])
      BY <1>8, <2>1, <3>1
    <3> QED BY <3>1, <3>2
  <2>3. q \in Seq(T) /\ Unrepeated(q) /\ Of(q, k) /\ m \in T
    BY <1>1, <1>10, <2>1
  <2>4. ASSUME NEW i \in DOMAIN q
        PROVE  q[i].id # m.id
    <3>1. PICK j \in 1..k : q[i].id = msgs[j].id
      BY <2>3
    <3>2. j \in DOMAIN msgs /\ k + 1 \in DOMAIN msgs /\ j # k + 1
      BY <1>1, <2>1
    <3> QED BY <3>1, <3>2 DEF Unrepeated
  <2> HIDE DEF q, m, r
  <2>5. r \in Seq(T)
    BY <2>2, <2>3
  <2>6. CASE m.id = mid
    <3>1. r = q
      BY <2>2, <2>6
    <3> QED BY <2>1, <2>3, <3>1, <1>1 DEF q, r
  <2>7. CASE m.id # mid
    <3>1. r = Append(q, m) /\ Len(r) = Len(q) + 1
      BY <2>2, <2>3, <2>7
    <3>2. \A i \in DOMAIN r : IF i \in DOMAIN q THEN r[i] = q[i] ELSE i = Len(q) + 1 /\ r[i] = m
      BY <2>3, <3>1
    <3>3. Unrepeated(r)
      BY <2>3, <2>4, <3>2 DEF Unrepeated
    <3>4. ASSUME NEW i \in DOMAIN r
          PROVE  \E j \in 1..(k + 1) : r[i].id = msgs[j].id
      <4>1. CASE i \in DOMAIN q
        <5>1. PICK j \in 1..k : q[i].id = msgs[j].id
          BY <2>3, <4>1
        <5> QED BY <2>1, <3>2, <4>1, <5>1
      <4>2. CASE i \notin DOMAIN q
        BY <2>1, <3>2, <4>2 DEF m
      <4> QED BY <4>1, <4>2
    <3> QED BY <2>1, <2>5, <3>3, <3>4 DEF r
  <2> QED BY <2>6, <2>7
<1>11. \A k \in 0..n : k \in S
  <2> HIDE DEF S
  <2> QED BY <1>9, <1>10, Climb
<1> QED BY <1>7, <1>11

\* A list that loses its repeated turns is a list of the same messages; what holds
\* of the end of it, W[i] from the i-th message on, is shown from the end.
Folds4(W, msgs, T) ==
    /\ \A i \in (Len(msgs) + 1)..(Len(msgs) + 4) : <<>> \in W[i]
    /\ \A i \in 1..Len(msgs) : \A q \in Seq(T) :
         /\ Repeated(msgs, i) /\ q \in W[i + 4] =>
               <<msgs[i], Survivor(msgs[i+1], msgs[i+3])>> \o q \in W[i]
         /\ ~Repeated(msgs, i) /\ q \in W[i + 1] => <<msgs[i]>> \o q \in W[i]

LEMMA CollapseUnfolds ==
    ASSUME NEW T, NEW msgs \in Seq(T), NEW W, Folds4(W, msgs, T)
    PROVE  collapseDuplicateTurns(msgs) \in Seq(T)
           /\ (Len(msgs) < 4 \/ collapseDuplicateTurns(msgs) \in W[1])
<1>1. PICK n \in Nat : n = Len(msgs) /\ DOMAIN msgs = 1..n /\ \A k \in 1..n : msgs[k] \in T
  OBVIOUS
<1> DEFINE Value(f, i) == IF i > n THEN <<>>
                          ELSE IF Repeated(msgs, i)
                          THEN <<msgs[i], Survivor(msgs[i+1], msgs[i+3])>> \o f[i + 4]
                          ELSE <<msgs[i]>> \o f[i + 1]
           Solves(f) == f = [i \in 1..(n + 4) |-> Value(f, i)]
           kept == CHOOSE f : Solves(f)
           From(k) == ((n + 1) - k)..(n + 4)
           S == {k \in 0..n : \E g \in [From(k) -> Seq(T)] : \A i \in From(k) : g[i] = Value(g, i)}
           R == {k \in 0..n : \A i \in From(k) : kept[i] \in Seq(T) /\ kept[i] \in W[i]}
<1>2. ASSUME NEW f, NEW i \in 1..n, f[i + 1] \in Seq(T), f[i + 4] \in Seq(T)
      PROVE  Value(f, i) \in Seq(T)
  <2>1. CASE Repeated(msgs, i)
    <3>1. i + 1 \in 1..n /\ i + 3 \in 1..n
      BY <1>1, <2>1 DEF Repeated
    <3>2. <<msgs[i], Survivor(msgs[i+1], msgs[i+3])>> \in Seq(T)
      BY <1>1, <3>1 DEF Survivor
    <3>3. <<msgs[i], Survivor(msgs[i+1], msgs[i+3])>> \o f[i + 4] \in Seq(T)
      BY <1>2, <3>2
    <3> QED BY <2>1, <3>3
  <2>2. CASE ~ Repeated(msgs, i)
    BY <1>1, <1>2, <2>2
  <2> QED BY <2>1, <2>2
<1>13. ASSUME NEW k \in 0..(n - 1)
       PROVE  From(k + 1) = {n - k} \cup From(k) /\ n - k \notin From(k) /\ n - k \in 1..n
  <2>1. (n + 1) - (k + 1) = n - k /\ (n + 1) - k = (n - k) + 1 /\ n - k \in 1..n
    OBVIOUS
  <2> QED BY <2>1
<1>3. 0 \in S
  <2>1. [i \in From(0) |-> <<>>] \in [From(0) -> Seq(T)]
    OBVIOUS
  <2>2. \A i \in From(0) : [j \in From(0) |-> <<>>][i] = Value([j \in From(0) |-> <<>>], i)
    OBVIOUS
  <2> HIDE DEF From, Value
  <2> QED BY <2>1, <2>2, 0 \in 0..n
<1>4. ASSUME NEW k \in 0..(n - 1), k \in S
      PROVE  k + 1 \in S
  <2>1. PICK g \in [From(k) -> Seq(T)] : \A i \in From(k) : g[i] = Value(g, i)
    BY <1>4
  <2> DEFINE h == [i \in From(k + 1) |-> IF i = n - k THEN Value(g, i) ELSE g[i]]
  <2>2. From(k + 1) = {n - k} \cup From(k) /\ n - k \notin From(k) /\ n - k \in 1..n
    BY <1>13
  <2>3. ASSUME NEW i \in From(k + 1)
        PROVE  Value(h, i) = Value(g, i) /\ h[i] = Value(g, i) /\ h[i] \in Seq(T)
    <3>1. CASE i > n
      <4>1. i \in From(k) /\ i # n - k
        BY <2>2, <3>1
      <4>2. h[i] = g[i] /\ g[i] = Value(g, i) /\ g[i] \in Seq(T)
        BY <2>1, <4>1
      <4> QED BY <3>1, <4>2
    <3>2. CASE i \in 1..n
      <4>1. i + 1 \in From(k) /\ i + 4 \in From(k)
        BY <3>2
      <4>2. h[i + 1] = g[i + 1] /\ h[i + 4] = g[i + 4] /\ g[i + 1] \in Seq(T) /\ g[i + 4] \in Seq(T)
        BY <2>2, <4>1
      <4>3. Value(h, i) = Value(g, i)
        BY SMTT(30), <4>2
      <4>4. Value(g, i) \in Seq(T)
        BY <1>2, <3>2, <4>2
      <4>5. h[i] = Value(g, i)
        <5> HIDE DEF Value, From
        <5> QED BY <2>1, <2>2
      <4> HIDE DEF Value, h
      <4> QED BY <4>3, <4>4, <4>5
    <3> QED BY <3>1, <3>2, <2>2
  <2>4. h \in [From(k + 1) -> Seq(T)]
    <3> HIDE DEF From, Value
    <3> QED BY <2>3
  <2> HIDE DEF h, Value, From
  <2> QED BY <2>3, <2>4, k + 1 \in 0..n
<1>5. n \in S
  <2>1. \A k \in 0..n : k \in S
    <3> HIDE DEF S
    <3> QED BY <1>3, <1>4, Climb
  <2> HIDE DEF S
  <2> QED BY <2>1
<1>6. \E f : Solves(f)
  <2>1. PICK g \in [From(n) -> Seq(T)] : \A i \in From(n) : g[i] = Value(g, i)
    BY <1>5
  <2>2. From(n) = 1..(n + 4)
    OBVIOUS
  <2> HIDE DEF Value, From
  <2>3. Solves(g)
    BY <2>1, <2>2
  <2> QED BY <2>3
<1>7. Solves(kept)
  <2> HIDE DEF Solves
  <2> QED BY <1>6
<1>8. collapseDuplicateTurns(msgs) = IF n < 4 THEN msgs ELSE kept[1]
  BY <1>1 DEF collapseDuplicateTurns
<1> HIDE DEF kept
<1>9. \A i \in 1..(n + 4) : kept[i] = Value(kept, i)
  <2> HIDE DEF Value
  <2> QED BY <1>7
<1>10. 0 \in R
  <2>1. \A i \in From(0) : i > n /\ i \in 1..(n + 4)
    OBVIOUS
  <2>2. \A i \in From(0) : kept[i] = <<>>
    BY <1>9, <2>1
  <2>3. <<>> \in Seq(T) /\ 0 \in 0..n
    OBVIOUS
  <2>4. \A i \in From(0) : <<>> \in W[i]
    BY <1>1 DEF Folds4
  <2> HIDE DEF From
  <2> QED BY <2>2, <2>3, <2>4
<1>11. ASSUME NEW k \in 0..(n - 1), k \in R
       PROVE  k + 1 \in R
  <2>1. From(k + 1) = {n - k} \cup From(k) /\ n - k \in 1..n /\ k + 1 \in 0..n
    BY <1>13
  <2>2. (n - k) + 1 \in From(k) /\ (n - k) + 4 \in From(k)
    OBVIOUS
  <2> HIDE DEF From
  <2>3. Value(kept, n - k) \in Seq(T)
    <3> HIDE DEF Value
    <3> QED BY <1>2, <1>11, <2>1, <2>2
  <2>4. kept[n - k] \in Seq(T)
    <3> HIDE DEF Value
    <3> QED BY <1>9, <2>1, <2>3
  <2>5. kept[n - k] \in W[n - k]
    <3>1. kept[n - k] = Value(kept, n - k) /\ ~ (n - k > n)
      <4>1. n - k \in 1..(n + 4) /\ ~ (n - k > n)
        BY <1>1, <2>1
      <4> HIDE DEF Value
      <4> QED BY <1>9, <4>1
    <3>2. kept[(n - k) + 1] \in Seq(T) /\ kept[(n - k) + 1] \in W[(n - k) + 1]
          /\ kept[(n - k) + 4] \in Seq(T) /\ kept[(n - k) + 4] \in W[(n - k) + 4]
      BY <1>11, <2>2
    <3> DEFINE i == n - k
    <3>3. i \in 1..Len(msgs) /\ i \in 1..n
      BY <1>1, <2>1
    <3>4. kept[i] = IF Repeated(msgs, i)
                    THEN <<msgs[i], Survivor(msgs[i+1], msgs[i+3])>> \o kept[i + 4]
                    ELSE <<msgs[i]>> \o kept[i + 1]
      BY <3>1
    <3> HIDE DEF i, Value
    <3>5. kept[i] \in W[i]
      BY <3>2, <3>3, <3>4 DEF Folds4, i
    <3> QED BY <3>5 DEF i
  <2> QED BY <1>11, <2>1, <2>4, <2>5
<1>12. 1 \in From(n) /\ n \in 0..n
  OBVIOUS
<1>14. \A k \in 0..n : k \in R
  <2> HIDE DEF R
  <2> QED BY <1>10, <1>11, Climb
<1>15. n \in R
  <2> HIDE DEF R
  <2> QED BY <1>12, <1>14
<1> HIDE DEF From
<1> QED BY <1>1, <1>8, <1>12, <1>15

-----------------------------------------------------------------------------
Requests == [sid : Sessions \cup {NoSession},
             phase : {"unused", "queued", "open", "closed", "gone"},
             aborted : BOOLEAN, skip : BOOLEAN,
             key : Names, text : Texts \cup {NoText}]

Logs == [Turns -> Requests]

\* The messages a session may show: those of its own turns, the reply of a turn
\* after it was launched or asked for again, and none that streams after its
\* stream was aborted.
Keys == {"c"} \X Turns

KeyOf(name, tn) ==
    CASE name[1] = "u"  -> <<"c", name[2]>>
      [] name[1] = "su" -> tn[name[2]].key
      [] OTHER          -> name

Labelled(m, tn) ==
    \/ /\ m.role = "user" /\ m.id[1] \in {"u", "su"} /\ m.srv = NoName
       /\ m.key \in Keys /\ m.key = KeyOf(m.id, tn)
    \/ /\ m.role = "assistant" /\ m.id[1] = "r"
       /\ m.key \in {NoName} \cup ({"p"} \X Turns)
       /\ m.srv \in {NoName} \cup ({"local", "r"} \X Turns)

OwnOf(s, tn) ==
    {m \in MessageSet :
        /\ Labelled(m, tn)
        /\ m.id \in {"u", "su", "r"} \X Turns
        /\ tn[m.corr].phase # "unused"
        /\ tn[m.id[2]].phase # "unused" /\ tn[m.id[2]].sid = s
        /\ m.id[1] = "r" /\ tn[m.id[2]].phase = "queued" => tn[m.id[2]].skip
        /\ m.id[1] = "r" /\ tn[m.id[2]].phase = "closed" /\ tn[m.id[2]].aborted => ~isStreaming(m)}

\* Those the server may keep of it.
StoredOf(s, tn) == {m \in OwnOf(s, tn) : ~isStreaming(m)}

Sound(st, tn) ==
    /\ st \in Tab
    /\ \A s \in Sessions :
         /\ st.msgs[s] \in Seq(OwnOf(s, tn)) /\ Unrepeated(st.msgs[s])
         /\ st.kind[s] # "live" => st.msgs[s] = <<>>
         /\ st.pending[s] # 0 => tn[st.pending[s]].phase # "unused"

ServerSound(sn, cv, tn) ==
    \A s \in Sessions : sn[s] \in Seq(StoredOf(s, tn)) /\ cv[s] \in Seq(StoredOf(s, tn))

Underway ==
    /\ \A t \in Turns : turn[t].phase # "unused" => turn[t].sid \in Sessions /\ turn[t].key \in Keys
    /\ \A t \in Turns : srv[t] # "unknown" => turn[t].phase \notin {"unused", "queued"}
    /\ tab.abort # 0 => turn[tab.abort].phase \in {"queued", "open"}
    /\ poll # 0 => turn[poll].phase # "unused"
    /\ \A a \in asks : turn[a.turn].phase # "unused"

IInv == TypeOK /\ Sound(tab, turn) /\ ServerSound(snap, conv, turn) /\ Underway

-----------------------------------------------------------------------------
LEMMA Wider ==
    ASSUME NEW T, NEW U, T \subseteq U, NEW q \in Seq(T)
    PROVE  q \in Seq(U)
OBVIOUS

LEMMA ElementOf ==
    ASSUME NEW T, NEW q \in Seq(T), NEW i \in DOMAIN q
    PROVE  q[i] \in T
OBVIOUS

LEMMA Appended ==
    ASSUME NEW T, NEW q \in Seq(T), NEW m \in T, Unrepeated(q), \A i \in DOMAIN q : q[i].id # m.id
    PROVE  Append(q, m) \in Seq(T) /\ Unrepeated(Append(q, m))
<1>1. \A i \in DOMAIN Append(q, m) :
         IF i \in DOMAIN q THEN Append(q, m)[i] = q[i] ELSE i = Len(q) + 1 /\ Append(q, m)[i] = m
  OBVIOUS
<1> QED BY <1>1 DEF Unrepeated

LEMMA Replaced ==
    ASSUME NEW T, NEW q \in Seq(T), NEW k \in DOMAIN q, NEW m \in T, Unrepeated(q),
           \A i \in DOMAIN q : q[i].id = m.id => i = k
    PROVE  [q EXCEPT ![k] = m] \in Seq(T) /\ Unrepeated([q EXCEPT ![k] = m])
BY DEF Unrepeated

LEMMA Rewritten ==
    ASSUME NEW T, NEW U, NEW q \in Seq(T), Unrepeated(q), NEW r,
           r = [i \in DOMAIN q |-> r[i]], \A i \in DOMAIN q : r[i] \in U /\ r[i].id = q[i].id
    PROVE  r \in Seq(U) /\ Unrepeated(r)
<1>1. PICK n \in Nat : DOMAIN q = 1..n
  OBVIOUS
<1>2. r \in [1..n -> U]
  BY <1>1
<1> QED BY <1>1, <1>2 DEF Unrepeated

LEMMA NamesAre ==
    /\ \A t \in Turns : <<"u", t>> \in Names /\ <<"c", t>> \in Names /\ <<"r", t>> \in Names
         /\ <<"p", t>> \in Names /\ <<"su", t>> \in Names /\ <<"local", t>> \in Names
    /\ NoName \in Names
BY DEF Names

LEMMA Clock ==
    \A t \in Turns : t \in Nat /\ t # 0 /\ 3 * t \in Nat /\ 3 * t + 1 \in Nat /\ 3 * t + 1 + 1 \in Nat
BY ChatAssumption DEF Turns

\* The messages the page and the server make for a turn that was requested.
LEMMA AskedOwn ==
    ASSUME NEW tn \in Logs, NEW t \in Turns, tn[t].phase # "unused", tn[t].sid \in Sessions,
           NEW text \in Texts \cup {NoText}
    PROVE  UserMsg(t, text) \in OwnOf(tn[t].sid, tn)
<1>1. UserMsg(t, text) \in MessageSet
  BY NamesAre, Clock DEF UserMsg, MessageSet, Statuses
<1>2. /\ UserMsg(t, text).id = <<"u", t>> /\ UserMsg(t, text).corr = t /\ UserMsg(t, text).key = <<"c", t>>
      /\ UserMsg(t, text).role = "user" /\ UserMsg(t, text).srv = NoName
  BY DEF UserMsg
<1>3. Labelled(UserMsg(t, text), tn)
  BY <1>2 DEF Labelled, KeyOf, Keys
<1> QED BY <1>1, <1>2, <1>3 DEF OwnOf

IsReply(m, t) ==
    /\ m.id = <<"r", t>> /\ m.corr = t /\ m.role = "assistant"
    /\ m.key \in {NoName} \cup ({"p"} \X Turns)
    /\ m.srv \in {NoName} \cup ({"local", "r"} \X Turns)

LEMMA ReplyOwn ==
    ASSUME NEW tn \in Logs, NEW t \in Turns, tn[t].phase # "unused", tn[t].sid \in Sessions,
           tn[t].phase = "queued" => tn[t].skip,
           NEW m \in MessageSet, IsReply(m, t),
           tn[t].phase = "closed" /\ tn[t].aborted => ~isStreaming(m)
    PROVE  m \in OwnOf(tn[t].sid, tn)
<1>1. Labelled(m, tn)
  BY DEF Labelled, IsReply
<1> QED BY <1>1 DEF OwnOf, IsReply

LEMMA ReplyIs ==
    ASSUME NEW t \in Turns
    PROVE  ReplyMsg(t) \in MessageSet /\ IsReply(ReplyMsg(t), t)
<1>1. ReplyMsg(t) \in MessageSet
  BY NamesAre, Clock DEF ReplyMsg, MessageSet, Statuses
<1>2. IsReply(ReplyMsg(t), t)
  BY DEF ReplyMsg, IsReply
<1> QED BY <1>1, <1>2

LEMMA SettledOwn ==
    ASSUME NEW s \in Sessions, NEW tn \in Logs, NEW m \in OwnOf(s, tn),
           NEW status \in {"succeeded", "failed", "cancelled"}
    PROVE  [m EXCEPT !.status = status] \in OwnOf(s, tn)
<1> DEFINE n == [m EXCEPT !.status = status]
<1>1. n \in MessageSet
  BY DEF OwnOf, MessageSet, Statuses
<1>2. /\ n.id = m.id /\ n.role = m.role /\ n.corr = m.corr /\ n.key = m.key /\ n.srv = m.srv
      /\ n.status = status
  BY DEF OwnOf, MessageSet
<1>3. Labelled(m, tn)
  BY DEF OwnOf
<1> HIDE DEF n
<1>4. Labelled(n, tn)
  BY <1>2, <1>3 DEF Labelled
<1>5. ~isStreaming(n)
  BY <1>2 DEF isStreaming, Unsettled
<1> QED BY <1>1, <1>2, <1>4, <1>5 DEF OwnOf, n

\* A turn's requests go on: they keep their session, and are not queued again.
GoesOn(a, b) ==
    a.phase # "unused" => /\ b.phase # "unused" /\ b.sid = a.sid /\ b.skip = a.skip /\ b.key = a.key
                          /\ b.phase = "queued" => a.phase = "queued"

\* No stream is aborted by it.
Calm(a, b) == b.phase = "closed" /\ b.aborted => a.phase = "closed" /\ a.aborted

LEMMA LabelGoesOn ==
    ASSUME NEW tn \in Logs, NEW un \in Logs, NEW s, NEW m \in OwnOf(s, tn),
           \A t \in Turns : tn[t].phase # "unused" => un[t].key = tn[t].key
    PROVE  Labelled(m, un)
<1>1. Labelled(m, tn) /\ m.id \in {"u", "su", "r"} \X Turns /\ tn[m.id[2]].phase # "unused"
  BY DEF OwnOf
<1>2. m.id[2] \in Turns
  BY <1>1
<1>3. un[m.id[2]].key = tn[m.id[2]].key
  BY <1>1, <1>2
<1> QED BY <1>1, <1>3 DEF Labelled, KeyOf

LEMMA StoredGoesOn ==
    ASSUME NEW s \in Sessions, NEW tn \in Logs, NEW un \in Logs, \A t \in Turns : GoesOn(tn[t], un[t])
    PROVE  StoredOf(s, tn) \subseteq StoredOf(s, un)
<1>1. \A m \in OwnOf(s, tn) : Labelled(m, un)
  BY LabelGoesOn DEF GoesOn
<1> QED BY <1>1 DEF StoredOf, OwnOf, GoesOn, MessageSet

LEMMA KeptGoesOn ==
    ASSUME NEW tn \in Logs, NEW un \in Logs, \A t \in Turns : GoesOn(tn[t], un[t]),
           NEW sn, NEW cv, ServerSound(sn, cv, tn)
    PROVE  ServerSound(sn, cv, un)
<1> SUFFICES ASSUME NEW s \in Sessions
             PROVE  sn[s] \in Seq(StoredOf(s, un)) /\ cv[s] \in Seq(StoredOf(s, un))
  BY DEF ServerSound
<1>1. StoredOf(s, tn) \subseteq StoredOf(s, un)
  BY StoredGoesOn
<1> QED BY <1>1, Wider DEF ServerSound

LEMMA OwnGoesOn ==
    ASSUME NEW s \in Sessions, NEW tn \in Logs, NEW un \in Logs,
           \A t \in Turns : GoesOn(tn[t], un[t]) /\ Calm(tn[t], un[t])
    PROVE  OwnOf(s, tn) \subseteq OwnOf(s, un)
<1>1. \A m \in OwnOf(s, tn) : Labelled(m, un)
  BY LabelGoesOn DEF GoesOn
<1> QED BY <1>1 DEF OwnOf, GoesOn, Calm, MessageSet

LEMMA SoundGoesOn ==
    ASSUME NEW tn \in Logs, NEW un \in Logs, NEW st, Sound(st, tn),
           \A t \in Turns : GoesOn(tn[t], un[t]) /\ Calm(tn[t], un[t])
    PROVE  Sound(st, un)
<1>1. ASSUME NEW s \in Sessions
      PROVE  st.msgs[s] \in Seq(OwnOf(s, un)) /\ (st.pending[s] # 0 => un[st.pending[s]].phase # "unused")
  <2>1. OwnOf(s, tn) \subseteq OwnOf(s, un)
    BY OwnGoesOn
  <2>2. st.msgs[s] \in Seq(OwnOf(s, un))
    BY <2>1, Wider DEF Sound
  <2>3. st.pending[s] \in Turns \cup {0}
    BY DEF Sound, Tab
  <2> QED BY <2>2, <2>3 DEF Sound, GoesOn
<1> QED BY <1>1 DEF Sound

-----------------------------------------------------------------------------
\* The reducer keeps a sound page sound.
LEMMA NewList ==
    ASSUME NEW tn \in Logs, NEW st, Sound(st, tn), NEW s \in Sessions, Live(st, s),
           NEW q \in Seq(OwnOf(s, tn)), Unrepeated(q)
    PROVE  /\ Sound([st EXCEPT !.msgs[s] = q], tn)
           /\ [st EXCEPT !.msgs[s] = q].abort = st.abort
<1>1. OwnOf(s, tn) \subseteq MessageSet
  BY DEF OwnOf
<1>2. q \in Seq(MessageSet)
  BY <1>1, Wider
<1>3. [st EXCEPT !.msgs[s] = q] \in Tab
  BY <1>2 DEF Sound, Tab
<1> QED BY <1>3 DEF Sound, Tab, Live

LEMMA AppendKeeps ==
    ASSUME NEW tn \in Logs, NEW st, Sound(st, tn), NEW s \in Sessions, NEW m \in OwnOf(s, tn),
           \A i \in DOMAIN st.msgs[s] : st.msgs[s][i].id # m.id
    PROVE  Sound(AppendMsg(st, s, m), tn) /\ AppendMsg(st, s, m).abort = st.abort
<1> DEFINE q == st.msgs[s]
           same == {i \in DOMAIN q : q[i].id = m.id \/ (m.key # NoName /\ q[i].key = m.key)}
<1>1. q \in Seq(OwnOf(s, tn)) /\ Unrepeated(q)
  BY DEF Sound
<1>2. CASE ~ Live(st, s)
  BY <1>2 DEF AppendMsg
<1>3. CASE Live(st, s) /\ same = {}
  <2> DEFINE l == Append(q, m)
  <2>1. l \in Seq(OwnOf(s, tn)) /\ Unrepeated(l)
    BY <1>1, Appended
  <2>2. AppendMsg(st, s, m) = [st EXCEPT !.msgs[s] = l]
    BY <1>3 DEF AppendMsg, Sound, Tab
  <2> HIDE DEF l
  <2> QED BY <1>3, <2>1, <2>2, NewList
<1>4. CASE Live(st, s) /\ same # {}
  <2>1. PICK k \in same : \A j \in same : k <= j
    <3>1. same \in SUBSET Nat
      BY <1>1
    <3> QED BY <1>4, <3>1, Least
  <2>2. (CHOOSE i \in same : \A j \in same : i <= j) \in DOMAIN q
    BY <2>1
  <2> DEFINE c == CHOOSE i \in same : \A j \in same : i <= j
  <2> DEFINE l == [q EXCEPT ![c] = m]
  <2>3. AppendMsg(st, s, m) = [st EXCEPT !.msgs[s] = l]
    BY <1>4, <2>2 DEF AppendMsg, Sound, Tab
  <2> HIDE DEF c
  <2>4. l \in Seq(OwnOf(s, tn)) /\ Unrepeated(l)
    BY <1>1, <2>2, Replaced DEF c
  <2> HIDE DEF l
  <2> QED BY <1>4, <2>3, <2>4, NewList
<1> QED BY <1>2, <1>3, <1>4

LEMMA ReplaceKeeps ==
    ASSUME NEW tn \in Logs, NEW st, Sound(st, tn), NEW s \in Sessions, NEW m \in OwnOf(s, tn)
    PROVE  Sound(ReplaceMsg(st, s, m.id, m), tn) /\ ReplaceMsg(st, s, m.id, m).abort = st.abort
<1> DEFINE q == st.msgs[s]
           r == [i \in DOMAIN q |-> IF q[i].id = m.id THEN m ELSE q[i]]
<1>1. q \in Seq(OwnOf(s, tn)) /\ Unrepeated(q)
  BY DEF Sound
<1>2. CASE ~ Live(st, s)
  BY <1>2 DEF ReplaceMsg
<1>3. CASE Live(st, s) /\ \E i \in DOMAIN q : q[i].id = m.id
  <2>1. \A i \in DOMAIN q : r[i] \in OwnOf(s, tn) /\ r[i].id = q[i].id
    BY <1>1
  <2>2. ReplaceMsg(st, s, m.id, m) = [st EXCEPT !.msgs[s] = r]
    BY <1>3 DEF ReplaceMsg, Sound, Tab
  <2>3. r = [i \in DOMAIN q |-> r[i]]
    OBVIOUS
  <2> HIDE DEF r, q
  <2>4. r \in Seq(OwnOf(s, tn)) /\ Unrepeated(r)
    BY <1>1, <2>1, <2>3, Rewritten
  <2> QED BY <1>3, <2>2, <2>4, NewList
<1>4. CASE Live(st, s) /\ ~ \E i \in DOMAIN q : q[i].id = m.id
  <2> DEFINE l == Append(q, m)
  <2>1. l \in Seq(OwnOf(s, tn)) /\ Unrepeated(l)
    BY <1>1, <1>4, Appended
  <2>2. ReplaceMsg(st, s, m.id, m) = [st EXCEPT !.msgs[s] = l]
    BY <1>4 DEF ReplaceMsg, Sound, Tab
  <2> HIDE DEF l
  <2> QED BY <1>4, <2>1, <2>2, NewList
<1> QED BY <1>2, <1>3, <1>4

LEMMA StatusKeeps ==
    ASSUME NEW tn \in Logs, NEW st, Sound(st, tn), NEW s \in Sessions, NEW mids,
           NEW status \in {"succeeded", "failed", "cancelled"}
    PROVE  Sound(SetStatus(st, s, mids, status), tn) /\ SetStatus(st, s, mids, status).abort = st.abort
<1> DEFINE q == st.msgs[s]
           r == [i \in DOMAIN q |-> IF q[i].id \in mids THEN [q[i] EXCEPT !.status = status] ELSE q[i]]
<1>1. q \in Seq(OwnOf(s, tn)) /\ Unrepeated(q)
  BY DEF Sound
<1>2. CASE ~ Live(st, s)
  BY <1>2 DEF SetStatus
<1>3. CASE Live(st, s)
  <2>1. ASSUME NEW i \in DOMAIN q
        PROVE  r[i] \in OwnOf(s, tn) /\ r[i].id = q[i].id
    <3>1. q[i] \in OwnOf(s, tn)
      BY <1>1
    <3>2. [q[i] EXCEPT !.status = status] \in OwnOf(s, tn)
      BY <3>1, SettledOwn
    <3>3. [q[i] EXCEPT !.status = status].id = q[i].id
      BY <3>1 DEF OwnOf, MessageSet
    <3> QED BY <3>1, <3>2, <3>3
  <2>2. SetStatus(st, s, mids, status) = [st EXCEPT !.msgs[s] = r]
    BY <1>3 DEF SetStatus, Sound, Tab
  <2>3. r = [i \in DOMAIN q |-> r[i]]
    OBVIOUS
  <2> HIDE DEF r, q
  <2>4. r \in Seq(OwnOf(s, tn)) /\ Unrepeated(r)
    BY <1>1, <2>1, <2>3, Rewritten
  <2> QED BY <1>3, <2>2, <2>4, NewList
<1> QED BY <1>2, <1>3

\* A stream that was aborted leaves no reply streaming.
LEMMA SettledKeeps ==
    ASSUME NEW tn \in Logs, NEW t \in Turns, NEW x, Sound(x, [tn EXCEPT ![t].aborted = FALSE]),
           \A s \in Sessions : \A i \in DOMAIN x.msgs[s] :
              x.msgs[s][i].id = <<"r", t>> => ~isStreaming(x.msgs[s][i])
    PROVE  Sound(x, tn)
<1> DEFINE un == [tn EXCEPT ![t].aborted = FALSE]
<1>1. un \in Logs /\ \A y \in Turns : un[y].phase = tn[y].phase /\ un[y].sid = tn[y].sid /\ un[y].skip = tn[y].skip /\ un[y].key = tn[y].key
  BY DEF Logs, Requests
<1>2. Sound(x, un)
  OBVIOUS
<1>9. \A y \in Turns : y # t => un[y] = tn[y]
  BY DEF Logs
<1> HIDE DEF un
<1>3. ASSUME NEW s \in Sessions, NEW m \in OwnOf(s, un), m.id = <<"r", t>> => ~isStreaming(m)
      PROVE  m \in OwnOf(s, tn)
  <2>3. Labelled(m, tn)
    BY <1>1, LabelGoesOn
  <2>1. CASE m.id = <<"r", t>>
    BY <1>1, <1>3, <2>1, <2>3 DEF OwnOf, MessageSet
  <2>2. CASE m.id # <<"r", t>>
    <3>1. m.id[1] = "r" => m.id[2] # t
      BY <2>2 DEF OwnOf
    <3>2. m.id[1] = "r" => un[m.id[2]] = tn[m.id[2]]
      BY <1>9, <3>1 DEF OwnOf
    <3> QED BY <1>1, <2>3, <3>2 DEF OwnOf, MessageSet
  <2> QED BY <2>1, <2>2
<1>5. ASSUME NEW s \in Sessions
      PROVE  x.msgs[s] \in Seq(OwnOf(s, tn))
  <2>1. x.msgs[s] \in Seq(OwnOf(s, un))
    BY <1>2 DEF Sound
  <2>2. \A i \in DOMAIN x.msgs[s] : x.msgs[s][i] \in OwnOf(s, tn)
    BY <1>3, <2>1
  <2> QED BY <2>1, <2>2
<1>6. \A s \in Sessions : x.pending[s] \in Turns \cup {0}
  BY <1>2 DEF Sound, Tab
<1> QED BY <1>1, <1>2, <1>5, <1>6 DEF Sound

LEMMA CancelKeeps ==
    ASSUME NEW tn \in Logs, NEW t \in Turns, tn[t].sid \in Sessions, NEW st,
           Sound(st, [tn EXCEPT ![t].aborted = FALSE])
    PROVE  LET x == SetStatus(st, tn[t].sid, {<<"r", t>>}, "cancelled")
           IN  Sound(x, tn) /\ x.abort = st.abort
<1> DEFINE un == [tn EXCEPT ![t].aborted = FALSE]
           x == SetStatus(st, tn[t].sid, {<<"r", t>>}, "cancelled")
<1>1. un \in Logs /\ un[t].sid = tn[t].sid
  BY DEF Logs, Requests
<1>2. Sound(x, un) /\ x.abort = st.abort
  BY <1>1, StatusKeeps
<1>3. Sound(st, un)
  OBVIOUS
<1> HIDE DEF x, un
<1>4. ASSUME NEW s \in Sessions, NEW i \in DOMAIN x.msgs[s], x.msgs[s][i].id = <<"r", t>>
      PROVE  ~isStreaming(x.msgs[s][i])
  <2>1. x.msgs[s][i] \in OwnOf(s, un)
    BY SMTT(30), <1>2, ElementOf DEF Sound
  <2>2. s = tn[t].sid
    BY <1>1, <1>4, <2>1 DEF OwnOf
  <2>3. Live(st, s)
    <3>1. CASE ~ Live(st, s)
      <4>1. x = st
        BY <2>2, <3>1 DEF x, SetStatus
      <4>2. x.msgs[s] = <<>>
        BY <1>2, <4>1, <3>1 DEF Sound, Live
      <4> QED BY <1>4, <4>2
    <3> QED BY <3>1
  <2>4. st.msgs[s] \in Seq(MessageSet)
    BY SMTT(30), <1>3 DEF Sound, Tab
  <2>5. x.msgs[s] = [j \in DOMAIN st.msgs[s] |->
               IF st.msgs[s][j].id \in {<<"r", t>>} THEN [st.msgs[s][j] EXCEPT !.status = "cancelled"]
               ELSE st.msgs[s][j]]
    BY ZenonT(40), <1>3, <2>2, <2>3 DEF x, SetStatus, Sound, Tab
  <2>6. i \in DOMAIN st.msgs[s] /\ st.msgs[s][i] \in MessageSet
    BY <1>4, <2>4, <2>5
  <2>7. x.msgs[s][i].status = "cancelled"
    BY ZenonT(40), <1>4, <2>5, <2>6 DEF MessageSet
  <2> QED BY <2>7 DEF isStreaming, Unsettled
<1>5. Sound(x, tn)
  BY <1>2, <1>4, SettledKeeps DEF un
<1> QED BY <1>2, <1>5 DEF x

\* ... nor does one that ended as if it had succeeded.
LEMMA FinalKeeps ==
    ASSUME NEW tn \in Logs, NEW t \in Turns, tn[t].sid \in Sessions, NEW st,
           Sound(st, [tn EXCEPT ![t].aborted = FALSE]),
           NEW m \in OwnOf(tn[t].sid, tn), m.id = <<"r", t>>, ~isStreaming(m)
    PROVE  LET x == ReplaceMsg(st, tn[t].sid, m.id, m)
           IN  Sound(x, tn) /\ x.abort = st.abort
<1> DEFINE un == [tn EXCEPT ![t].aborted = FALSE]
           x == ReplaceMsg(st, tn[t].sid, m.id, m)
<1>1. un \in Logs /\ \A y \in Turns : un[y].phase = tn[y].phase /\ un[y].sid = tn[y].sid /\ un[y].skip = tn[y].skip /\ un[y].key = tn[y].key
  BY ZenonT(40) DEF Logs, Requests
<1>3. Sound(st, un)
  OBVIOUS
<1> HIDE DEF un
<1>2. Sound(x, un) /\ x.abort = st.abort
  <2>1. Labelled(m, un)
    BY <1>1, LabelGoesOn
  <2>2. m \in OwnOf(tn[t].sid, un)
    BY <1>1, <2>1 DEF OwnOf, MessageSet
  <2> QED BY <1>1, <1>3, <2>2, ReplaceKeeps
<1> HIDE DEF x
<1>4. ASSUME NEW s \in Sessions, NEW i \in DOMAIN x.msgs[s], x.msgs[s][i].id = <<"r", t>>
      PROVE  ~isStreaming(x.msgs[s][i])
  <2> DEFINE q == st.msgs[s]
  <2>1. x.msgs[s][i] \in OwnOf(s, un)
    BY SMTT(30), <1>2, ElementOf DEF Sound
  <2>2. s = tn[t].sid
    BY <1>1, <1>4, <2>1 DEF OwnOf
  <2>3. Live(st, s)
    <3>1. CASE ~ Live(st, s)
      <4>1. x = st
        BY <2>2, <3>1 DEF x, ReplaceMsg
      <4>2. x.msgs[s] = <<>>
        BY <1>2, <4>1, <3>1 DEF Sound, Live
      <4> QED BY <1>4, <4>2
    <3> QED BY <3>1
  <2>4. q \in Seq(MessageSet)
    BY SMTT(30), <1>3 DEF Sound, Tab
  <2>5. CASE \E j \in DOMAIN q : q[j].id = m.id
    <3>1. x.msgs[s] = [j \in DOMAIN q |-> IF q[j].id = m.id THEN m ELSE q[j]]
      BY Zenon, <1>3, <2>2, <2>3, <2>5 DEF x, ReplaceMsg, Sound, Tab
    <3> QED BY ZenonT(40), <1>4, <3>1
  <2>6. CASE ~ \E j \in DOMAIN q : q[j].id = m.id
    <3>1. x.msgs[s] = Append(q, m)
      BY Zenon, <1>3, <2>2, <2>3, <2>6 DEF x, ReplaceMsg, Sound, Tab
    <3> HIDE DEF q
    <3>2. i \in DOMAIN q \/ x.msgs[s][i] = m
      BY <1>4, <2>4, <3>1
    <3>3. i \in DOMAIN q => x.msgs[s][i] = q[i]
      BY <2>4, <3>1
    <3> QED BY SMTT(30), <1>4, <2>6, <3>2, <3>3
  <2> QED BY <2>5, <2>6
<1>5. Sound(x, tn)
  BY <1>2, <1>4, SettledKeeps DEF un
<1> QED BY <1>2, <1>5 DEF x

LEMMA PendingKeeps ==
    ASSUME NEW tn \in Logs, NEW st, Sound(st, tn), NEW s \in Sessions, NEW t \in Turns \cup {0},
           t # 0 => tn[t].phase # "unused"
    PROVE  Sound(SetPending(st, s, t), tn) /\ SetPending(st, s, t).abort = st.abort
<1>1. SetPending(st, s, t) \in Tab
  BY DEF SetPending, Sound, Tab
<1> QED BY <1>1 DEF SetPending, Sound, Tab

LEMMA IdleKeeps ==
    ASSUME NEW tn \in Logs, NEW st, Sound(st, tn)
    PROVE  /\ Sound(Idle(st), tn) /\ Idle(st).abort = 0
           /\ Sound(IdleAndUnbound(st), tn) /\ IdleAndUnbound(st).abort = 0
<1>1. Idle(st) \in Tab /\ IdleAndUnbound(st) \in Tab
  BY DEF Idle, IdleAndUnbound, Sound, Tab
<1> QED BY <1>1 DEF Idle, IdleAndUnbound, Sound, Tab

LEMMA DelSessionKeeps ==
    ASSUME NEW tn \in Logs, NEW st, Sound(st, tn), NEW s \in Sessions
    PROVE  Sound(DelSession(st, s), tn) /\ DelSession(st, s).abort = st.abort
<1> DEFINE left == {x \in Sessions \ {s} : st.kind[x] = "live"}
           next == IF st.active # s THEN st.active ELSE IF left = {} THEN NoSession ELSE CHOOSE x \in left : TRUE
<1>1. next \in Sessions \cup {NoSession}
  BY DEF Sound, Tab
<1>2. DelSession(st, s) = [st EXCEPT !.kind[s] = "absent", !.msgs[s] = <<>>, !.pending[s] = 0, !.active = next]
  BY DEF DelSession, Sound, Tab
<1> HIDE DEF next
<1>4. <<>> \in Seq(OwnOf(s, tn)) /\ <<>> \in Seq(MessageSet) /\ Unrepeated(<<>>)
  BY DEF Unrepeated
<1>3. DelSession(st, s) \in Tab
  <2>1. st \in Tab
    BY DEF Sound
  <2>2. [st.msgs EXCEPT ![s] = <<>>] \in [Sessions -> Seq(MessageSet)]
    BY <1>4, <2>1 DEF Tab
  <2>3. [st.kind EXCEPT ![s] = "absent"] \in [Sessions -> {"absent", "live", "ghost"}]
    BY <2>1 DEF Tab
  <2>4. [st.pending EXCEPT ![s] = 0] \in [Sessions -> Turns \cup {0}]
    BY <2>1 DEF Tab
  <2>5. DelSession(st, s) = [st EXCEPT !.kind = [st.kind EXCEPT ![s] = "absent"],
               !.msgs = [st.msgs EXCEPT ![s] = <<>>], !.pending = [st.pending EXCEPT ![s] = 0],
               !.active = next]
    BY <1>2, <2>1 DEF Tab
  <2> QED BY <1>1, <2>1, <2>2, <2>3, <2>4, <2>5 DEF Tab
<1> QED BY <1>2, <1>3, <1>4 DEF Sound, Tab

LEMMA DelMsgKeeps ==
    ASSUME NEW tn \in Logs, NEW st, Sound(st, tn), NEW s \in Sessions, Live(st, s), NEW mid
    PROVE  Sound(DelMsg(st, s, mid), tn) /\ DelMsg(st, s, mid).abort = st.abort
<1> DEFINE q == Without(st.msgs[s], mid)
<1>1. q \in Seq(OwnOf(s, tn)) /\ Unrepeated(q)
  BY WithoutStays DEF Sound
<1>2. DelMsg(st, s, mid) = [st EXCEPT !.msgs[s] = q]
  BY DEF DelMsg, Sound, Tab
<1> HIDE DEF q
<1> QED BY <1>1, <1>2, NewList

-----------------------------------------------------------------------------
\* The settled messages whose questions ask what was asked under their name.
ToldOf(s, tn, asked) == {m \in StoredOf(s, tn) : m.role = "user" => m.text \in asked[m.key]}

Askers(q) == {i \in DOMAIN q : q[i].role = "user"}

\* No question is there twice.
Told(q) == \A i, j \in Askers(q) : q[i].id = q[j].id => i = j

UserName(name, tn, key) == name[1] \in {"u", "su", "c"} /\ KeyOf(name, tn) = key

\* A question goes by its own names, a reply by those of replies.
Entry(T, tn) ==
    {e \in [msg : T, names : SUBSET Names] :
        /\ e.msg.role = "user" => /\ e.msg.key \in e.names
                                  /\ \A name \in e.names : UserName(name, tn, e.msg.key)
        /\ e.msg.role = "assistant" => \A name \in e.names : name[1] \in {"r", "p", "local"}}

AskedBy(put) == {i \in DOMAIN put : put[i].msg.role = "user"}

Puts(T, tn) ==
    {put \in Seq(Entry(T, tn)) :
        \A i, j \in AskedBy(put) : put[i].msg.key = put[j].msg.key => i = j}

KeysIn(put) == {put[i].msg.key : i \in AskedBy(put)}

Registered(m) == Range(messageAliases(m)) \ {NoName}

LEMMA ToldIs ==
    ASSUME NEW s, NEW tn, NEW asked, NEW m \in ToldOf(s, tn, asked)
    PROVE  /\ m \in MessageSet /\ m \in StoredOf(s, tn) /\ m \in OwnOf(s, tn)
           /\ m.role \in {"user", "assistant"} /\ Labelled(m, tn) /\ ~isStreaming(m)
           /\ m.id \in Names /\ m.key \in Names /\ m.srv \in Names
           /\ m.role = "user" => m.text \in asked[m.key]
BY DEF ToldOf, StoredOf, OwnOf, MessageSet

LEMMA NamesOf ==
    ASSUME NEW s, NEW tn, NEW asked, NEW m \in ToldOf(s, tn, asked)
    PROVE  /\ Registered(m) \subseteq {m.key, m.srv, m.id} \ {NoName} /\ Registered(m) \in SUBSET Names
           /\ m.role = "user" => /\ m.key \in Registered(m)
                                 /\ \A name \in Registered(m) : UserName(name, tn, m.key)
           /\ m.role = "assistant" => \A name \in Registered(m) : name[1] \in {"r", "p", "local"}
<1>1. Registered(m) = {m.key, m.srv, m.id} \ {NoName}
  BY DEF Registered, Range, messageAliases
<1>2. Registered(m) \in SUBSET Names
  BY <1>1, ToldIs
<1>3. CASE m.role = "user"
  <2>1. /\ m.id[1] \in {"u", "su"} /\ m.srv = NoName /\ m.key \in Keys /\ m.key = KeyOf(m.id, tn)
    BY <1>3, ToldIs DEF Labelled
  <2>2. m.key[1] = "c" /\ m.key # NoName
    BY <2>1 DEF Keys, NoName
  <2>3. KeyOf(m.key, tn) = m.key
    BY <2>2 DEF KeyOf
  <2>4. Registered(m) \subseteq {m.key, m.id} /\ m.key \in Registered(m)
    BY <1>1, <2>1, <2>2
  <2> QED BY <1>1, <1>2, <1>3, <2>1, <2>2, <2>3, <2>4 DEF UserName
<1>4. CASE m.role = "assistant"
  <2>1. /\ m.id[1] = "r" /\ m.key \in {NoName} \cup ({"p"} \X Turns)
        /\ m.srv \in {NoName} \cup ({"local", "r"} \X Turns)
    BY <1>4, ToldIs DEF Labelled
  <2> QED BY <1>1, <1>2, <1>4, <2>1
<1> QED BY <1>3, <1>4, ToldIs

\* Two settled messages of one role, and one name when they are questions, make a third.
LEMMA PairStays ==
    ASSUME NEW s \in Sessions, NEW tn \in Logs, NEW asked,
           NEW a \in ToldOf(s, tn, asked), NEW b \in ToldOf(s, tn, asked), NEW p \in BOOLEAN,
           a.role = b.role, a.role = "user" => a.key = b.key
    PROVE  LET m == mergeMessagePair(a, b, p)
           IN  /\ m \in ToldOf(s, tn, asked) /\ m.role = b.role
               /\ m.role = "user" => m.key = b.key
               /\ a.id = b.id => m.id = b.id
<1> DEFINE o == Overlay(a, b)
           m == mergeMessagePair(a, b, p)
           key == IF a.key # NoName THEN a.key ELSE b.key
           srvId == IF a.srv # NoName THEN a.srv ELSE b.srv
<1>1. /\ a \in MessageSet /\ b \in MessageSet /\ Labelled(a, tn) /\ Labelled(b, tn)
      /\ ~isStreaming(a) /\ ~isStreaming(b) /\ b \in OwnOf(s, tn)
      /\ b.role = "user" => b.text \in asked[b.key]
  BY ToldIs
<1>13. isStreaming(a) = isStreaming(b)
  BY <1>1 DEF isStreaming
<1>2. m \in {a, o}
  BY <1>13 DEF mergeMessagePair
<1>3. key \in Names /\ srvId \in Names
  BY <1>1 DEF MessageSet
<1>4. o = [b EXCEPT !.key = key, !.srv = srvId]
  BY DEF Overlay
<1>5. Labelled(b, tn) => /\ b.role = "user" => key = b.key /\ srvId = b.srv
                         /\ b.role = "assistant" =>
                              /\ key \in {NoName} \cup ({"p"} \X Turns)
                              /\ srvId \in {NoName} \cup ({"local", "r"} \X Turns)
  BY <1>1 DEF Labelled, Keys, NoName
<1> HIDE DEF key, srvId, m
<1>6. o \in MessageSet
  BY <1>1, <1>3, <1>4 DEF MessageSet
<1>7. /\ o.id = b.id /\ o.role = b.role /\ o.corr = b.corr /\ o.text = b.text /\ o.status = b.status
      /\ o.key = key /\ o.srv = srvId
  BY <1>1, <1>3, <1>4 DEF MessageSet
<1> HIDE DEF o
<1>8. Labelled(o, tn)
  BY <1>1, <1>5, <1>7 DEF Labelled
<1>9. ~isStreaming(o)
  BY <1>1, <1>7 DEF isStreaming
<1>10. o \in OwnOf(s, tn)
  BY <1>1, <1>6, <1>7, <1>8, <1>9 DEF OwnOf
<1>11. o.role = "user" => o.key = b.key
  BY <1>1, <1>5, <1>7
<1>12. o \in ToldOf(s, tn, asked)
  BY <1>1, <1>7, <1>9, <1>10, <1>11 DEF ToldOf, StoredOf
<1> QED BY <1>2, <1>7, <1>11, <1>12 DEF m

\* The entry that is found goes by one of the message's names; none is found when no entry does.
LEMMA Resolved ==
    ASSUME NEW put, NEW m
    PROVE  \/ /\ resolveKey(put, m) = 0
              /\ \A j \in DOMAIN put, k \in 1..3 : messageAliases(m)[k] \notin put[j].names
           \/ /\ resolveKey(put, m) \in DOMAIN put
              /\ \E k \in 1..3 : messageAliases(m)[k] \in put[resolveKey(put, m)].names
<1> DEFINE Hits(k) == {i \in DOMAIN put : messageAliases(m)[k] \in put[i].names}
           known == {k \in 1..3 : Hits(k) # {}}
<1>1. CASE known = {}
  BY <1>1 DEF resolveKey
<1>2. CASE known # {}
  <2>1. PICK k \in known : \A x \in known : k <= x
    <3>1. known \in SUBSET Nat
      OBVIOUS
    <3> HIDE DEF known
    <3> QED BY <1>2, <3>1, Least
  <2>2. Min(known) \in known
    BY <2>1 DEF Min
  <2>3. resolveKey(put, m) = CHOOSE i \in Hits(Min(known)) : TRUE
    BY <1>2 DEF resolveKey
  <2>4. Hits(Min(known)) # {}
    BY <2>2
  <2> QED BY <2>2, <2>3, <2>4
<1> QED BY <1>1, <1>2

\* An entry that goes by a message's name is one of its kind, and of its question.
LEMMA OfItsKind ==
    ASSUME NEW s, NEW tn, NEW asked, NEW m \in ToldOf(s, tn, asked),
           NEW e \in Entry(ToldOf(s, tn, asked), tn),
           NEW k \in 1..3, messageAliases(m)[k] \in e.names
    PROVE  e.msg.role = m.role /\ (m.role = "user" => e.msg.key = m.key)
<1> DEFINE name == messageAliases(m)[k]
<1>1. /\ e.msg \in ToldOf(s, tn, asked)
      /\ e.msg.role = "user" => UserName(name, tn, e.msg.key)
      /\ e.msg.role = "assistant" => name[1] \in {"r", "p", "local"}
  BY DEF Entry
<1>2. e.msg.role \in {"user", "assistant"} /\ m.role \in {"user", "assistant"}
  BY <1>1, ToldIs
<1>3. name \in {m.key, m.srv, m.id}
  BY DEF messageAliases
<1> HIDE DEF name
<1>4. name # NoName
  BY <1>1, <1>2 DEF NoName, UserName
<1>5. name \in Registered(m)
  BY <1>3, <1>4 DEF Registered, Range, messageAliases
<1>6. /\ m.role = "user" => UserName(name, tn, m.key)
      /\ m.role = "assistant" => name[1] \in {"r", "p", "local"}
  BY <1>5, NamesOf
<1> QED BY <1>1, <1>2, <1>6 DEF UserName

LEMMA Lengths ==
    ASSUME NEW T, NEW x \in Seq(T), NEW q \in Seq(T)
    PROVE  x \o q \in Seq(T) /\ Len(x \o q) = Len(x) + Len(q)
OBVIOUS

\* One entry of a sequence takes the place of another.
InPlace(q, i, e) == [j \in DOMAIN q |-> IF j = i THEN e ELSE q[j]]

LEMMA Spliced ==
    ASSUME NEW T, NEW q \in Seq(T), NEW i \in DOMAIN q, NEW e \in T
    PROVE  SubSeq(q, 1, i - 1) \o <<e>> \o SubSeq(q, i + 1, Len(q)) = InPlace(q, i, e)
<1> DEFINE a == SubSeq(q, 1, i - 1)
           b == SubSeq(q, i + 1, Len(q))
<1>1. i \in 1..Len(q) /\ Len(q) \in Nat /\ DOMAIN q = 1..Len(q)
  OBVIOUS
<1>2. a \in Seq(T) /\ Len(a) = i - 1 /\ \A j \in 1..(i - 1) : a[j] = q[j]
  BY <1>1
<1>3. b \in Seq(T) /\ Len(b) = Len(q) - i /\ \A j \in 1..(Len(q) - i) : b[j] = q[i + j]
  BY <1>1
<1> HIDE DEF a, b
<1>4. /\ a \o <<e>> \in Seq(T) /\ Len(a \o <<e>>) = i /\ (a \o <<e>>)[i] = e
      /\ \A j \in 1..(i - 1) : (a \o <<e>>)[j] = q[j]
  BY <1>1, <1>2
<1> DEFINE c == a \o <<e>>
           d == c \o b
<1>5. c \in Seq(T) /\ Len(c) = i /\ c[i] = e /\ \A j \in 1..(i - 1) : c[j] = q[j]
  BY <1>4
<1> HIDE DEF c
<1>6. d \in Seq(T) /\ Len(d) = Len(q) /\ DOMAIN d = 1..Len(q)
  <2>1. d \in Seq(T) /\ Len(d) = Len(c) + Len(b)
    <3>1. c \in Seq(T) /\ b \in Seq(T)
      BY <1>3, <1>5
    <3> QED BY ONLY <3>1, Lengths DEF d
  <2>2. Len(d) = Len(q)
    BY <1>1, <1>3, <1>5, <2>1
  <2> HIDE DEF d
  <2> QED BY <2>1, <2>2
<1>7. \A j \in 1..i : d[j] = c[j]
  BY <1>1, <1>3, <1>5
<1>8. \A j \in 1..Len(q) : j > i => d[j] = b[j - i]
  BY <1>1, <1>3, <1>5
<1> HIDE DEF d
<1>9. ASSUME NEW j \in 1..Len(q)
      PROVE  d[j] = IF j = i THEN e ELSE q[j]
  <2>1. CASE j <= i
    BY <1>1, <1>5, <1>7, <2>1
  <2>2. CASE j > i
    <3>1. j - i \in 1..(Len(q) - i) /\ i + (j - i) = j
      BY <1>1, <2>2
    <3> QED BY <1>1, <1>3, <1>8, <2>2, <3>1
  <2> QED BY <1>1, <2>1, <2>2
<1>10. d = [j \in 1..Len(q) |-> d[j]]
  BY <1>6
<1> QED BY <1>1, <1>9, <1>10 DEF a, b, c, d, InPlace

\* A message put among the others: each question stays there once, and is there then.
LEMMA PutStays ==
    ASSUME NEW s \in Sessions, NEW tn \in Logs, NEW asked, NEW m \in ToldOf(s, tn, asked),
           NEW p \in BOOLEAN, NEW put \in Puts(ToldOf(s, tn, asked), tn)
    PROVE  /\ Put(put, m, p) \in Puts(ToldOf(s, tn, asked), tn)
           /\ KeysIn(put) \subseteq KeysIn(Put(put, m, p))
           /\ m.role = "user" => m.key \in KeysIn(Put(put, m, p))
<1> DEFINE T == ToldOf(s, tn, asked)
           i == resolveKey(put, m)
           merged == mergeMessagePair(put[i].msg, m, p)
           new == [msg |-> m, names |-> Registered(m)]
           r == Put(put, m, p)
<1>1. put \in Seq(Entry(T, tn)) /\ \A j, k \in AskedBy(put) : put[j].msg.key = put[k].msg.key => j = k
  BY DEF Puts
<1>2. \A j \in DOMAIN put : put[j] \in Entry(T, tn)
  BY <1>1, ElementOf
<1>3. m.role \in {"user", "assistant"}
  BY ToldIs
<1>4. CASE i = 0
  <2>1. new \in Entry(T, tn) /\ new.msg = m
    BY NamesOf DEF Entry
  <2>2. r = Append(put, new)
    BY <1>4 DEF Put, Registered
  <2>3. \A j \in DOMAIN put : m.key \notin put[j].names
    <3>1. \A j \in DOMAIN put : messageAliases(m)[1] \notin put[j].names
      <4>1. ~ (i \in DOMAIN put)
        BY <1>1, <1>4
      <4> QED BY <4>1, Resolved
    <3> QED BY <3>1 DEF messageAliases
  <2> HIDE DEF new, r, T
  <2>4. r \in Seq(Entry(T, tn))
    BY <1>1, <2>1, <2>2
  <2>5. /\ \A j \in DOMAIN r : IF j \in DOMAIN put THEN r[j] = put[j] ELSE j = Len(put) + 1 /\ r[j] = new
        /\ \A j \in DOMAIN put : j \in DOMAIN r /\ r[j] = put[j]
        /\ Len(put) + 1 \in DOMAIN r /\ r[Len(put) + 1] = new
    BY <1>1, <2>2
  <2>6. \A j \in AskedBy(put) : put[j].msg.key # m.key
    BY <1>2, <2>3 DEF AskedBy, Entry
  <2>7. ASSUME NEW j \in AskedBy(r), NEW k \in AskedBy(r), r[j].msg.key = r[k].msg.key
        PROVE  j = k
    <3>1. \A x \in AskedBy(r) : \/ x \in AskedBy(put) /\ r[x] = put[x]
                                \/ x = Len(put) + 1 /\ r[x].msg = m
      BY <2>1, <2>5 DEF AskedBy
    <3> QED BY <1>1, <2>6, <2>7, <3>1
  <2>8. r \in Puts(T, tn)
    BY <2>4, <2>7 DEF Puts
  <2>9. KeysIn(put) \subseteq KeysIn(r)
    BY <2>5 DEF KeysIn, AskedBy
  <2>10. m.role = "user" => m.key \in KeysIn(r)
    BY <2>1, <2>5 DEF KeysIn, AskedBy
  <2> QED BY <2>8, <2>9, <2>10 DEF r, T
<1>5. CASE i # 0
  <2>1. i \in DOMAIN put /\ \E k \in 1..3 : messageAliases(m)[k] \in put[i].names
    BY <1>5, Resolved
  <2>2. put[i].msg.role = m.role /\ (m.role = "user" => put[i].msg.key = m.key)
    BY <1>2, <2>1, OfItsKind
  <2>3. put[i].msg \in T
    BY <1>2, <2>1 DEF Entry
  <2>4. merged \in T /\ merged.role = m.role /\ (merged.role = "user" => merged.key = m.key)
    BY <2>2, <2>3, PairStays
  <2> DEFINE old == put[i].names
             At(j) == IF j = i THEN [msg |-> merged, names |-> put[j].names \cup Registered(merged)]
                      ELSE [put[j] EXCEPT !.names = @ \ Registered(merged)]
  <2>5. r = [j \in DOMAIN put |-> At(j)]
    <3> DEFINE others == [j \in DOMAIN put |-> [put[j] EXCEPT !.names = @ \ Registered(merged)]]
               taken == [msg |-> merged, names |-> put[i].names \cup Registered(merged)]
               X == {others[j] : j \in DOMAIN put} \cup {taken}
    <3>1. r = SubSeq(others, 1, i - 1) \o <<taken>> \o SubSeq(others, i + 1, Len(put))
      BY <1>5 DEF Put, Registered
    <3>2. PICK n \in Nat : DOMAIN put = 1..n /\ Len(put) = n
      BY <1>1
    <3>3. others \in [1..n -> X] /\ DOMAIN others = DOMAIN put /\ taken \in X
      BY <3>2
    <3>4. \A j \in DOMAIN put : IF j = i THEN At(j) = taken ELSE At(j) = others[j]
      BY <2>1
    <3> HIDE DEF others, taken, X, At, r, i
    <3>5. others \in Seq(X) /\ Len(others) = Len(put)
      BY <3>2, <3>3
    <3>6. r = [j \in DOMAIN put |-> IF j = i THEN taken ELSE others[j]]
      <4>1. i \in DOMAIN others
        BY <2>1, <3>3
      <4>2. r = SubSeq(others, 1, i - 1) \o <<taken>> \o SubSeq(others, i + 1, Len(others))
        BY <3>1, <3>5
      <4>3. SubSeq(others, 1, i - 1) \o <<taken>> \o SubSeq(others, i + 1, Len(others))
              = InPlace(others, i, taken)
        BY ZenonT(40), <3>3, <3>5, <4>1, Spliced
      <4> QED BY <3>3, <4>2, <4>3 DEF InPlace
    <3> QED BY <3>4, <3>6
  <2> HIDE DEF merged, T, r, i
  <2>6. /\ Registered(merged) \in SUBSET Names
        /\ merged.role = "user" => \A name \in Registered(merged) : UserName(name, tn, merged.key)
        /\ merged.role = "assistant" => \A name \in Registered(merged) : name[1] \in {"r", "p", "local"}
    BY <2>4, NamesOf DEF T
  <2>7. At(i) \in Entry(T, tn) /\ At(i).msg = merged
    <3>1. put[i] \in Entry(T, tn)
      BY <1>2, <2>1
    <3> QED BY <2>2, <2>4, <2>6, <3>1 DEF Entry
  <2>8. ASSUME NEW j \in DOMAIN put, j # i
        PROVE  At(j) \in Entry(T, tn) /\ At(j).msg = put[j].msg
    <3>1. put[j] \in Entry(T, tn)
      BY <1>2
    <3>2. At(j) = [put[j] EXCEPT !.names = @ \ Registered(merged)]
      BY <2>8
    <3> HIDE DEF At
    <3>3. At(j).msg = put[j].msg /\ At(j).names = put[j].names \ Registered(merged)
          /\ At(j) \in [msg : T, names : SUBSET Names]
      BY <3>1, <3>2 DEF Entry
    <3>4. ASSUME put[j].msg.role = "user"
          PROVE  put[j].msg.key \notin Registered(merged)
      <4>1. UserName(put[j].msg.key, tn, put[j].msg.key)
        BY <3>1, <3>4 DEF Entry
      <4>2. merged.role = "user" => put[j].msg.key # merged.key
        BY <1>1, <2>1, <2>2, <2>4, <2>8, <3>4 DEF AskedBy
      <4>3. merged.role \in {"user", "assistant"}
        BY <1>3, <2>4
      <4> QED BY <2>6, <4>1, <4>2, <4>3 DEF UserName
    <3> QED BY <3>1, <3>3, <3>4 DEF Entry
  <2>9. PICK n \in Nat : DOMAIN put = 1..n
    BY <1>1
  <2> HIDE DEF At
  <2>10. \A j \in DOMAIN put : At(j) \in Entry(T, tn)
    BY <2>7, <2>8
  <2>11. r \in [1..n -> Entry(T, tn)]
    BY <2>5, <2>9, <2>10
  <2>12. \A j \in DOMAIN put : j \in DOMAIN r /\ r[j] = At(j)
    BY <2>5
  <2>13. AskedBy(r) = AskedBy(put) /\ \A j \in AskedBy(put) : r[j].msg.key = put[j].msg.key
    <3>1. DOMAIN r = DOMAIN put
      BY <2>5
    <3>2. ASSUME NEW j \in DOMAIN put
          PROVE  /\ r[j].msg.role = put[j].msg.role
                 /\ put[j].msg.role = "user" => r[j].msg.key = put[j].msg.key
      <4>1. CASE j = i
        BY <2>2, <2>4, <2>7, <2>12, <4>1
      <4>2. CASE j # i
        BY <2>8, <2>12, <4>2
      <4> QED BY <4>1, <4>2
    <3> QED BY <3>1, <3>2 DEF AskedBy
  <2>14. r \in Seq(Entry(T, tn))
    BY <2>11
  <2>15. r \in Puts(T, tn)
    BY <1>1, <2>13, <2>14 DEF Puts
  <2>16. KeysIn(r) = KeysIn(put)
    BY <2>13 DEF KeysIn
  <2>17. m.role = "user" => m.key \in KeysIn(put)
    BY <2>1, <2>2 DEF KeysIn, AskedBy
  <2> QED BY <2>15, <2>16, <2>17 DEF T, r
<1> QED BY <1>4, <1>5

\* A list put message by message: its questions are there then.
LEMMA AllPut ==
    ASSUME NEW s \in Sessions, NEW tn \in Logs, NEW asked, NEW msgs \in Seq(ToldOf(s, tn, asked)),
           NEW p \in BOOLEAN, NEW put \in Puts(ToldOf(s, tn, asked), tn)
    PROVE  /\ PutAll(put, msgs, p) \in Puts(ToldOf(s, tn, asked), tn)
           /\ KeysIn(put) \subseteq KeysIn(PutAll(put, msgs, p))
           /\ \A j \in Askers(msgs) : msgs[j].key \in KeysIn(PutAll(put, msgs, p))
<1> DEFINE T == ToldOf(s, tn, asked)
           Q == Puts(T, tn)
           n == Len(msgs)
<1>1. /\ \A q \in Q, m \in T : Put(q, m, p) \in Q
      /\ \A q \in Q, m \in T : /\ KeysIn(q) \subseteq KeysIn(Put(q, m, p))
                               /\ m.role = "user" => m.key \in KeysIn(Put(q, m, p))
  BY PutStays
<1>2. n \in Nat /\ DOMAIN msgs = 1..n /\ \A j \in 1..n : msgs[j] \in T
  OBVIOUS
<1> HIDE DEF Q, T
<1>3. PICK it \in [0..n -> Q] : PutsUp(it, n, put, msgs, p)
  <2>1. msgs \in Seq(T) /\ put \in Q
    BY DEF Q, T
  <2> QED BY <1>1, <2>1, PutAllUnfolds
<1> HIDE DEF n
<1> DEFINE S == {k \in 0..n : /\ KeysIn(put) \subseteq KeysIn(it[k])
                              /\ \A j \in Askers(msgs) : j <= k => msgs[j].key \in KeysIn(it[k])}
<1>4. 0 \in S
  BY <1>2, <1>3 DEF PutsUp, Askers
<1>5. ASSUME NEW k \in 0..(n - 1), k \in S
      PROVE  k + 1 \in S
  <2>1. k + 1 \in 0..n /\ k + 1 \in 1..n /\ k \in 0..n
    BY <1>2
  <2>2. it[k + 1] = Put(it[k], msgs[k + 1], p) /\ it[k] \in Q /\ msgs[k + 1] \in T
    BY <1>2, <1>3, <2>1 DEF PutsUp
  <2>3. /\ KeysIn(it[k]) \subseteq KeysIn(it[k + 1])
        /\ msgs[k + 1].role = "user" => msgs[k + 1].key \in KeysIn(it[k + 1])
    BY <1>1, <2>2
  <2>4. \A j \in Askers(msgs) : j <= k + 1 => j <= k \/ (j = k + 1 /\ msgs[k + 1].role = "user")
    BY <1>2 DEF Askers
  <2> QED BY <1>5, <2>1, <2>3, <2>4
<1> HIDE DEF S
<1>6. n \in S
  BY <1>2, <1>4, <1>5, Climb
<1>7. it[n] = PutAll(put, msgs, p) /\ it[n] \in Q
  BY <1>2, <1>3 DEF PutsUp
<1>8. \A j \in Askers(msgs) : j <= n
  BY <1>2 DEF Askers
<1> QED BY <1>6, <1>7, <1>8 DEF S, Q, T

\* Every question of the page is in the merged list, under its name, and no name twice.
LEMMA MergeStays ==
    ASSUME NEW s \in Sessions, NEW tn \in Logs, NEW asked,
           NEW local \in Seq(ToldOf(s, tn, asked)), NEW server \in Seq(ToldOf(s, tn, asked))
    PROVE  LET r == mergeConversationMessages(local, server)
           IN  /\ r \in Seq(ToldOf(s, tn, asked))
               /\ local # <<>> /\ Unrepeated(local) => Told(r)
               /\ local # <<>> => \A j \in Askers(local) : \E k \in Askers(r) : r[k].key = local[j].key
<1> DEFINE T == ToldOf(s, tn, asked)
           one == PutAll(<<>>, local, FALSE)
           both == PutAll(one, server, TRUE)
           r == mergeConversationMessages(local, server)
<1>1. CASE server = <<>> \/ local = <<>>
  <2>1. IF server = <<>> THEN r = local ELSE r = server
    BY <1>1 DEF mergeConversationMessages
  <2>2. Unrepeated(local) => Told(local)
    BY DEF Told, Unrepeated, Askers
  <2> QED BY <1>1, <2>1, <2>2
<1>2. CASE server # <<>> /\ local # <<>>
  <2>1. <<>> \in Puts(T, tn)
    BY DEF Puts, AskedBy
  <2>2. one \in Puts(T, tn) /\ \A j \in Askers(local) : local[j].key \in KeysIn(one)
    BY <2>1, AllPut
  <2> HIDE DEF one
  <2>3. both \in Puts(T, tn) /\ KeysIn(one) \subseteq KeysIn(both)
    BY <2>2, AllPut
  <2>4. r = [i \in DOMAIN both |-> both[i].msg]
    BY <1>2 DEF mergeConversationMessages, one
  <2> HIDE DEF both, r, T
  <2>5. both \in Seq(Entry(T, tn)) /\ \A j, k \in AskedBy(both) : both[j].msg.key = both[k].msg.key => j = k
    BY <2>3 DEF Puts
  <2>6. PICK n \in Nat : DOMAIN both = 1..n
    BY <2>5
  <2>7. \A i \in 1..n : both[i].msg \in T
    <3>1. \A i \in 1..n : both[i] \in Entry(T, tn)
      BY <2>5, <2>6, ElementOf
    <3> QED BY <3>1 DEF Entry
  <2>8. r \in [1..n -> T] /\ \A i \in 1..n : r[i] = both[i].msg
    BY <2>4, <2>6, <2>7
  <2>9. r \in Seq(T)
    BY <2>8
  <2>10. Askers(r) = AskedBy(both) /\ \A i \in Askers(r) : r[i] = both[i].msg /\ r[i] \in T /\ r[i].role = "user"
    BY <2>6, <2>7, <2>8 DEF Askers, AskedBy
  <2>11. \A i \in Askers(r) : r[i].key = KeyOf(r[i].id, tn)
    BY <2>10, ToldIs DEF Labelled, T
  <2>12. Told(r)
    <3> SUFFICES ASSUME NEW i \in Askers(r), NEW j \in Askers(r), r[i].id = r[j].id
                 PROVE  i = j
      BY DEF Told
    <3>1. r[i].key = r[j].key
      BY <2>11
    <3> QED BY <2>5, <2>10, <3>1
  <2>13. \A j \in Askers(local) : \E k \in Askers(r) : r[k].key = local[j].key
    <3> SUFFICES ASSUME NEW j \in Askers(local)
                 PROVE  \E k \in Askers(r) : r[k].key = local[j].key
      OBVIOUS
    <3>1. local[j].key \in KeysIn(both)
      BY <2>2, <2>3
    <3>2. PICK k \in AskedBy(both) : both[k].msg.key = local[j].key
      BY <3>1 DEF KeysIn
    <3> QED BY <2>10, <3>2
  <2> QED BY <2>9, <2>12, <2>13 DEF T, r
<1> QED BY <1>1, <1>2

-----------------------------------------------------------------------------
\* The end of a list from its i-th message on, without its repeated turns.
Follows(q, i, msgs) ==
    /\ \A j \in Askers(msgs) : j >= i => \E k \in Askers(q) : q[k].text = msgs[j].text
    /\ \A k \in Askers(q) : \E j \in Askers(msgs) : j >= i /\ q[k] = msgs[j]
    /\ Told(msgs) => Told(q)

LEMMA Joined ==
    ASSUME NEW T, NEW x \in Seq(T), NEW q \in Seq(T)
    PROVE  /\ x \o q \in Seq(T)
           /\ \A k \in DOMAIN x : k \in DOMAIN (x \o q) /\ (x \o q)[k] = x[k]
           /\ \A k \in DOMAIN q : Len(x) + k \in DOMAIN (x \o q) /\ (x \o q)[Len(x) + k] = q[k]
           /\ \A k \in DOMAIN (x \o q) : k \in DOMAIN x \/ \E l \in DOMAIN q : k = Len(x) + l
<1>1. x \o q \in Seq(T) /\ Len(x \o q) = Len(x) + Len(q)
  OBVIOUS
<1>2. ASSUME NEW k \in DOMAIN (x \o q), k \notin DOMAIN x
      PROVE  \E l \in DOMAIN q : k = Len(x) + l
  <2>1. k \in 1..(Len(x) + Len(q)) /\ ~ (k <= Len(x)) /\ Len(x) \in Nat /\ Len(q) \in Nat
    BY <1>1, <1>2
  <2>2. k - Len(x) \in 1..Len(q) /\ k = Len(x) + (k - Len(x))
    BY <2>1
  <2> QED BY <2>2
<1> QED BY <1>1, <1>2

LEMMA Headed ==
    ASSUME NEW T, NEW msgs \in Seq(T), NEW i \in DOMAIN msgs, NEW d \in {1, 4},
           NEW q \in Seq(T), Follows(q, i + d, msgs),
           NEW x \in Seq(T), 1 \in DOMAIN x, x[1] = msgs[i],
           \A k \in DOMAIN x : k # 1 => x[k].role # "user",
           \A j \in Askers(msgs) : j >= i /\ ~ (j >= i + d) => i \in Askers(msgs) /\ msgs[j].text = msgs[i].text
    PROVE  Follows(x \o q, i, msgs)
<1> DEFINE r == x \o q
<1>1. /\ \A k \in DOMAIN x : k \in DOMAIN r /\ r[k] = x[k]
      /\ \A k \in DOMAIN q : Len(x) + k \in DOMAIN r /\ r[Len(x) + k] = q[k]
      /\ \A k \in DOMAIN r : k \in DOMAIN x \/ \E l \in DOMAIN q : k = Len(x) + l
  BY SMTT(30), Joined
<1> HIDE DEF r
<1>2. i \in Nat /\ Len(x) \in Nat /\ \A j \in Askers(msgs) : j \in Nat
  BY DEF Askers
<1>3. \A k \in Askers(r) : \/ k = 1 /\ i \in Askers(msgs) /\ r[k] = msgs[i]
                           \/ \E l \in Askers(q) : k = Len(x) + l /\ r[k] = q[l]
  BY <1>1 DEF Askers
<1>4. ASSUME NEW j \in Askers(msgs), j >= i
      PROVE  \E k \in Askers(r) : r[k].text = msgs[j].text
  <2>1. CASE j >= i + d
    <3>1. PICK k \in Askers(q) : q[k].text = msgs[j].text
      BY <2>1 DEF Follows
    <3>2. Len(x) + k \in Askers(r) /\ r[Len(x) + k] = q[k]
      BY <1>1, <3>1 DEF Askers
    <3> QED BY <3>1, <3>2
  <2>2. CASE ~ (j >= i + d)
    <3>1. i \in Askers(msgs) /\ msgs[j].text = msgs[i].text
      BY <1>4, <2>2
    <3>2. 1 \in Askers(r) /\ r[1] = msgs[i]
      BY <1>1, <3>1 DEF Askers
    <3> QED BY <3>1, <3>2
  <2> QED BY <2>1, <2>2
<1>5. \A l \in Askers(q) : \E j \in Askers(msgs) : j >= i + d /\ q[l] = msgs[j]
  BY DEF Follows
<1>6. ASSUME NEW k \in Askers(r)
      PROVE  \E j \in Askers(msgs) : j >= i /\ r[k] = msgs[j]
  <2>1. CASE k = 1 /\ i \in Askers(msgs) /\ r[k] = msgs[i]
    BY <1>2, <2>1
  <2>2. ASSUME NEW l \in Askers(q), r[k] = q[l]
        PROVE  \E j \in Askers(msgs) : j >= i /\ r[k] = msgs[j]
    <3>1. PICK j \in Askers(msgs) : j >= i + d /\ q[l] = msgs[j]
      BY <1>5
    <3>2. j >= i
      BY <1>2, <3>1
    <3> QED BY <2>2, <3>1, <3>2
  <2> QED BY <1>3, <2>1, <2>2
<1>7. ASSUME Told(msgs), NEW k \in Askers(r), NEW l \in Askers(r), r[k].id = r[l].id
      PROVE  k = l
  <2>1. ASSUME NEW y \in Askers(q), i \in Askers(msgs)
        PROVE  q[y].id # msgs[i].id
    <3>1. PICK j \in Askers(msgs) : j >= i + d /\ q[y] = msgs[j]
      BY <1>5
    <3>2. j # i
      BY <1>2, <3>1
    <3> QED BY <1>7, <2>1, <3>1, <3>2 DEF Told
  <2>2. \A y, z \in Askers(q) : q[y].id = q[z].id => y = z
    BY <1>7 DEF Follows, Told
  <2> QED BY <1>3, <1>7, <2>1, <2>2
<1>8. Told(msgs) => Told(r)
  BY <1>7 DEF Told
<1> QED BY <1>4, <1>6, <1>8 DEF Follows, r

\* A repeated turn that is left out leaves the question it repeats.
LEMMA CollapseKeeps ==
    ASSUME NEW T, NEW msgs \in Seq(T), \A i \in DOMAIN msgs : msgs[i].role \in {"user", "assistant"}
    PROVE  LET r == collapseDuplicateTurns(msgs)
           IN  /\ r \in Seq(T) /\ (Told(msgs) => Told(r))
               /\ \A j \in Askers(msgs) : \E k \in Askers(r) : r[k].text = msgs[j].text
<1> DEFINE n == Len(msgs)
           W == [i \in 1..(n + 4) |-> {q \in Seq(T) : Follows(q, i, msgs)}]
           r == collapseDuplicateTurns(msgs)
<1>1. n \in Nat /\ DOMAIN msgs = 1..n /\ \A j \in 1..n : msgs[j] \in T
  OBVIOUS
<1> HIDE DEF n
<1>2. ASSUME NEW i \in (n + 1)..(n + 4)
      PROVE  <<>> \in W[i]
  <2>1. Follows(<<>>, i, msgs)
    BY <1>1 DEF Follows, Askers, Told
  <2> QED BY <1>1, <2>1
<1>3. ASSUME NEW i \in 1..n, NEW q \in Seq(T), Repeated(msgs, i), q \in W[i + 4]
      PROVE  <<msgs[i], Survivor(msgs[i+1], msgs[i+3])>> \o q \in W[i]
  <2> DEFINE sv == Survivor(msgs[i+1], msgs[i+3])
             x == <<msgs[i], sv>>
  <2>1. /\ i + 3 <= n /\ i + 1 \in 1..n /\ i + 2 \in 1..n /\ i + 3 \in 1..n
        /\ msgs[i].role = "user" /\ msgs[i+1].role = "assistant" /\ msgs[i+2].role = "user"
        /\ msgs[i+3].role = "assistant" /\ msgs[i].text = msgs[i+2].text
    BY <1>1, <1>3 DEF Repeated, n
  <2>2. sv \in T /\ sv.role = "assistant"
    BY <1>1, <2>1 DEF Survivor
  <2> HIDE DEF sv
  <2>3. x \in Seq(T) /\ 1 \in DOMAIN x /\ x[1] = msgs[i] /\ \A k \in DOMAIN x : k # 1 => x[k].role # "user"
    BY <1>1, <2>2
  <2>4. ASSUME NEW j \in Askers(msgs), j >= i, ~ (j >= i + 4)
        PROVE  i \in Askers(msgs) /\ msgs[j].text = msgs[i].text
    <3>1. j \in {i, i + 1, i + 2, i + 3}
      BY <1>1, <2>4 DEF Askers
    <3> QED BY <1>1, <2>1, <2>4, <3>1 DEF Askers
  <2>5. Follows(q, i + 4, msgs)
    BY <1>1, <1>3
  <2> HIDE DEF x
  <2>6. Follows(x \o q, i, msgs)
    BY <1>1, <2>3, <2>4, <2>5, Headed
  <2>7. x \o q \in Seq(T)
    BY <2>3
  <2>8. x \o q \in W[i]
    BY <1>1, <2>6, <2>7
  <2> QED BY <2>8 DEF x, sv
<1>4. ASSUME NEW i \in 1..n, NEW q \in Seq(T), q \in W[i + 1]
      PROVE  <<msgs[i]>> \o q \in W[i]
  <2> DEFINE x == <<msgs[i]>>
  <2>1. x \in Seq(T) /\ 1 \in DOMAIN x /\ x[1] = msgs[i] /\ \A k \in DOMAIN x : k # 1 => x[k].role # "user"
    BY <1>1
  <2>2. \A j \in Askers(msgs) : j >= i /\ ~ (j >= i + 1) => i \in Askers(msgs) /\ msgs[j].text = msgs[i].text
    BY <1>1 DEF Askers
  <2>3. Follows(q, i + 1, msgs)
    BY <1>1, <1>4
  <2> HIDE DEF x
  <2>4. Follows(x \o q, i, msgs)
    BY <1>1, <2>1, <2>2, <2>3, Headed
  <2>5. x \o q \in Seq(T)
    BY <2>1
  <2>6. x \o q \in W[i]
    BY <1>1, <2>4, <2>5
  <2> QED BY <2>6 DEF x
<1>5. Folds4(W, msgs, T)
  <2> HIDE DEF W
  <2> QED BY <1>2, <1>3, <1>4 DEF Folds4, n
<1>6. r \in Seq(T) /\ (n < 4 \/ r \in W[1])
  <2> HIDE DEF W
  <2> QED BY <1>5, CollapseUnfolds DEF n
<1>7. CASE n < 4
  <2>1. r = msgs
    BY <1>7 DEF collapseDuplicateTurns, n
  <2> QED BY <1>6, <2>1
<1>8. CASE r \in W[1]
  <2>1. Follows(r, 1, msgs)
    BY <1>1, <1>8
  <2>2. \A j \in Askers(msgs) : j >= 1
    BY <1>1 DEF Askers
  <2> QED BY <1>6, <2>1, <2>2 DEF Follows
<1> QED BY <1>6, <1>7, <1>8

-----------------------------------------------------------------------------
\* One id is of one kind of message, and of one question.
LEMMA OneKind ==
    ASSUME NEW s, NEW tn, NEW asked, NEW a \in ToldOf(s, tn, asked), NEW b \in ToldOf(s, tn, asked),
           a.id = b.id
    PROVE  a.role = b.role /\ (a.role = "user" => a.key = b.key)
BY ToldIs DEF Labelled

SetAt(q, c, x) == [q EXCEPT ![c] = x]

\* m is new in r, or makes another message of its role with the one of its id.
Settles(r, q, m, T) ==
    \/ r = Append(q, m)
    \/ \E c \in DOMAIN q : \E x \in T : q[c].id = m.id /\ x.role = m.role /\ r = SetAt(q, c, x)

\* A message put once: a question that is new is appended, and an answer touches no question.
LEMMA OnceStays ==
    ASSUME NEW s \in Sessions, NEW tn \in Logs, NEW asked, NEW m \in ToldOf(s, tn, asked),
           NEW q \in Seq(ToldOf(s, tn, asked)), Unrepeated(q)
    PROVE  /\ PutOnce(q, m) \in Seq(ToldOf(s, tn, asked)) /\ Unrepeated(PutOnce(q, m))
           /\ Settles(PutOnce(q, m), q, m, ToldOf(s, tn, asked))
<1> DEFINE T == ToldOf(s, tn, asked)
           same == {i \in DOMAIN q : q[i].id = m.id}
           c == CHOOSE i \in same : TRUE
           p == m.stamp >= q[c].stamp
           x == mergeMessagePair(q[c], m, p)
<1>1. CASE same = {}
  <2>1. PutOnce(q, m) = Append(q, m)
    BY <1>1 DEF PutOnce
  <2> QED BY <1>1, <2>1, Appended DEF Settles
<1>2. CASE same # {}
  <2>1. c \in DOMAIN q /\ q[c].id = m.id
    BY <1>2
  <2>2. PutOnce(q, m) = [q EXCEPT ![c] = x]
    BY <1>2, <2>1 DEF PutOnce
  <2> HIDE DEF c
  <2>3. q[c] \in T
    BY <2>1
  <2>4. q[c].role = m.role /\ (q[c].role = "user" => q[c].key = m.key)
    BY <2>1, <2>3, OneKind
  <2>5. x \in T /\ x.role = m.role /\ x.id = m.id
    <3>1. p \in BOOLEAN
      OBVIOUS
    <3> HIDE DEF p
    <3> QED BY <2>1, <2>3, <2>4, <3>1, PairStays
  <2> HIDE DEF x, T
  <2>6. \A i \in DOMAIN q : q[i].id = x.id => i = c
    BY <2>1, <2>5 DEF Unrepeated
  <2>7. q \in Seq(T) /\ Unrepeated(q)
    BY DEF T
  <2>8. [q EXCEPT ![c] = x] \in Seq(T) /\ Unrepeated([q EXCEPT ![c] = x])
    BY <2>1, <2>5, <2>6, <2>7, Replaced
  <2> QED BY <2>1, <2>2, <2>5, <2>8 DEF T, SetAt, Settles
<1> QED BY <1>1, <1>2

\* The questions among the first k messages, as they are.
OnceUpTo(q, k, msgs) ==
    /\ \A j \in Askers(msgs) : j <= k => \E y \in DOMAIN q : q[y] = msgs[j]
    /\ \A y \in Askers(q) : \E j \in Askers(msgs) : j <= k /\ q[y] = msgs[j]

LEMMA OnceGoesOn ==
    ASSUME NEW s \in Sessions, NEW tn \in Logs, NEW asked, NEW msgs \in Seq(ToldOf(s, tn, asked)),
           Told(msgs), NEW k \in Nat, k + 1 \in DOMAIN msgs,
           NEW q \in Seq(ToldOf(s, tn, asked)), Unrepeated(q), OnceUpTo(q, k, msgs)
    PROVE  OnceUpTo(PutOnce(q, msgs[k + 1]), k + 1, msgs)
<1> DEFINE T == ToldOf(s, tn, asked)
           m == msgs[k + 1]
           r == PutOnce(q, m)
<1>1. m \in T /\ m.role \in {"user", "assistant"}
  BY ToldIs
<1>2. \A j \in Askers(msgs) : j \in Nat /\ (j <= k + 1 => j <= k \/ (j = k + 1 /\ msgs[j] = m))
  BY DEF Askers
<1>3. Settles(r, q, m, T)
  <2> HIDE DEF m
  <2> QED BY <1>1, OnceStays
<1>4. ASSUME m.role = "user", NEW c \in DOMAIN q, q[c].id = m.id
      PROVE  FALSE
  <2>1. q[c] \in T
    OBVIOUS
  <2>2. q[c].role = "user"
    BY <1>1, <1>4, <2>1, OneKind
  <2>3. PICK j \in Askers(msgs) : j <= k /\ q[c] = msgs[j]
    BY <2>2 DEF OnceUpTo, Askers
  <2>4. k + 1 \in Askers(msgs) /\ j # k + 1
    BY <1>2, <1>4, <2>3 DEF Askers
  <2> QED BY <1>4, <2>3, <2>4 DEF Told
<1> HIDE DEF r, m, T
<1>5. CASE r = Append(q, m)
  <2>1. /\ \A y \in DOMAIN r : IF y \in DOMAIN q THEN r[y] = q[y] ELSE r[y] = m
        /\ \A y \in DOMAIN q : y \in DOMAIN r /\ r[y] = q[y]
        /\ Len(q) + 1 \in DOMAIN r /\ r[Len(q) + 1] = m
    BY <1>5
  <2>2. ASSUME NEW j \in Askers(msgs), j <= k + 1
        PROVE  \E y \in DOMAIN r : r[y] = msgs[j]
    BY <1>2, <2>1, <2>2 DEF OnceUpTo
  <2>3. ASSUME NEW y \in Askers(r)
        PROVE  \E j \in Askers(msgs) : j <= k + 1 /\ r[y] = msgs[j]
    <3>1. CASE y \in DOMAIN q
      <4>1. PICK j \in Askers(msgs) : j <= k /\ q[y] = msgs[j]
        BY <2>1, <2>3, <3>1 DEF OnceUpTo, Askers
      <4>2. j <= k + 1
        BY <1>2, <4>1
      <4> QED BY <2>1, <2>3, <3>1, <4>1, <4>2 DEF Askers
    <3>2. CASE y \notin DOMAIN q
      <4>1. r[y] = m /\ m.role = "user"
        BY <2>1, <2>3, <3>2 DEF Askers
      <4>2. k + 1 \in Askers(msgs) /\ k + 1 <= k + 1
        BY <4>1 DEF Askers, m
      <4> QED BY <4>1, <4>2 DEF m
    <3> QED BY <3>1, <3>2
  <2> QED BY <2>2, <2>3 DEF OnceUpTo, r, m
<1>6. ASSUME NEW c \in DOMAIN q, NEW x \in T, q[c].id = m.id, x.role = m.role, r = SetAt(q, c, x)
      PROVE  OnceUpTo(r, k + 1, msgs)
  <2>1. m.role = "assistant" /\ x.role # "user"
    BY <1>1, <1>4, <1>6
  <2>2. q[c].role # "user"
    <3>1. q[c] \in T
      BY DEF T
    <3> QED BY <1>1, <1>6, <2>1, <3>1, OneKind DEF T
  <2>3. DOMAIN r = DOMAIN q /\ r[c] = x /\ \A y \in DOMAIN q : y # c => r[y] = q[y]
    BY <1>6 DEF SetAt
  <2>4. ASSUME NEW j \in Askers(msgs), j <= k + 1
        PROVE  \E y \in DOMAIN r : r[y] = msgs[j]
    <3>1. j <= k
      BY <1>2, <2>1, <2>4 DEF Askers
    <3>2. PICK y \in DOMAIN q : q[y] = msgs[j]
      BY <3>1 DEF OnceUpTo
    <3>3. y # c
      BY <2>2, <3>2 DEF Askers
    <3> QED BY <2>3, <3>2, <3>3
  <2>5. ASSUME NEW y \in Askers(r)
        PROVE  \E j \in Askers(msgs) : j <= k + 1 /\ r[y] = msgs[j]
    <3>1. y # c /\ y \in Askers(q) /\ r[y] = q[y]
      BY <2>1, <2>3, <2>5 DEF Askers
    <3>2. PICK j \in Askers(msgs) : j <= k /\ q[y] = msgs[j]
      BY <3>1 DEF OnceUpTo
    <3>3. j <= k + 1
      BY <1>2, <3>2
    <3> QED BY <3>1, <3>2, <3>3
  <2> QED BY <2>4, <2>5 DEF OnceUpTo
<1> QED BY <1>3, <1>5, <1>6 DEF Settles, r, m

\* Each id once, and every question as it is.
LEMMA DedupedOnce ==
    ASSUME NEW s \in Sessions, NEW tn \in Logs, NEW asked, NEW msgs \in Seq(ToldOf(s, tn, asked))
    PROVE  LET r == dedupeConversationMessages(msgs)
           IN  /\ r \in Seq(ToldOf(s, tn, asked)) /\ Unrepeated(r)
               /\ Told(msgs) => \A j \in Askers(msgs) : \E k \in DOMAIN r : r[k] = msgs[j]
<1> DEFINE T == ToldOf(s, tn, asked)
           Q == {q \in Seq(T) : Unrepeated(q)}
           n == Len(msgs)
           r == dedupeConversationMessages(msgs)
<1>1. <<>> \in Q
  BY DEF Unrepeated
<1>2. \A q \in Q, m \in T : PutOnce(q, m) \in Q
  BY OnceStays
<1>3. n \in Nat /\ DOMAIN msgs = 1..n
  OBVIOUS
<1>4. PICK it \in [0..n -> Q] : OncesUp(it, n, msgs)
  <2>1. msgs \in Seq(T)
    OBVIOUS
  <2> HIDE DEF Q, T
  <2> QED BY <1>1, <1>2, <2>1, DedupeUnfolds
<1> HIDE DEF n
<1>5. r = it[n] /\ it[n] \in Q
  BY <1>3, <1>4 DEF OncesUp
<1>6. ASSUME Told(msgs)
      PROVE  OnceUpTo(it[n], n, msgs)
  <2> DEFINE S == {k \in 0..n : OnceUpTo(it[k], k, msgs)}
  <2>1. 0 \in S
    BY <1>3, <1>4 DEF OncesUp, OnceUpTo, Askers
  <2>2. ASSUME NEW k \in 0..(n - 1), k \in S
        PROVE  k + 1 \in S
    <3>1. k + 1 \in 0..n /\ k + 1 \in DOMAIN msgs /\ k \in 0..n /\ k \in Nat
      BY <1>3
    <3>2. it[k + 1] = PutOnce(it[k], msgs[k + 1])
      BY <1>4 DEF OncesUp
    <3>3. it[k] \in Seq(ToldOf(s, tn, asked)) /\ Unrepeated(it[k])
      <4>1. it[k] \in Q
        BY <3>1
      <4> QED BY <4>1
    <3> QED BY <1>6, <2>2, <3>1, <3>2, <3>3, OnceGoesOn
  <2> HIDE DEF S
  <2>3. \A k \in 0..n : k \in S
    BY <1>3, <2>1, <2>2, Climb
  <2>4. n \in S
    BY <1>3, <2>3
  <2> QED BY <2>4 DEF S
<1>7. Told(msgs) => \A j \in Askers(msgs) : \E k \in DOMAIN r : r[k] = msgs[j]
  BY <1>3, <1>5, <1>6 DEF OnceUpTo, Askers
<1> QED BY <1>5, <1>7

LEMMA SyncKeeps ==
    ASSUME NEW tn \in Logs, NEW st, Sound(st, tn), NEW s \in Sessions, NEW asked,
           NEW q \in Seq(ToldOf(s, tn, asked))
    PROVE  Sound(SyncSession(st, s, q), tn) /\ SyncSession(st, s, q).abort = st.abort
<1>1. CASE q = <<>>
  BY <1>1 DEF SyncSession
<1>2. CASE q # <<>>
  <2> DEFINE d == dedupeConversationMessages(q)
  <2>1. d \in Seq(ToldOf(s, tn, asked)) /\ Unrepeated(d)
    BY DedupedOnce
  <2>2. ToldOf(s, tn, asked) \subseteq OwnOf(s, tn) /\ OwnOf(s, tn) \subseteq MessageSet
    BY DEF ToldOf, StoredOf, OwnOf
  <2>3. SyncSession(st, s, q) = [st EXCEPT !.kind[s] = "live", !.msgs[s] = d]
    BY <1>2 DEF SyncSession
  <2> HIDE DEF d
  <2>4. d \in Seq(OwnOf(s, tn)) /\ d \in Seq(MessageSet)
    BY <2>1, <2>2, Wider
  <2>5. SyncSession(st, s, q) \in Tab
    <3>1. st \in Tab
      BY DEF Sound
    <3>2. [st.msgs EXCEPT ![s] = d] \in [Sessions -> Seq(MessageSet)]
      BY <2>4, <3>1 DEF Tab
    <3>3. [st.kind EXCEPT ![s] = "live"] \in [Sessions -> {"absent", "live", "ghost"}]
      BY <3>1 DEF Tab
    <3>4. SyncSession(st, s, q) = [st EXCEPT !.kind = [st.kind EXCEPT ![s] = "live"],
                                             !.msgs = [st.msgs EXCEPT ![s] = d]]
      BY <2>3, <3>1 DEF Tab
    <3> QED BY <3>1, <3>2, <3>3, <3>4 DEF Tab
  <2> QED BY <2>1, <2>3, <2>4, <2>5 DEF Sound, Tab
<1> QED BY <1>1, <1>2

-----------------------------------------------------------------------------
\* What the page shows is not touched.
LEMMA SameShown ==
    ASSUME NEW tn \in Logs, NEW st, Sound(st, tn), NEW x \in Tab,
           x.msgs = st.msgs, x.kind = st.kind, x.pending = st.pending
    PROVE  Sound(x, tn)
BY DEF Sound

LEMMA Together ==
    ASSUME TypeOK', Sound(tab', turn'), ServerSound(snap', conv', turn'), Underway'
    PROVE  IInv'
BY DEF IInv

LEMMA NoFrom ==
    ASSUME NEW tn \in Logs, NEW st, Sound(st, tn), NEW t \in Turns, tn[t].phase = "unused",
           NEW s \in Sessions
    PROVE  \A i \in DOMAIN st.msgs[s] : st.msgs[s][i].id[2] # t
<1> SUFFICES ASSUME NEW i \in DOMAIN st.msgs[s]
             PROVE  st.msgs[s][i].id[2] # t
  OBVIOUS
<1>1. st.msgs[s][i] \in OwnOf(s, tn)
  BY ElementOf DEF Sound
<1> QED BY <1>1 DEF OwnOf

LEMMA RequestKeeps ==
    ASSUME IInv, NEW t \in Turns, turn[t].phase = "unused", NEW s \in Sessions,
           NEW key \in Names \cap Keys, NEW text \in Texts \cup {NoText}, NEW skip \in BOOLEAN, NEW st,
           Sound(tab, turn') => Sound(st, turn'),
           Request(t, s, key, text, skip, st)
    PROVE  IInv'
<1> DEFINE r == [sid |-> s, phase |-> "queued", aborted |-> FALSE, skip |-> skip,
                 key |-> key, text |-> text]
<1>1. r \in Requests /\ turn' = [turn EXCEPT ![t] = r]
  BY DEF Requests, Request
<1> HIDE DEF r
<1>2. turn \in Logs /\ turn' \in Logs
  BY <1>1 DEF IInv, TypeOK, Logs, Requests
<1>3. turn'[t] = r /\ \A y \in Turns : y # t => turn'[y] = turn[y]
  BY <1>1, <1>2 DEF Logs
<1>4. r.phase = "queued" /\ r.sid = s /\ ~r.aborted /\ r.key \in Keys
  BY DEF r
<1>5. \A y \in Turns : GoesOn(turn[y], turn'[y]) /\ Calm(turn[y], turn'[y])
  BY <1>3, <1>4 DEF GoesOn, Calm
<1>6. Sound(st, turn')
  BY <1>2, <1>5, SoundGoesOn DEF IInv
<1>7. ServerSound(snap', conv', turn')
  BY <1>2, <1>5, KeptGoesOn DEF IInv, Request
<1>8. tab' = [st EXCEPT !.corr = t, !.abort = t, !.typing = TRUE]
  BY DEF Request
<1>9. tab' \in Tab
  BY <1>6, <1>8 DEF Sound, Tab
<1>10. Sound(tab', turn')
  BY <1>2, <1>6, <1>8, <1>9, SameShown DEF Sound, Tab
<1>11. Underway'
  BY <1>1, <1>2, <1>3, <1>4, <1>8, <1>6 DEF IInv, Underway, Request, Sound, Tab, TypeOK
<1>12. TypeOK'
  BY <1>2, <1>9 DEF IInv, TypeOK, Request, Logs, Requests
<1> QED BY <1>7, <1>10, <1>11, <1>12, Together

LEMMA SendKeeps ==
    ASSUME IInv, NEW t \in Turns, NEW text \in Texts, send(t, text)
    PROVE  IInv'
<1> DEFINE s == tab.active
           m == UserMsg(t, text)
<1>1. turn[t].phase = "unused" /\ s \in Sessions
  BY DEF send, IsNext, IInv, TypeOK, Tab
<1>2. Request(t, s, <<"c", t>>, text, FALSE, AppendMsg(tab, s, m))
  BY DEF send
<1>3. turn \in Logs /\ turn' \in Logs /\ turn'[t].phase = "queued" /\ turn'[t].sid = s
  BY <1>1, <1>2 DEF IInv, TypeOK, Request, Logs, Requests, Names
<1>4. m \in OwnOf(s, turn')
  BY <1>1, <1>3, AskedOwn
<1>5. m.id[2] = t
  BY DEF UserMsg
<1>6. \A i \in DOMAIN tab.msgs[s] : tab.msgs[s][i].id # m.id
  BY <1>1, <1>3, <1>5, NoFrom DEF IInv
<1> HIDE DEF m, s
<1>7. Sound(tab, turn') => Sound(AppendMsg(tab, s, m), turn')
  BY <1>1, <1>3, <1>4, <1>6, AppendKeeps
<1>8. <<"c", t>> \in Names \cap Keys
  BY DEF Names, Keys
<1> QED BY <1>1, <1>2, <1>7, <1>8, RequestKeeps

\* What is cut off stays as it was.
LEMMA CutOff ==
    ASSUME NEW T, NEW q \in Seq(T), Unrepeated(q), NEW i \in DOMAIN q, NEW m \in T, m.id = q[i].id
    PROVE  Append(SubSeq(q, 1, i - 1), m) \in Seq(T) /\ Unrepeated(Append(SubSeq(q, 1, i - 1), m))
<1> DEFINE p == SubSeq(q, 1, i - 1)
<1>1. i \in Nat /\ i > 0 /\ i <= Len(q)
  OBVIOUS
<1>2. p \in Seq(T) /\ Len(p) = i - 1 /\ \A j \in 1..(i - 1) : p[j] = q[j]
  BY <1>1
<1>3. DOMAIN p = 1..(i - 1)
  BY <1>1, <1>2
<1> HIDE DEF p
<1>4. \A j \in DOMAIN p : j \in DOMAIN q /\ j # i /\ p[j] = q[j]
  BY <1>1, <1>2, <1>3
<1>5. Unrepeated(p)
  BY <1>4 DEF Unrepeated
<1>6. \A j \in DOMAIN p : p[j].id # m.id
  BY <1>4 DEF Unrepeated
<1>7. Append(p, m) \in Seq(T) /\ Unrepeated(Append(p, m))
  BY <1>2, <1>5, <1>6, Appended
<1> QED BY <1>7 DEF p

LEMMA ReplaceAndSendKeeps ==
    ASSUME IInv, NEW t \in Turns, NEW i \in Nat, NEW text \in Texts, replaceAndSend(t, i, text)
    PROVE  IInv'
<1> DEFINE s == tab.active
           q == tab.msgs[s]
           asked == q[i]
           edited == [asked EXCEPT !.text = text, !.corr = t, !.stamp = 3 * t]
           l == Append(SubSeq(q, 1, i - 1), edited)
<1>1. turn[t].phase = "unused" /\ s \in Sessions /\ i \in DOMAIN q /\ Live(tab, s)
  BY DEF replaceAndSend, IsNext, IInv, TypeOK, Tab
<1>2. Request(t, s, asked.key, text, FALSE, [tab EXCEPT !.msgs[s] = l])
  <2>1. tab = [tab EXCEPT !.msgs = @] /\ s \in DOMAIN tab.msgs
    BY <1>1 DEF IInv, TypeOK, Tab
  <2>2. [tab EXCEPT !.msgs[s] = Append(SubSeq(@, 1, i - 1), edited)] = [tab EXCEPT !.msgs[s] = l]
    BY <2>1
  <2> QED BY <2>2 DEF replaceAndSend
<1>3. q \in Seq(OwnOf(s, turn)) /\ asked \in OwnOf(s, turn)
  <2>1. q \in Seq(OwnOf(s, turn))
    BY <1>1 DEF IInv, Sound
  <2> QED BY <1>1, <2>1, ElementOf
<1>4. asked.key \in Names \cap Keys /\ Labelled(asked, turn) /\ asked.role = "user"
  <2>1. asked.role = "user"
    BY DEF replaceAndSend
  <2> HIDE DEF asked
  <2> QED BY <1>3, <2>1 DEF OwnOf, MessageSet, Labelled
<1>5. turn \in Logs /\ turn' \in Logs /\ turn'[t].phase = "queued" /\ turn'[t].sid = s
  BY SMTT(30), <1>1, <1>2, <1>4 DEF IInv, TypeOK, Request, Logs, Requests
<1>6. asked.id[2] # t /\ turn'[asked.id[2]] = turn[asked.id[2]]
  BY Zenon, <1>1, <1>2, <1>3, <1>5 DEF Request, OwnOf, Logs
<1>7. edited \in OwnOf(s, turn')
  <2>1. edited \in MessageSet
    BY ZenonT(40), <1>3, Clock DEF OwnOf, MessageSet
  <2>2. /\ edited.corr = t /\ edited.id = asked.id /\ edited.status = asked.status
        /\ edited.role = asked.role /\ edited.key = asked.key /\ edited.srv = asked.srv
    BY Zenon, <1>3 DEF OwnOf, MessageSet
  <2>3. isStreaming(edited) = isStreaming(asked)
    BY SMTT(30), <2>2 DEF isStreaming
  <2>4. asked.id \in {"u", "su", "r"} \X Turns /\ turn[asked.id[2]].phase # "unused"
        /\ turn[asked.id[2]].sid = s
        /\ (asked.id[1] = "r" /\ turn[asked.id[2]].phase = "queued" => turn[asked.id[2]].skip)
        /\ (asked.id[1] = "r" /\ turn[asked.id[2]].phase = "closed" /\ turn[asked.id[2]].aborted
               => ~isStreaming(asked))
    BY Zenon, <1>3 DEF OwnOf
  <2> HIDE DEF edited, asked, s
  <2>5. Labelled(edited, turn')
    BY SMTT(30), <1>4, <1>6, <2>2 DEF Labelled, KeyOf
  <2> QED BY SMTT(30), <1>5, <1>6, <2>1, <2>2, <2>3, <2>4, <2>5 DEF OwnOf
<1>8. edited.id = asked.id
  BY Zenon, <1>3 DEF OwnOf, MessageSet
<1> HIDE DEF edited, asked, s
<1>9. Sound(tab, turn') => Sound([tab EXCEPT !.msgs[s] = l], turn')
  <2>1. SUFFICES ASSUME Sound(tab, turn')
                 PROVE  Sound([tab EXCEPT !.msgs[s] = l], turn')
    OBVIOUS
  <2>2. q \in Seq(OwnOf(s, turn')) /\ Unrepeated(q)
    BY <1>1, <2>1 DEF Sound
  <2>3. l \in Seq(OwnOf(s, turn')) /\ Unrepeated(l)
    BY <1>1, <1>7, <1>8, <2>2, CutOff DEF asked
  <2> HIDE DEF l
  <2> QED BY <1>1, <1>5, <2>1, <2>3, NewList
<1> HIDE DEF l
<1> QED BY <1>1, <1>2, <1>4, <1>9, RequestKeeps

LEMMA RegenerateKeeps ==
    ASSUME IInv, NEW t \in Turns, NEW i \in Nat, regenerate(t, i)
    PROVE  IInv'
<1> DEFINE s == tab.active
           q == tab.msgs[s]
           asked == q[i - 1]
           m == ReplyMsg(t)
           l == [q EXCEPT ![i] = m]
<1>1. turn[t].phase = "unused" /\ s \in Sessions /\ i \in DOMAIN q /\ i > 1 /\ Live(tab, s)
  BY DEF regenerate, IsNext, IInv, TypeOK, Tab
<1>2. Request(t, s, asked.key, asked.text, TRUE, [tab EXCEPT !.msgs[s] = l])
  <2>1. s \in DOMAIN tab.msgs
    BY <1>1 DEF IInv, TypeOK, Tab
  <2>2. [tab EXCEPT !.msgs[s][i] = m] = [tab EXCEPT !.msgs[s] = l]
    BY <2>1
  <2> QED BY <2>2 DEF regenerate
<1>3. asked \in OwnOf(s, turn)
  <2>1. q \in Seq(OwnOf(s, turn))
    BY <1>1 DEF IInv, Sound
  <2>2. i - 1 \in DOMAIN q
    BY <1>1, <2>1
  <2> QED BY <2>1, <2>2, ElementOf
<1>4. asked.key \in Names \cap Keys /\ asked.text \in Texts \cup {NoText}
  <2>1. asked.role = "user"
    BY DEF regenerate
  <2> HIDE DEF asked
  <2> QED BY <1>3, <2>1 DEF OwnOf, MessageSet, Labelled
<1>5. turn \in Logs /\ turn' \in Logs /\ turn'[t].phase = "queued" /\ turn'[t].sid = s /\ turn'[t].skip
  BY <1>1, <1>2, <1>4 DEF IInv, TypeOK, Request, Logs, Requests
<1>6. m \in OwnOf(s, turn')
  <2>1. m \in MessageSet /\ IsReply(m, t)
    BY ReplyIs
  <2> HIDE DEF m
  <2> QED BY <1>1, <1>5, <2>1, ReplyOwn
<1>7. m.id[2] = t
  BY DEF ReplyMsg
<1>8. \A j \in DOMAIN q : q[j].id # m.id
  BY <1>1, <1>5, <1>7, NoFrom DEF IInv
<1> HIDE DEF m, asked, s
<1>9. Sound(tab, turn') => Sound([tab EXCEPT !.msgs[s] = l], turn')
  <2>1. SUFFICES ASSUME Sound(tab, turn')
                 PROVE  Sound([tab EXCEPT !.msgs[s] = l], turn')
    OBVIOUS
  <2>2. q \in Seq(OwnOf(s, turn')) /\ Unrepeated(q)
    BY <1>1, <2>1 DEF Sound
  <2>3. l \in Seq(OwnOf(s, turn')) /\ Unrepeated(l)
    BY <1>1, <1>6, <1>8, <2>2, Replaced
  <2> HIDE DEF l
  <2> QED BY <1>1, <1>5, <2>1, <2>3, NewList
<1> HIDE DEF l
<1> QED BY <1>1, <1>2, <1>4, <1>9, RequestKeeps

-----------------------------------------------------------------------------
Statutes == {"unknown", "running", "replayed", "denied", "done", "failed", "cancelled"}

\* A step that requests nothing and leaves what the server keeps.
LEMMA StepKeeps ==
    ASSUME IInv, turn' \in Logs,
           \A t \in Turns : GoesOn(turn[t], turn'[t]) /\ (turn[t].phase = "unused" => turn'[t] = turn[t]),
           Sound(tab', turn'),
           \/ tab'.abort = 0
           \/ tab'.abort = tab.abort /\ (tab.abort # 0 => turn'[tab.abort].phase \in {"queued", "open"}),
           timer' \in Turns \cup {0}, poll' \in {0, poll}, asks' \subseteq asks,
           snap' = snap, conv' = conv, srv' \in [Turns -> Statutes],
           \A t \in Turns : srv[t] = "unknown" => srv'[t] = "unknown",
           faults' \in Nat
    PROVE  IInv'
<1>1. turn \in Logs
  BY DEF IInv, TypeOK, Logs, Requests
<1>2. ServerSound(snap', conv', turn')
  BY <1>1, KeptGoesOn DEF IInv
<1>3. TypeOK'
  BY DEF IInv, TypeOK, Logs, Requests, Sound, Statutes
<1>4. Underway'
  <2>1. \A t \in Turns : turn'[t].phase # "unused" => turn'[t].sid \in Sessions /\ turn'[t].key \in Keys
    BY DEF IInv, Underway, GoesOn
  <2>2. \A t \in Turns : srv'[t] # "unknown" => turn'[t].phase \notin {"unused", "queued"}
    BY DEF IInv, Underway, GoesOn
  <2>3. poll' # 0 => turn'[poll'].phase # "unused"
    BY DEF IInv, TypeOK, Underway, GoesOn
  <2>4. \A a \in asks' : turn'[a.turn].phase # "unused"
    BY DEF IInv, TypeOK, Underway, GoesOn
  <2> QED BY <2>1, <2>2, <2>3, <2>4 DEF Underway
<1> QED BY <1>2, <1>3, <1>4, Together

LEMMA Facts ==
    ASSUME IInv
    PROVE  /\ turn \in Logs /\ Sound(tab, turn) /\ tab \in Tab
           /\ timer \in Turns \cup {0} /\ srv \in [Turns -> Statutes] /\ faults \in Nat
           /\ tab.abort \in Turns \cup {0} /\ 0 \notin Turns
           /\ tab.abort # 0 => turn[tab.abort].phase \in {"queued", "open"}
           /\ \A t \in Turns : turn[t].phase # "unused" => turn[t].sid \in Sessions /\ turn[t].key \in Keys
BY Clock DEF IInv, TypeOK, Logs, Requests, Statutes, Tab, Underway

\* Turn t goes from a phase it is in to another.
After(tn, t, phase, aborted) ==
    [tn EXCEPT ![t] = [tn[t] EXCEPT !.phase = phase, !.aborted = aborted]]

Moved(tn, t, phase, aborted) ==
    LET un == After(tn, t, phase, aborted)
    IN  /\ un \in Logs /\ un[t].phase = phase /\ un[t].aborted = aborted /\ un[t].sid = tn[t].sid
        /\ un[t].skip = tn[t].skip /\ un[t].text = tn[t].text /\ un[t].key = tn[t].key
        /\ \A y \in Turns : y # t => un[y] = tn[y]
        /\ \A y \in Turns : GoesOn(tn[y], un[y]) /\ (tn[y].phase = "unused" => un[y] = tn[y])
        /\ phase # "closed" => \A y \in Turns : Calm(tn[y], un[y])
        /\ aborted = FALSE => \A y \in Turns : Calm(tn[y], un[y])

LEMMA PhaseGoesOn ==
    ASSUME NEW tn \in Logs, NEW t \in Turns, tn[t].phase \in {"queued", "open"},
           NEW phase \in {"open", "closed", tn[t].phase}, NEW aborted \in BOOLEAN
    PROVE  Moved(tn, t, phase, aborted)
<1>1. tn[t] \in Requests
  BY DEF Logs
<1> DEFINE r == [tn[t] EXCEPT !.phase = phase, !.aborted = aborted]
           un == After(tn, t, phase, aborted)
<1>2. r \in Requests /\ r.phase = phase /\ r.aborted = aborted /\ r.sid = tn[t].sid /\ r.skip = tn[t].skip
      /\ r.text = tn[t].text /\ r.key = tn[t].key
  BY <1>1 DEF Requests
<1> HIDE DEF r
<1>3. un = [tn EXCEPT ![t] = r]
  BY DEF r, After
<1> HIDE DEF un
<1>4. un \in Logs /\ un[t] = r /\ \A y \in Turns : y # t => un[y] = tn[y]
  BY <1>2, <1>3 DEF Logs
<1>5. \A y \in Turns : GoesOn(tn[y], un[y]) /\ (tn[y].phase = "unused" => un[y] = tn[y])
  BY <1>2, <1>4 DEF GoesOn
<1>6. /\ phase # "closed" => \A y \in Turns : Calm(tn[y], un[y])
      /\ aborted = FALSE => \A y \in Turns : Calm(tn[y], un[y])
  BY <1>2, <1>4 DEF Calm
<1> QED BY <1>2, <1>4, <1>5, <1>6 DEF un, Moved

\* The stream of turn t is over: Sound before, it is sound once its reply is cancelled.
LEMMA CancelledKeeps ==
    ASSUME NEW tn \in Logs, NEW t \in Turns, tn[t].phase \in {"queued", "open"}, tn[t].sid \in Sessions,
           NEW st, Sound(st, tn),
           tn[t].sid = turn[t].sid
    PROVE  Sound(Cancelled(st, t), After(tn, t, "closed", TRUE)) /\ Cancelled(st, t).abort = 0
<1> DEFINE vn == After(tn, t, "closed", FALSE)
           un == After(tn, t, "closed", TRUE)
<1>1. Sound(st, vn)
  <2>1. vn \in Logs /\ \A y \in Turns : GoesOn(tn[y], vn[y]) /\ Calm(tn[y], vn[y])
    <3>1. Moved(tn, t, "closed", FALSE)
      BY PhaseGoesOn
    <3> QED BY <3>1 DEF Moved
  <2> HIDE DEF vn
  <2> QED BY <2>1, SoundGoesOn
<1>2. vn = [un EXCEPT ![t].aborted = FALSE]
  BY DEF Logs, Requests, After
<1>3. un \in Logs /\ un[t].sid = tn[t].sid
  <2>1. Moved(tn, t, "closed", TRUE)
    BY PhaseGoesOn
  <2> QED BY <2>1 DEF Moved
<1> HIDE DEF vn, un
<1> DEFINE x == SetStatus(st, un[t].sid, {<<"r", t>>}, "cancelled")
<1>4. Sound(x, un)
  BY <1>1, <1>2, <1>3, CancelKeeps
<1>5. Cancelled(st, t) = Idle(x)
  BY <1>3 DEF Cancelled
<1> HIDE DEF x
<1> QED BY <1>3, <1>4, <1>5, IdleKeeps DEF un

LEMMA LaunchKeeps ==
    ASSUME IInv, NEW t \in Turns, launchReply(t)
    PROVE  IInv'
<1> DEFINE s == turn[t].sid
           shown == IF turn[t].skip THEN tab ELSE AppendMsg(tab, s, ReplyMsg(t))
           st == SetPending(shown, s, t)
           un == After(turn, t, "open", turn[t].aborted)
           dn == After(un, t, "closed", TRUE)
<1>1. turn[t].phase = "queued" /\ turn[t].aborted \in BOOLEAN
  BY Facts DEF launchReply, Logs, Requests
<1>2. s \in Sessions
  BY <1>1, Facts
<1>3. /\ un \in Logs /\ un[t].phase = "open" /\ un[t].sid = s /\ un[t].aborted = turn[t].aborted
      /\ \A y \in Turns : y # t => un[y] = turn[y]
      /\ \A y \in Turns : GoesOn(turn[y], un[y]) /\ Calm(turn[y], un[y])
      /\ \A y \in Turns : turn[y].phase = "unused" => un[y] = turn[y]
  <2>1. turn \in Logs
    BY Facts
  <2>2. Moved(turn, t, "open", turn[t].aborted)
    BY <1>1, <2>1, PhaseGoesOn
  <2> QED BY <2>2 DEF Moved
<1>4. turn' = [turn EXCEPT ![t].phase = IF turn[t].aborted THEN "closed" ELSE "open"]
  BY DEF launchReply
<1>5. tab' = IF turn[t].aborted THEN Cancelled(st, t) ELSE st
  BY DEF launchReply
<1>6. IF turn[t].aborted THEN turn' = dn ELSE turn' = un
  BY <1>1, <1>4, Facts DEF Logs, Requests, After
<1> HIDE DEF un
<1>7. Sound(tab, un)
  BY <1>3, Facts, SoundGoesOn
<1>8. Sound(shown, un) /\ shown.abort = tab.abort
  <2>1. CASE turn[t].skip
    BY <1>7, <2>1
  <2>2. CASE ~ turn[t].skip
    <3>1. ReplyMsg(t) \in OwnOf(s, un)
      <4>1. ReplyMsg(t) \in MessageSet /\ IsReply(ReplyMsg(t), t)
        BY SMTT(30), ReplyIs
      <4> QED BY <1>2, <1>3, <4>1, ReplyOwn
    <3>2. ASSUME NEW i \in DOMAIN tab.msgs[s]
          PROVE  tab.msgs[s][i].id # ReplyMsg(t).id
      <4>1. tab.msgs[s][i] \in OwnOf(s, turn)
        BY SMTT(30), <1>2, Facts, ElementOf DEF Sound
      <4>2. tab.msgs[s][i].id # <<"r", t>>
        <5> DEFINE m == tab.msgs[s][i]
        <5>1. m \in OwnOf(s, turn)
          BY <4>1
        <5> HIDE DEF m
        <5>2. m.id # <<"r", t>>
          BY <1>1, <2>2, <5>1 DEF OwnOf
        <5> QED BY <5>2 DEF m
      <4> QED BY <4>2 DEF ReplyMsg
    <3> HIDE DEF s
    <3> QED BY <1>2, <1>3, <1>7, <2>2, <3>1, <3>2, AppendKeeps
  <2> QED BY <2>1, <2>2
<1> HIDE DEF shown
<1>9. Sound(st, un) /\ st.abort = tab.abort
  BY <1>2, <1>3, <1>8, PendingKeeps
<1> HIDE DEF st, s
<1>10. /\ timer' = timer /\ poll' = poll /\ asks' = asks /\ snap' = snap /\ conv' = conv /\ srv' = srv
       /\ faults' = faults
  BY DEF launchReply
<1>11. CASE ~ turn[t].aborted
  <2>1. turn' = un /\ tab' = st
    BY <1>5, <1>6, <1>11
  <2>2. tab.abort # 0 => turn'[tab.abort].phase \in {"queued", "open"}
    BY <1>3, <2>1, Facts
  <2> QED BY <1>3, <1>9, <1>10, <2>1, <2>2, Facts, StepKeeps
<1>12. CASE turn[t].aborted
  <2>1. turn' = dn /\ tab' = Cancelled(st, t)
    BY <1>5, <1>6, <1>12
  <2>2. /\ dn \in Logs /\ dn[t].phase = "closed" /\ dn[t].sid = un[t].sid
        /\ \A y \in Turns : GoesOn(un[y], dn[y]) /\ (un[y].phase = "unused" => dn[y] = un[y])
    <3>1. Moved(un, t, "closed", TRUE)
      BY <1>3, PhaseGoesOn
    <3> QED BY <3>1 DEF Moved
  <2>3. Sound(Cancelled(st, t), dn) /\ Cancelled(st, t).abort = 0
    BY <1>2, <1>3, <1>9, CancelledKeeps DEF s
  <2> HIDE DEF dn
  <2>4. \A y \in Turns : GoesOn(turn[y], dn[y]) /\ (turn[y].phase = "unused" => dn[y] = turn[y])
    BY <1>3, <2>2 DEF GoesOn
  <2> QED BY <1>10, <2>1, <2>2, <2>3, <2>4, Facts, StepKeeps
<1> QED BY <1>11, <1>12

\* Stop, or the time limit, aborts turn t.
LEMMA AbortingIs ==
    ASSUME IInv, NEW t \in Turns, turn[t].phase \in {"queued", "open"}
    PROVE  Aborting(t) = After(turn, t, IF turn[t].phase = "open" THEN "closed" ELSE "queued", TRUE)
BY Facts DEF Aborting, After, Logs, Requests

LEMMA AbortKeeps ==
    ASSUME IInv, NEW t \in Turns, turn[t].phase \in {"queued", "open"}, NEW st, Sound(st, turn)
    PROVE  /\ Aborting(t) \in Logs
           /\ \A y \in Turns : GoesOn(turn[y], Aborting(t)[y])
                               /\ (turn[y].phase = "unused" => Aborting(t)[y] = turn[y])
           /\ \A y \in Turns : y # t => Aborting(t)[y] = turn[y]
           /\ turn[t].phase = "queued" => Aborting(t)[t].phase = "queued" /\ Sound(st, Aborting(t))
           /\ turn[t].phase = "open" => Sound(Cancelled(st, t), Aborting(t)) /\ Cancelled(st, t).abort = 0
<1> DEFINE phase == IF turn[t].phase = "open" THEN "closed" ELSE "queued"
           un == After(turn, t, phase, TRUE)
<1>1. Aborting(t) = un
  BY AbortingIs
<1>2. phase \in {"open", "closed", turn[t].phase}
  OBVIOUS
<1> HIDE DEF phase
<1>3. /\ un \in Logs /\ un[t].phase = phase
      /\ \A y \in Turns : y # t => un[y] = turn[y]
      /\ \A y \in Turns : GoesOn(turn[y], un[y]) /\ (turn[y].phase = "unused" => un[y] = turn[y])
      /\ phase # "closed" => \A y \in Turns : Calm(turn[y], un[y])
  <2>1. turn \in Logs
    BY Facts
  <2>2. Moved(turn, t, phase, TRUE)
    BY <1>2, <2>1, PhaseGoesOn
  <2> QED BY <2>2 DEF Moved
<1>4. turn[t].sid \in Sessions
  BY Facts
<1>5. CASE turn[t].phase = "open"
  <2>1. Sound(Cancelled(st, t), un) /\ Cancelled(st, t).abort = 0
    BY <1>4, <1>5, Facts, CancelledKeeps DEF phase
  <2> HIDE DEF un
  <2> QED BY <1>1, <1>3, <1>5, <2>1
<1>6. CASE turn[t].phase = "queued"
  <2> HIDE DEF un
  <2>1. phase = "queued"
    BY <1>6 DEF phase
  <2>2. Sound(st, un)
    BY <1>3, <2>1, Facts, SoundGoesOn
  <2> QED BY <1>1, <1>3, <1>6, <2>1, <2>2
<1> QED BY <1>5, <1>6

LEMMA StopKeeps ==
    ASSUME IInv, stop
    PROVE  IInv'
<1> DEFINE t == tab.corr
           s == tab.active
           a == tab.abort
           mine == {m \in Messages(s) : m.corr = t}
           live == {m \in mine : m.status \in {"streaming", "in_flight"}}
           first == {m \in mine : \A x \in mine : m.stamp <= x.stamp}
           idle == Idle(tab)
           mids == {m.id : m \in IF live = {} THEN first ELSE live}
           set == SetPending(SetStatus(idle, s, mids, "cancelled"), s, 0)
           marked == IF t = 0 \/ s = NoSession \/ ~Live(tab, s) THEN idle ELSE set
           shown == IF a # 0 /\ turn[a].phase = "open" THEN Cancelled(marked, a) ELSE marked
<1>1. /\ turn' = IF a = 0 THEN turn ELSE Aborting(a)
      /\ timer' \in {0, timer}
      /\ tab' = [shown EXCEPT !.corr = 0]
      /\ srv' \in {srv, [srv EXCEPT ![t] = "cancelled"]}
      /\ srv' # srv => srv[t] = "running"
      /\ poll' = poll /\ asks' = asks /\ snap' = snap /\ conv' = conv /\ faults' = faults
  BY DEF stop
<1> HIDE DEF mids
<1>2. Sound(marked, turn) /\ marked.abort = 0
  <2>1. Sound(idle, turn) /\ idle.abort = 0
    BY Facts, IdleKeeps
  <2>2. CASE marked = idle
    BY <2>1, <2>2
  <2>3. CASE marked # idle
    <3>1. s \in Sessions /\ marked = set
      BY <2>3, Facts DEF Tab
    <3> DEFINE x == SetStatus(idle, s, mids, "cancelled")
    <3> HIDE DEF idle, s
    <3>2. Sound(x, turn) /\ x.abort = 0
      BY <2>1, <3>1, Facts, StatusKeeps
    <3> HIDE DEF x
    <3>3. Sound(SetPending(x, s, 0), turn) /\ SetPending(x, s, 0).abort = 0
      BY <3>1, <3>2, Facts, PendingKeeps
    <3> QED BY <3>1, <3>3 DEF x
  <2> QED BY <2>2, <2>3
<1> HIDE DEF marked
<1>3. /\ turn' \in Logs /\ Sound(shown, turn') /\ shown.abort = 0
      /\ \A y \in Turns : GoesOn(turn[y], turn'[y]) /\ (turn[y].phase = "unused" => turn'[y] = turn[y])
  <2>1. CASE a = 0
    <3>1. \A y \in Turns : GoesOn(turn[y], turn[y])
      BY DEF GoesOn
    <3> QED BY <1>1, <1>2, <2>1, <3>1, Facts
  <2>2. CASE a # 0
    <3>1. a \in Turns /\ turn[a].phase \in {"queued", "open"} /\ turn' = Aborting(a)
      BY <1>1, <2>2, Facts
    <3> HIDE DEF a
    <3>2. CASE turn[a].phase = "queued"
      <4>1. shown = marked
        BY <3>2
      <4> QED BY <1>2, <3>1, <3>2, <4>1, AbortKeeps
    <3>3. CASE turn[a].phase = "open"
      <4>1. shown = Cancelled(marked, a)
        BY <2>2, <3>3
      <4> QED BY <1>2, <3>1, <3>3, <4>1, AbortKeeps
    <3> QED BY <3>1, <3>2, <3>3
  <2> QED BY <2>1, <2>2
<1> HIDE DEF shown
<1>4. tab' \in Tab /\ tab'.msgs = shown.msgs /\ tab'.kind = shown.kind /\ tab'.pending = shown.pending
      /\ tab'.abort = 0
  BY <1>1, <1>3 DEF Sound, Tab
<1>5. Sound(tab', turn')
  BY <1>3, <1>4, SameShown
<1>6. srv' \in [Turns -> Statutes] /\ \A y \in Turns : srv[y] = "unknown" => srv'[y] = "unknown"
  BY <1>1, Facts DEF Statutes
<1> QED BY <1>1, <1>3, <1>4, <1>5, <1>6, Facts, StepKeeps

LEMMA TimeoutKeeps ==
    ASSUME IInv, Timeout
    PROVE  IInv'
<1>1. /\ timer \in Turns /\ turn[timer].phase \in {"queued", "open"}
      /\ turn' = Aborting(timer)
      /\ tab' = IF turn[timer].phase = "open" THEN Cancelled(tab, timer) ELSE tab
      /\ timer' = 0
      /\ poll' = poll /\ asks' = asks /\ snap' = snap /\ conv' = conv /\ srv' = srv /\ faults' = faults
  BY Facts DEF Timeout
<1>2. /\ turn' \in Logs
      /\ \A y \in Turns : GoesOn(turn[y], turn'[y]) /\ (turn[y].phase = "unused" => turn'[y] = turn[y])
      /\ \A y \in Turns : y # timer => turn'[y] = turn[y]
      /\ turn[timer].phase = "queued" => turn'[timer].phase = "queued" /\ Sound(tab, turn')
      /\ turn[timer].phase = "open" => Sound(Cancelled(tab, timer), turn') /\ Cancelled(tab, timer).abort = 0
  BY <1>1, Facts, AbortKeeps
<1>3. CASE turn[timer].phase = "open"
  <2>1. tab' = Cancelled(tab, timer)
    BY <1>1, <1>3
  <2> QED BY <1>1, <1>2, <1>3, <2>1, Facts, StepKeeps
<1>4. CASE turn[timer].phase = "queued"
  <2>1. tab' = tab
    BY <1>1, <1>4
  <2>2. tab.abort # 0 => turn'[tab.abort].phase \in {"queued", "open"}
    BY <1>2, <1>4, Facts
  <2> QED BY <1>1, <1>2, <1>4, <2>1, <2>2, Facts, StepKeeps
<1> QED BY <1>1, <1>3, <1>4

-----------------------------------------------------------------------------
\* What a stream shows of its reply.
Reworded(t, status, text) == [ReplyMsg(t) EXCEPT !.status = status, !.text = text]
Renamed(t, status, text, name) ==
    [ReplyMsg(t) EXCEPT !.status = status, !.text = text, !.srv = name]
HasStatus(m, t, status) == m \in MessageSet /\ IsReply(m, t) /\ m.status = status

LEMMA ReplyReworded ==
    ASSUME NEW t \in Turns, NEW status \in Statuses, NEW text \in Texts \cup {NoText},
           NEW name \in {"local", "r"} \X Turns
    PROVE  /\ HasStatus(Reworded(t, status, text), t, status)
           /\ HasStatus(Renamed(t, status, text, name), t, status)
<1> DEFINE r == ReplyMsg(t)
           m == [r EXCEPT !.status = status, !.text = text]
           n == [r EXCEPT !.status = status, !.text = text, !.srv = name]
<1>1. r \in MessageSet /\ IsReply(r, t)
  BY ReplyIs
<1> HIDE DEF r
<1>6. name \in Names
  BY DEF Names
<1>2. m \in MessageSet /\ n \in MessageSet
  BY <1>1, <1>6 DEF MessageSet
<1>3. m.id = r.id /\ m.corr = r.corr /\ m.role = r.role /\ m.key = r.key /\ m.srv = r.srv /\ m.status = status
  BY <1>1 DEF MessageSet
<1>4. n.id = r.id /\ n.corr = r.corr /\ n.role = r.role /\ n.key = r.key /\ n.srv = name /\ n.status = status
  BY <1>1 DEF MessageSet
<1> HIDE DEF m, n
<1>5. IsReply(m, t) /\ IsReply(n, t)
  BY <1>1, <1>3, <1>4 DEF IsReply
<1> QED BY <1>2, <1>3, <1>4, <1>5 DEF r, m, n, Reworded, Renamed, HasStatus

LEMMA StreamFacts ==
    ASSUME IInv, NEW t \in Turns, turn[t].phase = "open"
    PROVE  /\ turn[t].sid \in Sessions /\ turn[t].text \in Texts \cup {NoText}
           /\ turn[t].key \in Names /\ turn[t].aborted \in BOOLEAN
BY Facts DEF Logs, Requests

LEMMA ShownKeeps ==
    ASSUME IInv, NEW t \in Turns, turn[t].phase = "open", NEW status \in Statuses,
           NEW text \in Texts \cup {NoText}
    PROVE  Sound(Shown(t, status, text), turn) /\ Shown(t, status, text).abort = tab.abort
<1> DEFINE m == [ReplyMsg(t) EXCEPT !.status = status, !.text = text]
<1>1. m \in MessageSet /\ IsReply(m, t) /\ m.id = <<"r", t>>
  <2>1. m = Reworded(t, status, text)
    BY DEF Reworded
  <2>2. <<"local", t>> \in {"local", "r"} \X Turns
    OBVIOUS
  <2>3. HasStatus(Reworded(t, status, text), t, status)
    BY <2>2, ReplyReworded
  <2> QED BY <2>1, <2>3 DEF HasStatus, IsReply
<1>2. Shown(t, status, text) = ReplaceMsg(tab, turn[t].sid, m.id, m)
  BY <1>1 DEF Shown
<1> HIDE DEF m
<1>3. m \in OwnOf(turn[t].sid, turn)
  BY <1>1, Facts, StreamFacts, ReplyOwn
<1> QED BY <1>2, <1>3, Facts, StreamFacts, ReplaceKeeps

LEMMA KeptStored ==
    ASSUME IInv, NEW t \in Turns, turn[t].sid \in Sessions
    PROVE  Kept(t) \subseteq {m \in StoredOf(turn[t].sid, turn) : m.role = "assistant"}
<1> DEFINE c == conv[turn[t].sid]
           of == {i \in DOMAIN c : /\ c[i].role = "user" /\ c[i].key = turn[t].key
                                   /\ i < Len(c) /\ c[i + 1].role = "assistant"}
<1>1. c \in Seq(StoredOf(turn[t].sid, turn))
  BY SMTT(30) DEF IInv, ServerSound
<1>2. CASE of = {}
  BY SMTT(30), <1>2 DEF Kept
<1>3. CASE of # {}
  <2>1. (CHOOSE i \in of : TRUE) \in of
    BY ZenonT(40), <1>3
  <2> DEFINE k == CHOOSE i \in of : TRUE
  <2>2. Kept(t) = {c[k + 1]}
    BY SMTT(30), <1>3 DEF Kept
  <2>3. k \in DOMAIN c /\ k < Len(c) /\ c[k + 1].role = "assistant"
    BY Zenon, <2>1
  <2> HIDE DEF k, c
  <2>4. k + 1 \in DOMAIN c
    BY <1>1, <2>3
  <2>5. c[k + 1] \in StoredOf(turn[t].sid, turn)
    BY <1>1, <2>4, ElementOf
  <2> QED BY <2>2, <2>3, <2>5
<1> QED BY <1>2, <1>3

LEMMA CompletedKeeps ==
    ASSUME IInv, NEW t \in Turns, turn[t].phase = "open",
           NEW answer \in SUBSET {m \in StoredOf(turn[t].sid, turn) : m.role = "assistant"},
           NEW st, st = SetPending(Completed(t, answer), turn[t].sid, 0)
    PROVE  Sound(st, After(turn, t, "closed", turn[t].aborted)) /\ st.abort = 0
<1> DEFINE s == turn[t].sid
           text == IF answer = {} THEN NoText ELSE (CHOOSE m \in answer : TRUE).text
           srvId == IF answer = {} THEN <<"local", t>> ELSE (CHOOSE m \in answer : TRUE).id
           final == [ReplyMsg(t) EXCEPT !.status = "succeeded", !.text = text, !.srv = srvId]
           un == After(turn, t, "closed", turn[t].aborted)
           vn == After(turn, t, "closed", FALSE)
           x == ReplaceMsg(tab, s, final.id, final)
<1>1. text \in Texts \cup {NoText} /\ srvId \in {"local", "r"} \X Turns
  <2>1. CASE answer = {}
    BY <2>1
  <2>2. CASE answer # {}
    <3> DEFINE c == CHOOSE m \in answer : TRUE
    <3>1. c \in answer
      BY <2>2
    <3>2. text = c.text /\ srvId = c.id
      BY <2>2
    <3> HIDE DEF c, text, srvId
    <3>3. c \in MessageSet /\ c.id \in {"u", "su", "r"} \X Turns /\ c.id[1] = "r"
      BY <3>1 DEF StoredOf, OwnOf, Labelled
    <3> QED BY <3>2, <3>3 DEF MessageSet
  <2> QED BY <2>1, <2>2
<1>2. Completed(t, answer) = IdleAndUnbound(ReplaceMsg(tab, s, <<"r", t>>, final))
  BY DEF Completed
<1> HIDE DEF text, srvId
<1>3. final \in MessageSet /\ IsReply(final, t) /\ final.id = <<"r", t>> /\ final.status = "succeeded"
  <2>1. final = Renamed(t, "succeeded", text, srvId)
    BY DEF Renamed
  <2>2. HasStatus(Renamed(t, "succeeded", text, srvId), t, "succeeded")
    BY <1>1, ReplyReworded DEF Statuses
  <2> QED BY <2>1, <2>2 DEF HasStatus, IsReply
<1> HIDE DEF final
<1>4. Moved(turn, t, "closed", turn[t].aborted) /\ Moved(turn, t, "closed", FALSE)
  BY Facts, StreamFacts, PhaseGoesOn
<1>5. un \in Logs /\ un[t].phase = "closed" /\ un[t].sid = s
  BY <1>4 DEF Moved
<1>6. vn \in Logs /\ \A y \in Turns : GoesOn(turn[y], vn[y]) /\ Calm(turn[y], vn[y])
  BY <1>4 DEF Moved
<1>7. vn = [un EXCEPT ![t].aborted = FALSE]
  BY Facts DEF After, Logs, Requests
<1>8. Sound(tab, vn)
  <2> HIDE DEF vn
  <2> QED BY <1>6, Facts, SoundGoesOn
<1>9. s \in Sessions
  BY StreamFacts
<1> HIDE DEF un, vn
<1>11. final.id = <<"r", t>> /\ ~isStreaming(final)
  BY <1>3 DEF isStreaming, Unsettled
<1>10. final \in OwnOf(un[t].sid, un)
  BY <1>3, <1>5, <1>9, <1>11, ReplyOwn
<1>12. Sound(x, un)
  BY <1>5, <1>7, <1>8, <1>9, <1>10, <1>11, FinalKeeps
<1> HIDE DEF x, s
<1>13. Sound(IdleAndUnbound(x), un) /\ IdleAndUnbound(x).abort = 0
  BY <1>5, <1>12, IdleKeeps
<1>14. Sound(SetPending(IdleAndUnbound(x), s, 0), un) /\ SetPending(IdleAndUnbound(x), s, 0).abort = 0
  BY <1>5, <1>9, <1>13, PendingKeeps
<1> QED BY <1>2, <1>3, <1>14 DEF un, s, x

LEMMA EventKeeps ==
    ASSUME IInv, NEW t \in Turns, NEW status \in {"streaming", "succeeded"}, onEvent(t, status)
    PROVE  IInv'
<1>1. /\ turn[t].phase = "open" /\ tab' = Shown(t, status, turn[t].text)
      /\ turn' = turn /\ timer' = timer /\ poll' = poll /\ asks' = asks /\ snap' = snap
      /\ conv' = conv /\ srv' = srv /\ faults' = faults
  BY DEF onEvent, Hears
<1>2. Sound(tab', turn') /\ tab'.abort = tab.abort
  BY <1>1, StreamFacts, ShownKeeps DEF Statuses
<1>3. \A y \in Turns : GoesOn(turn[y], turn'[y])
  BY <1>1 DEF GoesOn
<1> QED BY <1>1, <1>2, <1>3, Facts, StepKeeps

LEMMA CompleteKeeps ==
    ASSUME IInv, NEW t \in Turns, turn[t].phase = "open",
           NEW answer \in SUBSET {m \in StoredOf(turn[t].sid, turn) : m.role = "assistant"},
           completeStream(t, answer)
    PROVE  IInv'
<1> DEFINE un == After(turn, t, "closed", turn[t].aborted)
<1>1. /\ tab' = SetPending(Completed(t, answer), turn[t].sid, 0) /\ timer' = 0
      /\ poll' = poll /\ asks' = asks /\ snap' = snap
      /\ conv' = conv /\ srv' = srv /\ faults' = faults
  BY DEF completeStream
<1>2. turn' = un
  BY Facts DEF completeStream, After, Logs, Requests
<1>3. Sound(tab', un) /\ tab'.abort = 0
  BY <1>1, CompletedKeeps
<1>4. Moved(turn, t, "closed", turn[t].aborted)
  BY Facts, StreamFacts, PhaseGoesOn
<1>5. /\ un \in Logs
      /\ \A y \in Turns : GoesOn(turn[y], un[y]) /\ (turn[y].phase = "unused" => un[y] = turn[y])
  BY <1>4 DEF Moved
<1> HIDE DEF un
<1> QED BY <1>1, <1>2, <1>3, <1>5, Facts, StepKeeps

LEMMA DoneKeeps ==
    ASSUME IInv, NEW t \in Turns, Done(t) \/ StreamEnds(t)
    PROVE  IInv'
<1>1. CASE Done(t)
  BY <1>1, StreamFacts, KeptStored, CompleteKeeps DEF Done, Hears
<1>2. CASE StreamEnds(t)
  BY <1>2, CompleteKeeps DEF StreamEnds
<1> QED BY <1>1, <1>2

LEMMA FailedKeeps ==
    ASSUME IInv, NEW t \in Turns, turn[t].phase = "open"
    PROVE  Sound(Failed(t), turn) /\ Failed(t).abort = 0
<1>1. Sound(Shown(t, "failed", NoText), turn)
  BY ShownKeeps DEF Statuses
<1> QED BY <1>1, Facts, IdleKeeps DEF Failed

LEMMA ErrorEventKeeps ==
    ASSUME IInv, NEW t \in Turns, ErrorEvent(t)
    PROVE  IInv'
<1> DEFINE un == After(turn, t, "open", TRUE)
<1>1. /\ turn[t].phase = "open" /\ tab' = Failed(t) /\ timer' = 0
      /\ poll' = poll /\ asks' = asks /\ snap' = snap
      /\ conv' = conv /\ srv' = srv /\ faults' = faults
  BY DEF ErrorEvent, Hears
<1>2. turn' = un
  BY <1>1, Facts DEF ErrorEvent, After, Logs, Requests
<1>3. Moved(turn, t, "open", TRUE)
  BY <1>1, Facts, PhaseGoesOn
<1>4. /\ un \in Logs /\ \A y \in Turns : GoesOn(turn[y], un[y]) /\ Calm(turn[y], un[y])
      /\ \A y \in Turns : turn[y].phase = "unused" => un[y] = turn[y]
  BY <1>3 DEF Moved
<1> HIDE DEF un
<1>5. Sound(tab', turn) /\ tab'.abort = 0
  BY <1>1, FailedKeeps
<1>6. Sound(tab', un)
  BY <1>4, <1>5, Facts, SoundGoesOn
<1> QED BY <1>1, <1>2, <1>4, <1>5, <1>6, Facts, StepKeeps

LEMMA ErrorAbortsKeeps ==
    ASSUME IInv, NEW t \in Turns, ErrorAborts(t)
    PROVE  IInv'
<1> DEFINE un == After(turn, t, "closed", TRUE)
<1>1. /\ turn[t].phase = "open" /\ turn[t].aborted /\ tab' = Cancelled(tab, t) /\ timer' = timer
      /\ poll' = poll /\ asks' = asks /\ snap' = snap
      /\ conv' = conv /\ srv' = srv /\ faults' = faults
  BY DEF ErrorAborts
<1>2. turn' = un
  BY <1>1, Facts DEF ErrorAborts, After, Logs, Requests
<1>3. Moved(turn, t, "closed", TRUE)
  BY <1>1, Facts, PhaseGoesOn
<1>4. /\ un \in Logs /\ \A y \in Turns : GoesOn(turn[y], un[y])
      /\ \A y \in Turns : turn[y].phase = "unused" => un[y] = turn[y]
  BY <1>3 DEF Moved
<1>5. Sound(tab', un) /\ tab'.abort = 0
  BY <1>1, Facts, StreamFacts, CancelledKeeps
<1> HIDE DEF un
<1> QED BY <1>1, <1>2, <1>4, <1>5, Facts, StepKeeps

LEMMA NetFailKeeps ==
    ASSUME IInv, NEW t \in Turns, NetFail(t)
    PROVE  IInv'
<1> DEFINE un == After(turn, t, "closed", turn[t].aborted)
<1>1. /\ turn[t].phase = "open" /\ ~turn[t].aborted /\ timer' = 0
      /\ tab' \in {Failed(t), SetPending(Completed(t, {}), turn[t].sid, 0)}
      /\ poll' = poll /\ asks' = asks /\ snap' = snap
      /\ conv' = conv /\ srv' = srv /\ faults' = faults + 1
  BY DEF NetFail, Hears
<1>2. turn' = un
  BY <1>1, Facts DEF NetFail, After, Logs, Requests
<1>3. Moved(turn, t, "closed", turn[t].aborted) /\ turn[t].aborted = FALSE
  BY <1>1, Facts, StreamFacts, PhaseGoesOn
<1>4. /\ un \in Logs /\ \A y \in Turns : GoesOn(turn[y], un[y]) /\ Calm(turn[y], un[y])
      /\ \A y \in Turns : turn[y].phase = "unused" => un[y] = turn[y]
  BY <1>3 DEF Moved
<1>5. Sound(tab', un) /\ tab'.abort = 0
  <2>1. CASE tab' = Failed(t)
    <3> HIDE DEF un
    <3>1. Sound(tab', turn) /\ tab'.abort = 0
      BY <1>1, <2>1, FailedKeeps
    <3> QED BY <1>4, <3>1, Facts, SoundGoesOn
  <2>2. CASE tab' = SetPending(Completed(t, {}), turn[t].sid, 0)
    BY <1>1, <2>2, CompletedKeeps
  <2> QED BY <1>1, <2>1, <2>2
<1> HIDE DEF un
<1>6. faults' \in Nat
  BY <1>1, Facts
<1> QED BY <1>1, <1>2, <1>4, <1>5, <1>6, Facts, StepKeeps

-----------------------------------------------------------------------------
\* A step of the page alone: no request changes.
LEMMA PageKeeps ==
    ASSUME IInv, turn' = turn, Sound(tab', turn), tab'.abort = tab.abort, timer' = timer,
           poll' \in {0, poll}, asks' \subseteq asks,
           snap' = snap, conv' = conv, srv' = srv, faults' \in Nat
    PROVE  IInv'
<1>1. \A y \in Turns : GoesOn(turn[y], turn'[y])
  BY DEF GoesOn
<1> QED BY <1>1, Facts, StepKeeps

LEMMA SwitchKeeps ==
    ASSUME IInv, NEW s \in Sessions, switchSession(s)
    PROVE  IInv'
<1>1. tab' = [tab EXCEPT !.active = s]
  BY DEF switchSession
<1>2. tab' \in Tab /\ tab'.msgs = tab.msgs /\ tab'.kind = tab.kind /\ tab'.pending = tab.pending
      /\ tab'.abort = tab.abort
  BY <1>1, Facts DEF Tab
<1>3. Sound(tab', turn)
  BY <1>2, Facts, SameShown
<1> QED BY <1>2, <1>3, Facts, PageKeeps DEF switchSession

LEMMA DelMessageKeeps ==
    ASSUME IInv, NEW i \in Nat, delMessage(i)
    PROVE  IInv'
<1> DEFINE s == tab.active
<1>1. s \in Sessions /\ i \in DOMAIN tab.msgs[s] /\ tab' = DelMsg(tab, s, tab.msgs[s][i].id)
  BY Facts DEF delMessage, Tab
<1>2. Live(tab, s)
  BY <1>1, Facts DEF Sound, Live
<1> HIDE DEF s
<1>3. Sound(tab', turn) /\ tab'.abort = tab.abort
  BY <1>1, <1>2, Facts, DelMsgKeeps
<1> QED BY <1>3, Facts, PageKeeps DEF delMessage

LEMMA DelSessionGoesOn ==
    ASSUME IInv, NEW s \in Sessions, delSession(s)
    PROVE  IInv'
<1>1. /\ tab' = DelSession(tab, s) /\ conv' = [conv EXCEPT ![s] = <<>>] /\ faults' = faults + 1
      /\ timer' = timer /\ turn' = turn /\ poll' = poll /\ asks' = asks /\ snap' = snap /\ srv' = srv
  BY DEF delSession
<1>2. Sound(tab', turn') /\ tab'.abort = tab.abort
  BY <1>1, Facts, DelSessionKeeps
<1>3. ServerSound(snap', conv', turn')
  BY <1>1 DEF IInv, ServerSound, TypeOK
<1>4. tab' \in Tab /\ conv' \in [Sessions -> Seq(MessageSet)] /\ faults' \in Nat
  BY <1>1, <1>2 DEF Sound, IInv, TypeOK
<1>5. TypeOK'
  BY <1>1, <1>4 DEF IInv, TypeOK
<1>6. Underway'
  BY <1>1, <1>2 DEF IInv, Underway
<1> QED BY <1>2, <1>3, <1>5, <1>6, Together

LEMMA ReloadKeeps ==
    ASSUME IInv, loadState
    PROVE  IInv'
<1> DEFINE kind == [s \in Sessions |-> IF tab.kind[s] = "ghost" THEN "live" ELSE tab.kind[s]]
           list(s) == [i \in DOMAIN tab.msgs[s] |->
                          IF tab.msgs[s][i].status = "streaming"
                          THEN [tab.msgs[s][i] EXCEPT !.status = "in_flight"] ELSE tab.msgs[s][i]]
           msgs == [s \in Sessions |-> list(s)]
<1>1. /\ tab' = [tab EXCEPT !.kind = kind, !.msgs = msgs, !.typing = FALSE, !.abort = 0, !.corr = 0]
      /\ turn' = [t \in Turns |-> IF turn[t].phase \in {"queued", "open"}
                                  THEN [turn[t] EXCEPT !.phase = "gone"] ELSE turn[t]]
      /\ timer' = 0 /\ poll' = 0 /\ asks' = {} /\ snap' = [s \in Sessions |-> <<>>]
      /\ conv' = conv /\ srv' = srv /\ faults' = faults + 1
  BY Facts DEF loadState, Tab
<1>2. turn' \in Logs
  BY <1>1, Facts DEF Logs, Requests
<1>3. \A t \in Turns : GoesOn(turn[t], turn'[t]) /\ Calm(turn[t], turn'[t])
                      /\ (turn[t].phase = "unused" => turn'[t] = turn[t])
  BY <1>1, Facts DEF Logs, Requests, GoesOn, Calm
<1>4. Sound(tab, turn')
  BY <1>2, <1>3, Facts, SoundGoesOn
<1>5. ASSUME NEW s \in Sessions
      PROVE  list(s) \in Seq(OwnOf(s, turn')) /\ Unrepeated(list(s))
  <2> DEFINE q == tab.msgs[s]
             r == list(s)
  <2>1. q \in Seq(OwnOf(s, turn')) /\ Unrepeated(q)
    BY <1>4 DEF Sound
  <2>2. ASSUME NEW i \in DOMAIN q
        PROVE  r[i] \in OwnOf(s, turn') /\ r[i].id = q[i].id
    <3>1. q[i] \in OwnOf(s, turn')
      BY <2>1, ElementOf
    <3>2. r[i] \in {q[i], [q[i] EXCEPT !.status = "in_flight"]}
      BY <2>2
    <3>3. r[i] # q[i] => isStreaming(q[i])
      BY <2>2 DEF isStreaming, Unsettled
    <3> HIDE DEF q, r
    <3>4. ASSUME isStreaming(q[i])
          PROVE  [q[i] EXCEPT !.status = "in_flight"] \in OwnOf(s, turn')
      <4> DEFINE n == [q[i] EXCEPT !.status = "in_flight"]
      <4>1. n \in MessageSet
        BY <3>1 DEF OwnOf, MessageSet, Statuses
      <4>2. /\ n.id = q[i].id /\ n.role = q[i].role /\ n.corr = q[i].corr /\ n.key = q[i].key
            /\ n.srv = q[i].srv
        BY <3>1 DEF OwnOf, MessageSet
      <4> HIDE DEF n
      <4>3. Labelled(n, turn')
        BY <3>1, <4>2 DEF OwnOf, Labelled
      <4>4. n \in OwnOf(s, turn')
        BY <3>1, <3>4, <4>1, <4>2, <4>3 DEF OwnOf
      <4> QED BY <4>4 DEF n
    <3>5. [q[i] EXCEPT !.status = "in_flight"].id = q[i].id
      BY <3>1 DEF OwnOf, MessageSet
    <3> QED BY <3>1, <3>2, <3>3, <3>4, <3>5
  <2>3. r = [i \in DOMAIN q |-> r[i]]
    OBVIOUS
  <2> HIDE DEF q, r
  <2>4. r \in Seq(OwnOf(s, turn')) /\ Unrepeated(r)
    BY <2>1, <2>2, <2>3, Rewritten
  <2> QED BY <2>4 DEF r
<1>6. kind \in [Sessions -> {"absent", "live", "ghost"}]
  BY Facts DEF Tab
<1>7. ASSUME NEW s \in Sessions
      PROVE  list(s) \in Seq(MessageSet)
  <2>1. OwnOf(s, turn') \subseteq MessageSet
    BY DEF OwnOf
  <2> HIDE DEF list
  <2> QED BY <1>5, <2>1, Wider
<1>8. ASSUME NEW s \in Sessions, kind[s] # "live"
      PROVE  list(s) = <<>>
  <2>1. tab.msgs[s] = <<>>
    BY <1>8, Facts DEF Sound
  <2> QED BY <2>1
<1> HIDE DEF list, kind
<1>9. msgs \in [Sessions -> Seq(MessageSet)] /\ \A s \in Sessions : msgs[s] = list(s)
  BY <1>7
<1> HIDE DEF msgs
<1>10. /\ tab' \in Tab /\ tab'.kind = kind /\ tab'.msgs = msgs /\ tab'.pending = tab.pending
       /\ tab'.abort = 0
  BY <1>1, <1>6, <1>9, Facts DEF Tab
<1>11. Sound(tab', turn')
  BY <1>4, <1>5, <1>8, <1>9, <1>10 DEF Sound
<1>12. ServerSound(snap', conv', turn')
  <2>1. ServerSound(snap, conv, turn')
    BY <1>2, <1>3, Facts, KeptGoesOn DEF IInv
  <2> QED BY <1>1, <2>1 DEF ServerSound
<1>13. TypeOK'
  BY <1>1, <1>2, <1>10, Facts DEF IInv, TypeOK, Logs, Requests
<1>14. Underway'
  BY <1>1, <1>3, <1>10 DEF IInv, Underway, GoesOn
<1> QED BY <1>11, <1>12, <1>13, <1>14, Together

-----------------------------------------------------------------------------
\* Answers are asked for turns that were requested.
LEMMA AskKeeps ==
    ASSUME IInv, NEW a, asks' = asks \cup {a}, a.turn \in Turns, turn[a.turn].phase # "unused",
           a \in [sid : Sessions, turn : Turns, by : {"page", "poll"},
                  status : {"null", "running", "done", "cancelled", "failed"}],
           UNCHANGED <<tab, timer, turn, poll, snap, conv, srv, faults>>
    PROVE  IInv'
<1>1. TypeOK'
  BY DEF IInv, TypeOK
<1>2. Underway'
  BY DEF IInv, Underway
<1> QED BY <1>1, <1>2, Together DEF IInv, ServerSound

LEMMA StatusIs ==
    ASSUME IInv, NEW t \in Turns
    PROVE  StatusOf(t) \in {"null", "running", "done", "cancelled", "failed"}
<1>1. srv[t] \in Statutes
  BY Facts
<1> QED BY <1>1 DEF StatusOf, Statutes

LEMMA AwaitedIs ==
    ASSUME IInv, NEW s \in Sessions, Awaited(s) # 0
    PROVE  Awaited(s) \in Turns /\ turn[Awaited(s)].phase # "unused"
<1>1. CASE tab.pending[s] # 0
  BY <1>1, Facts DEF Awaited, Sound, Tab
<1>2. CASE tab.pending[s] = 0
  <2> DEFINE q == tab.msgs[s]
             k == CHOOSE i \in InFlight(s) : \A j \in InFlight(s) : i <= j
  <2>1. q \in Seq(OwnOf(s, turn))
    BY Facts DEF Sound
  <2>2. InFlight(s) # {} /\ Awaited(s) = q[k].corr
    BY <1>2 DEF Awaited
  <2>3. InFlight(s) \in SUBSET Nat /\ InFlight(s) \subseteq DOMAIN q
    BY <2>1 DEF InFlight
  <2>4. PICK l \in InFlight(s) : \A j \in InFlight(s) : l <= j
    BY <2>2, <2>3, Least
  <2>5. k \in DOMAIN q
    BY <2>3, <2>4
  <2> HIDE DEF k, q
  <2>6. q[k] \in OwnOf(s, turn)
    BY <2>1, <2>5, ElementOf
  <2> QED BY <2>2, <2>6 DEF OwnOf, MessageSet
<1> QED BY <1>1, <1>2

LEMMA RecoverKeeps ==
    ASSUME IInv, recoverPendingTurn \/ PollTurn
    PROVE  IInv'
<1>1. CASE recoverPendingTurn
  <2> DEFINE s == tab.active
             a == [sid |-> s, turn |-> Awaited(s), by |-> "page", status |-> StatusOf(Awaited(s))]
  <2>1. s \in Sessions /\ Awaited(s) # 0 /\ asks' = asks \cup {a}
    BY <1>1, Facts DEF recoverPendingTurn, Tab
  <2>2. Awaited(s) \in Turns /\ turn[Awaited(s)].phase # "unused"
    BY <2>1, AwaitedIs
  <2>3. StatusOf(Awaited(s)) \in {"null", "running", "done", "cancelled", "failed"}
    BY <2>2, StatusIs
  <2>4. a \in [sid : Sessions, turn : Turns, by : {"page", "poll"},
               status : {"null", "running", "done", "cancelled", "failed"}]
        /\ a.turn = Awaited(s)
    BY <2>1, <2>2, <2>3
  <2> HIDE DEF a
  <2> QED BY <1>1, <2>1, <2>2, <2>4, AskKeeps DEF recoverPendingTurn
<1>2. CASE PollTurn
  <2> DEFINE a == [sid |-> turn[poll].sid, turn |-> poll, by |-> "poll", status |-> StatusOf(poll)]
  <2>1. poll \in Turns /\ turn[poll].phase # "unused" /\ asks' = asks \cup {a}
    BY <1>2 DEF PollTurn, IInv, TypeOK, Underway
  <2>2. turn[poll].sid \in Sessions
    BY <2>1, Facts
  <2>3. StatusOf(poll) \in {"null", "running", "done", "cancelled", "failed"}
    BY <2>1, StatusIs
  <2>4. a \in [sid : Sessions, turn : Turns, by : {"page", "poll"},
               status : {"null", "running", "done", "cancelled", "failed"}]
        /\ a.turn = poll
    BY <2>1, <2>2, <2>3
  <2> HIDE DEF a
  <2> QED BY <1>2, <2>1, <2>4, AskKeeps DEF PollTurn
<1> QED BY <1>1, <1>2

LEMMA ApplyKeeps ==
    ASSUME IInv, NEW a \in asks, applyStatus(a)
    PROVE  IInv'
<1>1. a.sid \in Sessions /\ a.turn \in Turns /\ turn[a.turn].phase # "unused"
  BY DEF IInv, TypeOK, Underway
<1>2. /\ asks' = asks \ {a} /\ timer' = timer /\ turn' = turn /\ snap' = snap /\ conv' = conv
      /\ srv' = srv /\ faults' = faults
      /\ tab' \in {[SetPending(tab, a.sid, 0) EXCEPT !.typing = FALSE], [tab EXCEPT !.typing = TRUE], tab}
      /\ poll' \in {0, poll, a.turn}
  BY DEF applyStatus
<1>3. Sound(tab', turn) /\ tab'.abort = tab.abort
  <2>1. CASE tab' = [SetPending(tab, a.sid, 0) EXCEPT !.typing = FALSE]
    <3> DEFINE x == SetPending(tab, a.sid, 0)
    <3>1. Sound(x, turn) /\ x.abort = tab.abort
      BY <1>1, Facts, PendingKeeps
    <3>2. tab' = [x EXCEPT !.typing = FALSE]
      BY <2>1
    <3> HIDE DEF x
    <3>3. tab' \in Tab /\ tab'.msgs = x.msgs /\ tab'.kind = x.kind /\ tab'.pending = x.pending
          /\ tab'.abort = x.abort
      BY <3>1, <3>2 DEF Sound, Tab
    <3> QED BY <3>1, <3>3, Facts, SameShown
  <2>2. CASE tab' = [tab EXCEPT !.typing = TRUE]
    <3>1. tab' \in Tab /\ tab'.msgs = tab.msgs /\ tab'.kind = tab.kind /\ tab'.pending = tab.pending
          /\ tab'.abort = tab.abort
      BY <2>2, Facts DEF Tab
    <3> QED BY <3>1, Facts, SameShown
  <2>3. CASE tab' = tab
    BY <2>3, Facts
  <2> QED BY <1>2, <2>1, <2>2, <2>3
<1>4. ServerSound(snap', conv', turn')
  BY <1>2 DEF IInv, ServerSound
<1>5. tab' \in Tab
  BY <1>3 DEF Sound
<1>6. TypeOK'
  BY <1>1, <1>2, <1>5 DEF IInv, TypeOK
<1>7. Underway'
  BY <1>1, <1>2, <1>3 DEF IInv, Underway
<1> QED BY <1>2, <1>3, <1>4, <1>6, <1>7, Together

LEMMA FetchKeeps ==
    ASSUME IInv, NEW s \in Sessions, FetchConversation(s)
    PROVE  IInv'
<1>1. /\ snap' = [snap EXCEPT ![s] = conv[s]] /\ tab' = tab /\ timer' = timer /\ turn' = turn
      /\ poll' = poll /\ asks' = asks /\ conv' = conv /\ srv' = srv /\ faults' = faults
  BY DEF FetchConversation
<1>2. ServerSound(snap', conv', turn')
  BY <1>1 DEF IInv, ServerSound, TypeOK
<1>3. TypeOK'
  BY <1>1 DEF IInv, TypeOK
<1>4. Underway' /\ Sound(tab', turn')
  BY <1>1 DEF IInv, Underway
<1> QED BY <1>2, <1>3, <1>4, Together

\* What is poured in is settled, and the page had nothing unsettled.
LEMMA PouredIn ==
    ASSUME IInv, NEW s \in Sessions, Hydrate(s), NEW asked, NEW r,
           asked = [k \in Keys |-> {x.text : x \in {x \in Messages(s) \cup Range(snap[s]) :
                                                      x.role = "user" /\ x.key = k}}],
           r = resolveHydratedMessages(tab.msgs[s], snap[s])
    PROVE  /\ tab' = SyncSession(tab, s, r) /\ r \in Seq(ToldOf(s, turn, asked))
           /\ \A m \in Messages(s) : m.role = "user" =>
                 Told(r) /\ \E k \in Askers(r) : r[k].text \in asked[m.key] /\ m.key \in Keys
<1> DEFINE q == tab.msgs[s]
           T == ToldOf(s, turn, asked)
           both == mergeConversationMessages(q, snap[s])
<1>1. /\ tab' = SyncSession(tab, s, r)
      /\ \A i \in DOMAIN q : ~isStreaming(q[i])
  BY DEF Hydrate, shouldSkipConversationHydrate
<1>2. \A m \in StoredOf(s, turn) : m.role = "user" => m.key \in Keys
  BY DEF StoredOf, OwnOf, Labelled
<1>3. \A m \in StoredOf(s, turn) : m \in Messages(s) \cup Range(snap[s]) => m \in T
  BY <1>2 DEF ToldOf
<1>4. q \in Seq(T)
  <2>1. q \in Seq(OwnOf(s, turn)) /\ \A i \in DOMAIN q : q[i] \in Messages(s)
    BY Facts DEF Sound, Messages
  <2> HIDE DEF q, T
  <2>2. \A i \in DOMAIN q : q[i] \in T
    BY <1>1, <1>3, <2>1, ElementOf DEF StoredOf
  <2> QED BY <2>1, <2>2
<1>5. snap[s] \in Seq(T)
  <2> DEFINE c == snap[s]
  <2>1. c \in Seq(StoredOf(s, turn)) /\ \A i \in DOMAIN c : c[i] \in Range(snap[s])
    BY DEF IInv, ServerSound, Range
  <2> HIDE DEF c, T
  <2>2. \A i \in DOMAIN c : c[i] \in T
    BY <1>3, <2>1, ElementOf
  <2>3. c \in Seq(T)
    BY <2>1, <2>2
  <2> QED BY <2>3 DEF c
<1>6. /\ both \in Seq(T)
      /\ q # <<>> /\ Unrepeated(q) => Told(both)
      /\ q # <<>> => \A j \in Askers(q) : \E k \in Askers(both) : both[k].key = q[j].key
  <2>1. turn \in Logs
    BY Facts
  <2> DEFINE c == snap[s]
  <2>2. q \in Seq(ToldOf(s, turn, asked)) /\ c \in Seq(ToldOf(s, turn, asked))
    BY <1>4, <1>5
  <2> HIDE DEF q, c
  <2> QED BY <2>1, <2>2, MergeStays DEF c
<1> HIDE DEF both, T
<1>7. r = collapseDuplicateTurns(both)
  BY DEF resolveHydratedMessages, both
<1>8. \A i \in DOMAIN both : both[i].role \in {"user", "assistant"}
  BY <1>6, ElementOf, ToldIs DEF T
<1>9. /\ r \in Seq(T) /\ (Told(both) => Told(r))
      /\ \A j \in Askers(both) : \E k \in Askers(r) : r[k].text = both[j].text
  BY <1>6, <1>7, <1>8, CollapseKeeps
<1>10. ASSUME NEW m \in Messages(s), m.role = "user"
       PROVE  Told(r) /\ \E k \in Askers(r) : r[k].text \in asked[m.key] /\ m.key \in Keys
  <2>1. PICK j \in DOMAIN q : q[j] = m
    BY DEF Messages
  <2>2. q # <<>> /\ j \in Askers(q) /\ Unrepeated(q) /\ m \in T
    BY <1>4, <1>10, <2>1, Facts, ElementOf DEF Askers, Sound
  <2>3. PICK k \in Askers(both) : both[k].key = m.key
    BY <1>6, <2>1, <2>2
  <2>4. both[k] \in T /\ both[k].role = "user"
    BY <1>6, ElementOf DEF Askers
  <2>5. both[k].text \in asked[m.key] /\ m.key \in Keys
    BY <1>10, <2>2, <2>3, <2>4, ToldIs DEF T, Labelled
  <2> QED BY <1>6, <1>9, <2>2, <2>5
<1> QED BY <1>1, <1>9, <1>10 DEF T

LEMMA HydrateKeeps ==
    ASSUME IInv, NEW s \in Sessions, Hydrate(s)
    PROVE  /\ IInv'
           /\ \A m \in Messages(s) : m.role = "user" =>
                 \E n \in Messages(s)' : n.role = "user" /\ n.text \in AskedAs(s, m)
<1> DEFINE asked == [k \in Keys |-> {x.text : x \in {x \in Messages(s) \cup Range(snap[s]) :
                                                        x.role = "user" /\ x.key = k}}]
           r == resolveHydratedMessages(tab.msgs[s], snap[s])
<1>1. /\ timer' = timer /\ turn' = turn /\ poll' = poll /\ asks' = asks /\ snap' = snap
      /\ conv' = conv /\ srv' = srv /\ faults' = faults
  BY DEF Hydrate
<1>2. \A m : m.key \in Keys => asked[m.key] = AskedAs(s, m)
  BY DEF AskedAs
<1>3. /\ tab' = SyncSession(tab, s, r) /\ r \in Seq(ToldOf(s, turn, asked))
      /\ \A m \in Messages(s) : m.role = "user" =>
            Told(r) /\ \E k \in Askers(r) : r[k].text \in asked[m.key] /\ m.key \in Keys
  BY PouredIn
<1> HIDE DEF asked, r
<1>4. Sound(tab', turn) /\ tab'.abort = tab.abort
  BY <1>3, Facts, SyncKeeps
<1>5. IInv'
  BY <1>1, <1>4, Facts, PageKeeps
<1>6. ASSUME NEW m \in Messages(s), m.role = "user"
      PROVE  \E n \in Messages(s)' : n.role = "user" /\ n.text \in AskedAs(s, m)
  <2> DEFINE d == dedupeConversationMessages(r)
  <2>1. PICK k \in Askers(r) : r[k].text \in asked[m.key] /\ m.key \in Keys
    BY <1>3, <1>6
  <2>2. Told(r) /\ r # <<>>
    BY <1>3, <1>6, <2>1 DEF Askers
  <2>3. PICK l \in DOMAIN d : d[l] = r[k]
    BY <1>3, <2>2, Facts, DedupedOnce
  <2> HIDE DEF d
  <2>4. tab'.msgs[s] = d
    BY <1>3, <2>2, Facts DEF SyncSession, Tab, d
  <2>5. d[l] \in Messages(s)' /\ d[l].role = "user"
    BY <2>3, <2>4 DEF Messages, Askers
  <2>6. d[l].text \in AskedAs(s, m)
    BY <1>2, <2>1, <2>3
  <2> QED BY <2>5, <2>6
<1> QED BY <1>5, <1>6

LEMMA Longer ==
    ASSUME NEW T, NEW q \in Seq(T), NEW m \in T
    PROVE  Append(q, m) \in Seq(T)
OBVIOUS

LEMMA ServerKeeps ==
    ASSUME IInv, NEW t \in Turns, turn[t].phase \notin {"unused", "queued"},
           NEW m \in StoredOf(turn[t].sid, turn), NEW status \in Statutes,
           conv' \in {conv, [conv EXCEPT ![turn[t].sid] = Append(@, m)]},
           srv' = [srv EXCEPT ![t] = status], faults' \in Nat,
           UNCHANGED <<tab, timer, turn, poll, asks, snap>>
    PROVE  IInv'
<1>1. turn[t].sid \in Sessions /\ m \in MessageSet
  BY Facts DEF StoredOf, OwnOf
<1> DEFINE x == turn[t].sid
           l == Append(conv[x], m)
<1>6. conv \in [Sessions -> Seq(MessageSet)] /\ \A s \in Sessions : conv[s] \in Seq(StoredOf(s, turn))
  BY DEF IInv, ServerSound, TypeOK
<1>7. l \in Seq(MessageSet) /\ l \in Seq(StoredOf(x, turn))
  BY <1>1, <1>6, Longer
<1>8. conv' \in {conv, [conv EXCEPT ![x] = l]}
  BY <1>1, <1>6
<1> HIDE DEF l, x
<1>2. ServerSound(snap', conv', turn')
  <2>1. \A s \in Sessions : conv'[s] \in Seq(StoredOf(s, turn))
    BY <1>6, <1>7, <1>8
  <2> QED BY <2>1 DEF IInv, ServerSound
<1>3. conv' \in [Sessions -> Seq(MessageSet)]
  BY <1>6, <1>7, <1>8
<1>4. TypeOK'
  BY <1>3 DEF IInv, TypeOK, Statutes
<1>5. Underway' /\ Sound(tab', turn')
  BY DEF IInv, Underway, TypeOK
<1> QED BY <1>2, <1>4, <1>5, Together

LEMMA AcceptKeeps ==
    ASSUME IInv, NEW t \in Turns, ServerAccepts(t)
    PROVE  IInv'
<1> DEFINE s == turn[t].sid
           r == UserMsg(t, turn[t].text)
           asked == [r EXCEPT !.id = <<"su", t>>, !.key = turn[t].key, !.stamp = @ + 1]
<1>1. /\ turn[t].phase = "open"
      /\ \E status \in Statutes : srv' = [srv EXCEPT ![t] = status]
      /\ conv' \in {conv, [conv EXCEPT ![s] = Append(@, asked)]}
      /\ faults' \in Nat
      /\ UNCHANGED <<tab, timer, turn, poll, asks, snap>>
  BY Facts DEF ServerAccepts, Hears, Statutes
<1>2. s \in Sessions /\ turn[t].text \in Texts \cup {NoText} /\ turn[t].key \in Names
  BY <1>1, StreamFacts
<1>3. r \in OwnOf(s, turn)
  BY <1>1, <1>2, Facts, AskedOwn
<1>4. r.corr = t /\ r.status = "succeeded" /\ r.role = "user" /\ r.srv = NoName /\ turn[t].key \in Keys
  BY <1>1, Facts DEF UserMsg
<1> HIDE DEF r
<1>5. asked \in MessageSet
  <2>1. r \in MessageSet /\ r.stamp + 1 \in Nat
    BY <1>3 DEF OwnOf, MessageSet
  <2> DEFINE n == r.stamp + 1
  <2> HIDE DEF n
  <2>2. [r EXCEPT !.id = <<"su", t>>, !.key = turn[t].key, !.stamp = n] \in MessageSet
    BY <1>2, <2>1, NamesAre DEF n, MessageSet
  <2> QED BY <2>2 DEF n
<1>6. /\ asked.id = <<"su", t>> /\ asked.corr = t /\ asked.status = "succeeded"
      /\ asked.role = "user" /\ asked.srv = NoName /\ asked.key = turn[t].key
  BY <1>3, <1>4 DEF OwnOf, MessageSet
<1> HIDE DEF asked
<1>7. asked \in OwnOf(s, turn)
  <2>1. asked.id \in {"u", "su", "r"} \X Turns /\ asked.id[1] = "su" /\ asked.id[2] = t
    BY <1>6
  <2>2. Labelled(asked, turn)
    BY <1>4, <1>6, <2>1 DEF Labelled, KeyOf
  <2> QED BY <1>1, <1>5, <1>6, <2>1, <2>2 DEF OwnOf
<1>8. asked \in StoredOf(s, turn)
  BY <1>6, <1>7 DEF StoredOf, isStreaming, Unsettled
<1>9. PICK status \in Statutes : srv' = [srv EXCEPT ![t] = status]
  BY <1>1
<1> QED BY <1>1, <1>8, <1>9, ServerKeeps

LEMMA EndKeeps ==
    ASSUME IInv, NEW t \in Turns, NEW outcome \in {"done", "failed"}, ServerEnds(t, outcome)
    PROVE  IInv'
<1> DEFINE s == turn[t].sid
           r == ReplyMsg(t)
           answer == [r EXCEPT !.key = NoName, !.text = turn[t].text, !.stamp = @ + 1,
                               !.status = "succeeded"]
<1>1. /\ srv[t] = "running"
      /\ srv' = [srv EXCEPT ![t] = outcome]
      /\ conv' \in {conv, [conv EXCEPT ![s] = Append(@, answer)]}
      /\ UNCHANGED <<tab, timer, turn, poll, asks, snap, faults>>
  BY DEF ServerEnds
<1>2. turn[t].phase \notin {"unused", "queued"}
  BY <1>1 DEF IInv, Underway
<1>3. s \in Sessions /\ turn[t].text \in Texts \cup {NoText}
  BY <1>2, Facts DEF Logs, Requests
<1>4. r \in MessageSet /\ IsReply(r, t)
  BY ReplyIs
<1> HIDE DEF r
<1>5. answer \in MessageSet
  <2>1. r.stamp + 1 \in Nat
    BY <1>4 DEF MessageSet
  <2> DEFINE n == r.stamp + 1
  <2> HIDE DEF n
  <2>2. [r EXCEPT !.key = NoName, !.text = turn[t].text, !.stamp = n, !.status = "succeeded"]
          \in MessageSet
    BY <1>3, <1>4, <2>1, NamesAre DEF n, MessageSet, Statuses
  <2> QED BY <2>2 DEF n
<1>6. IsReply(answer, t) /\ answer.status = "succeeded"
  <2>1. /\ answer.id = r.id /\ answer.corr = r.corr /\ answer.role = r.role /\ answer.key = NoName
        /\ answer.srv = r.srv /\ answer.status = "succeeded"
    BY <1>4 DEF MessageSet
  <2> HIDE DEF answer
  <2> QED BY <1>4, <2>1 DEF IsReply
<1> HIDE DEF answer
<1>7. ~isStreaming(answer)
  BY <1>6 DEF isStreaming, Unsettled
<1>8. answer \in OwnOf(s, turn)
  BY <1>2, <1>3, <1>5, <1>6, <1>7, Facts, ReplyOwn
<1>9. answer \in StoredOf(s, turn)
  BY <1>7, <1>8 DEF StoredOf
<1> QED BY <1>1, <1>2, <1>9, Facts, ServerKeeps DEF Statutes

-----------------------------------------------------------------------------
LEMMA InitInvariant == Init => IInv
<1> SUFFICES ASSUME Init
             PROVE  IInv
  OBVIOUS
<1>1. <<>> \in Seq(MessageSet) /\ \A s \in Sessions : <<>> \in Seq(StoredOf(s, turn)) /\ <<>> \in Seq(OwnOf(s, turn))
  OBVIOUS
<1>2. tab \in Tab
  BY <1>1 DEF Init, Tab
<1>3. TypeOK
  BY <1>1, <1>2, NamesAre DEF Init, TypeOK
<1>4. Sound(tab, turn)
  <2>1. \A s \in Sessions : tab.msgs[s] = <<>> /\ tab.pending[s] = 0
    BY DEF Init
  <2>2. Unrepeated(<<>>)
    BY DEF Unrepeated
  <2> QED BY <1>1, <1>2, <2>1, <2>2 DEF Sound
<1>5. ServerSound(snap, conv, turn)
  BY <1>1 DEF Init, ServerSound
<1>6. Underway
  BY DEF Init, Underway
<1> QED BY <1>3, <1>4, <1>5, <1>6 DEF IInv

LEMMA NextInvariant == IInv /\ [Next]_vars => IInv'
<1> SUFFICES ASSUME IInv, [Next]_vars
             PROVE  IInv'
  OBVIOUS
<1>1. CASE UNCHANGED vars
  BY <1>1 DEF vars, IInv, TypeOK, Sound, ServerSound, Underway
<1>2. CASE User
  <2>1. 1..(2 * MaxTurns) \subseteq Nat
    BY ChatAssumption
  <2>2. CASE \E t \in Turns, text \in Texts : send(t, text)
    BY <2>2, SendKeeps
  <2>3. CASE \E t \in Turns, i \in 1..(2 * MaxTurns), text \in Texts : replaceAndSend(t, i, text)
    BY <2>1, <2>3, ReplaceAndSendKeeps
  <2>4. CASE \E t \in Turns, i \in 1..(2 * MaxTurns) : regenerate(t, i)
    BY <2>1, <2>4, RegenerateKeeps
  <2>5. CASE \E s \in Sessions : switchSession(s) \/ delSession(s)
    BY <2>5, SwitchKeeps, DelSessionGoesOn
  <2>6. CASE \E i \in 1..(2 * MaxTurns) : delMessage(i)
    BY <2>1, <2>6, DelMessageKeeps
  <2>7. CASE stop \/ loadState
    BY <2>7, StopKeeps, ReloadKeeps
  <2> QED BY <1>2, <2>2, <2>3, <2>4, <2>5, <2>6, <2>7 DEF User
<1>3. CASE \E t \in Turns : launchReply(t) \/ ServerAccepts(t)
  BY <1>3, LaunchKeeps, AcceptKeeps
<1>4. CASE \E t \in Turns : Stream(t)
  <2>1. PICK t \in Turns : Stream(t)
    BY <1>4
  <2>2. CASE \E status \in {"streaming", "succeeded"} : onEvent(t, status)
    BY <2>2, EventKeeps
  <2>3. CASE Done(t) \/ StreamEnds(t)
    BY <2>3, DoneKeeps
  <2>4. CASE ErrorEvent(t) \/ ErrorAborts(t) \/ NetFail(t)
    BY <2>4, ErrorEventKeeps, ErrorAbortsKeeps, NetFailKeeps
  <2> QED BY <2>1, <2>2, <2>3, <2>4 DEF Stream
<1>5. CASE \E t \in Turns, o \in {"done", "failed"} : ServerEnds(t, o)
  BY <1>5, EndKeeps
<1>6. CASE recoverPendingTurn \/ PollTurn
  BY <1>6, RecoverKeeps
<1>7. CASE \E a \in asks : applyStatus(a)
  BY <1>7, ApplyKeeps
<1>8. CASE \E s \in Sessions : FetchConversation(s) \/ Hydrate(s)
  BY <1>8, FetchKeeps, HydrateKeeps
<1>9. CASE Timeout
  BY <1>9, TimeoutKeeps
<1> QED BY <1>1, <1>2, <1>3, <1>4, <1>5, <1>6, <1>7, <1>8, <1>9 DEF Next

LEMMA Invariant == Spec => []IInv
<1>1. Init => IInv
  BY InitInvariant
<1>2. IInv /\ [Next]_vars => IInv'
  BY NextInvariant
<1> QED BY <1>1, <1>2, PTL DEF Spec

\* Every field of the page, of its requests and of what the server keeps has its type.
THEOREM ChatIsTyped == Spec => []TypeOK
<1>1. IInv => TypeOK
  BY DEF IInv
<1> QED BY <1>1, Invariant, PTL

\* dedupeConversationMessages keeps "one message per id"
THEOREM IdsStayUnique == Spec => []UniqueIds
<1>1. IInv => UniqueIds
  BY DEF IInv, Sound, UniqueIds, Unrepeated
<1> QED BY <1>1, Invariant, PTL

\* No aborted stream leaves its reply streaming.
THEOREM AbortedStreamsSettle == Spec => []AbortedNeverStreams
<1>1. IInv => AbortedNeverStreams
  <2> SUFFICES ASSUME IInv, NEW t \in Turns, turn[t].phase = "closed", turn[t].aborted,
                      NEW s \in Sessions, NEW m \in Messages(s), m.id = <<"r", t>>
               PROVE  ~isStreaming(m)
    BY DEF AbortedNeverStreams
  <2>1. tab.msgs[s] \in Seq(OwnOf(s, turn))
    BY DEF IInv, Sound
  <2>2. m \in OwnOf(s, turn)
    BY <2>1, ElementOf DEF Messages
  <2>3. m.id[1] = "r" /\ m.id[2] = t
    OBVIOUS
  <2> QED BY <2>2, <2>3 DEF OwnOf
<1> QED BY <1>1, Invariant, PTL

\* No snapshot the page pours in, however old, takes away what the user asked.
THEOREM HydrateKeepsQuestions == Spec => HydrateKeepsUserBubbles
<1>1. ASSUME IInv, NEW s \in Sessions, Hydrate(s)
      PROVE  \A m \in Messages(s) : m.role = "user" =>
                \E n \in Messages(s)' : n.role = "user" /\ n.text \in AskedAs(s, m)
  BY <1>1, HydrateKeeps
<1>2. IInv /\ [Next]_vars =>
        [\A s \in Sessions : Hydrate(s) =>
           \A m \in Messages(s) : m.role = "user" =>
              \E n \in Messages(s)' : n.role = "user" /\ n.text \in AskedAs(s, m)]_vars
  BY <1>1
<1> QED BY <1>2, Invariant, PTL DEF Spec, HydrateKeepsUserBubbles
=============================================================================
