------------------------------ MODULE PlanProofs ------------------------------
(* Theorems about the plan executor, for every plan and every way to run it. *)
EXTENDS PlanExecutor, SumLemmas, SequenceTheorems

----------------------------------------------------------------------------
(* The order of the steps. *)

\* A function of the numbers up to n that is defined step by step exists.
Iterates(f, V, base, next, n) ==
  f \in [0..n -> V] /\ f[0] = base /\ \A i \in 1..n : f[i] = next[<<i, f[i - 1]>>]

LEMMA IterationExists ==
  ASSUME NEW V, NEW base \in V, NEW next \in [Nat \X V -> V], NEW n \in Nat
  PROVE  \E f : Iterates(f, V, base, next, n)
<1>. DEFINE Follows(m, f) == f[0] = base /\ \A i \in 1..m : f[i] = next[<<i, f[i - 1]>>]
            P == {m \in Nat : \E f \in [0..m -> V] : Follows(m, f)}
<1>1. 0 \in P
  <2>. DEFINE f == [i \in 0..0 |-> base]
  <2>1. f \in [0..0 -> V] /\ Follows(0, f)
    OBVIOUS
  <2>. QED
    BY <2>1
<1>2. ASSUME NEW m \in P PROVE m + 1 \in P
  <2>1. PICK f \in [0..m -> V] : Follows(m, f)
    OBVIOUS
  <2>. DEFINE g == [i \in 0..(m + 1) |-> IF i = m + 1 THEN next[<<i, f[m]>>] ELSE f[i]]
  <2>2. g \in [0..(m + 1) -> V]
    <3>1. f[m] \in V /\ m + 1 \in Nat /\ next[<<m + 1, f[m]>>] \in V
      BY <2>1
    <3>2. \A i \in 0..(m + 1) : i # m + 1 => i \in 0..m
      OBVIOUS
    <3>. QED
      BY <2>1, <3>1, <3>2
  <2>3. Follows(m + 1, g)
    <3>1. g[0] = base
      BY <2>1
    <3>2. ASSUME NEW i \in 1..(m + 1) PROVE g[i] = next[<<i, g[i - 1]>>]
      <4>1. g[i - 1] = f[i - 1] /\ i - 1 \in 0..m
        OBVIOUS
      <4>2. CASE i = m + 1
        BY <4>1, <4>2
      <4>3. CASE i # m + 1
        BY <2>1, <4>1, <4>3
      <4>. QED
        BY <4>2, <4>3
    <3>. QED
      BY <3>1, <3>2
  <2>. HIDE DEF g
  <2>. QED
    BY <2>2, <2>3
<1>. HIDE DEF P
<1>3. P = Nat
  <2>1. P \in SUBSET Nat
    BY DEF P
  <2>. QED
    BY <1>1, <1>2, <2>1, NumbersByInduction
<1>. QED
  BY <1>3 DEF P, Iterates

\* The list without what is not in S: no step twice, and no other step.
SelectedUpTo(S) ==
  CHOOSE upTo : upTo = [n \in 0..Len(Listed) |->
    IF n = 0 THEN <<>> ELSE IF Listed[n] \in S THEN Append(upTo[n - 1], Listed[n]) ELSE upTo[n - 1]]

LEMMA SelectionUnfolds ==
  ASSUME NEW S
  PROVE  /\ InListOrder(S) = SelectedUpTo(S)[Len(Listed)]
         /\ SelectedUpTo(S) \in [0..Len(Listed) -> Seq(Steps)]
         /\ SelectedUpTo(S)[0] = <<>>
         /\ \A n \in 1..Len(Listed) :
              SelectedUpTo(S)[n] = IF Listed[n] \in S THEN Append(SelectedUpTo(S)[n - 1], Listed[n])
                                   ELSE SelectedUpTo(S)[n - 1]
<1>. DEFINE N == Len(Listed)
            Body(f) == [n \in 0..N |->
              IF n = 0 THEN <<>> ELSE IF Listed[n] \in S THEN Append(f[n - 1], Listed[n]) ELSE f[n - 1]]
            next == [p \in Nat \X Seq(Steps) |->
              IF p[1] \in 1..N /\ Listed[p[1]] \in S THEN Append(p[2], Listed[p[1]]) ELSE p[2]]
<1>1. N \in Nat /\ \A n \in 1..N : Listed[n] \in Steps
  BY StepsAssumption, ElementOfSeq
<1>2. next \in [Nat \X Seq(Steps) -> Seq(Steps)]
  BY <1>1, AppendProperties
<1>3. PICK f \in [0..N -> Seq(Steps)] : f[0] = <<>> /\ \A i \in 1..N : f[i] = next[<<i, f[i - 1]>>]
  <2>1. <<>> \in Seq(Steps)
    OBVIOUS
  <2>. DEFINE base == <<>>
              V == Seq(Steps)
  <2>3. base \in V /\ next \in [Nat \X V -> V] /\ N \in Nat
    BY <1>1, <1>2, <2>1
  <2>. HIDE DEF next, N, base, V
  <2>4. \E f : Iterates(f, V, base, next, N)
    BY <2>3, IterationExists
  <2>2. \E f \in [0..N -> Seq(Steps)] : f[0] = <<>> /\ \A i \in 1..N : f[i] = next[<<i, f[i - 1]>>]
    BY <2>4 DEF base, V, Iterates
  <2>. QED
    BY <2>2
<1>4. ASSUME NEW i \in 1..N
      PROVE  f[i] = IF Listed[i] \in S THEN Append(f[i - 1], Listed[i]) ELSE f[i - 1]
  <2>1. i - 1 \in 0..N /\ i \in Nat /\ f[i - 1] \in Seq(Steps)
    BY <1>1, <1>3
  <2>2. <<i, f[i - 1]>> \in Nat \X Seq(Steps)
    BY <2>1
  <2>3. next[<<i, f[i - 1]>>] = IF Listed[i] \in S THEN Append(f[i - 1], Listed[i]) ELSE f[i - 1]
    BY <2>2
  <2>. QED
    BY <1>3, <2>3
<1>. HIDE DEF N
<1>5. f = Body(f)
  <2>1. f = [n \in 0..N |-> f[n]]
    BY <1>3
  <2>2. \A n \in 0..N : n # 0 => n \in 1..N
    BY <1>1
  <2>3. \A n \in 0..N : f[n] = Body(f)[n]
    BY <1>3, <1>4, <2>2
  <2>. QED
    BY <2>1, <2>3
<1>6. SelectedUpTo(S) = Body(SelectedUpTo(S))
  BY <1>5 DEF SelectedUpTo, N
<1>7. InListOrder(S) = SelectedUpTo(S)[N]
  BY DEF InListOrder, SelectedUpTo, N
\* The functions agree, by induction.
<1>8. \A n \in 0..N : SelectedUpTo(S)[n] = f[n]
  <2>. DEFINE P == {n \in Nat : n <= N => SelectedUpTo(S)[n] = f[n]}
              g == SelectedUpTo(S)
  <2>0. \A n \in 0..N : g[n] = Body(g)[n]
    BY <1>6
  <2>. HIDE DEF g
  <2>1. 0 \in P
    BY <1>1, <1>3, <2>0 DEF g
  <2>2. ASSUME NEW n \in P PROVE n + 1 \in P
    <3>1. CASE n + 1 <= N
      <4>1. n + 1 \in 1..N /\ n + 1 # 0 /\ n + 1 - 1 = n /\ n \in 0..N
        BY <1>1, <3>1
      <4>2. g[n] = f[n]
        BY <3>1, <1>1 DEF g
      <4>3. g[n + 1] = IF Listed[n + 1] \in S THEN Append(g[n], Listed[n + 1]) ELSE g[n]
        BY <2>0, <4>1, <1>1
      <4>4. f[n + 1] = IF Listed[n + 1] \in S THEN Append(f[n], Listed[n + 1]) ELSE f[n]
        BY <1>4, <4>1
      <4>. QED
        BY <4>1, <4>2, <4>3, <4>4 DEF g
    <3>. QED
      BY <3>1, <1>1
  <2>3. P = Nat
    <3>. HIDE DEF P
    <3>1. P \in SUBSET Nat
      BY DEF P
    <3>. QED
      BY <2>1, <2>2, <3>1, NumbersByInduction
  <2>4. \A n \in 0..N : n \in P
    <3>. HIDE DEF P
    <3>. QED
      BY <2>3
  <2>5. \A n \in 0..N : n <= N
    BY <1>1
  <2>. QED
    BY <2>4, <2>5
<1>9. SelectedUpTo(S) = f
  <2>1. DOMAIN SelectedUpTo(S) = 0..N
    BY <1>6
  <2>2. SelectedUpTo(S) = [n \in 0..N |-> SelectedUpTo(S)[n]]
    BY <1>6
  <2>3. f = [n \in 0..N |-> f[n]]
    BY <1>3
  <2>. QED
    BY <1>8, <2>2, <2>3
<1>. QED
  BY <1>3, <1>4, <1>7, <1>9 DEF N

Distinct(seq) == \A i, j \in 1..Len(seq) : seq[i] = seq[j] => i = j

LEMMA SelectionIsDistinct ==
  ASSUME NEW S
  PROVE  /\ InListOrder(S) \in Seq(Steps) /\ Distinct(InListOrder(S))
         /\ \A i \in 1..Len(InListOrder(S)) : InListOrder(S)[i] \in S
<1>. DEFINE N == Len(Listed)
            g == SelectedUpTo(S)
            Good(n) == /\ Distinct(g[n])
                       /\ \A i \in 1..Len(g[n]) :
                            g[n][i] \in S /\ \E j \in 1..n : g[n][i] = Listed[j]
            P == {n \in Nat : n <= N => Good(n)}
<1>1. /\ N \in Nat /\ \A n \in 1..N : Listed[n] \in Steps
      /\ \A i, j \in 1..N : Listed[i] = Listed[j] => i = j
  BY StepsAssumption, ElementOfSeq DEF IsInjective
<1>2. /\ InListOrder(S) = g[N] /\ g \in [0..N -> Seq(Steps)] /\ g[0] = <<>>
      /\ \A n \in 1..N : g[n] = IF Listed[n] \in S THEN Append(g[n - 1], Listed[n]) ELSE g[n - 1]
  BY SelectionUnfolds
<1>. HIDE DEF N, g
<1>3. 0 \in P
  BY <1>2 DEF Distinct
<1>4. ASSUME NEW n \in P, n + 1 <= N PROVE Good(n + 1)
  <2>1. n \in Nat /\ Good(n) /\ n \in 0..N /\ n + 1 \in 1..N /\ n + 1 - 1 = n
    BY <1>1, <1>4
  <2>2. g[n] \in Seq(Steps) /\ Len(g[n]) \in Nat
    BY <1>2, <2>1
  <2>3. CASE Listed[n + 1] \notin S
    <3>1. g[n + 1] = g[n]
      BY <1>2, <2>1, <2>3
    <3>2. \A j \in 1..n : j \in 1..(n + 1)
      BY <2>1
    <3>. QED
      BY <2>1, <3>1, <3>2
  <2>4. CASE Listed[n + 1] \in S
    <3>1. g[n + 1] = Append(g[n], Listed[n + 1])
      <4>. DEFINE m == n + 1
      <4>1. m \in 1..N /\ m - 1 = n /\ Listed[m] \in S
        BY <2>1, <2>4
      <4>. HIDE DEF m
      <4>2. g[m] = Append(g[n], Listed[m])
        BY <1>2, <4>1
      <4>. QED
        BY <4>2 DEF m
    <3>2. /\ Len(g[n + 1]) = Len(g[n]) + 1 /\ g[n + 1][Len(g[n]) + 1] = Listed[n + 1]
          /\ \A i \in 1..Len(g[n]) : g[n + 1][i] = g[n][i]
      BY <1>1, <2>1, <2>2, <3>1, AppendProperties
    <3>3. \A i \in 1..Len(g[n]) : g[n][i] # Listed[n + 1]
      <4>1. SUFFICES ASSUME NEW i \in 1..Len(g[n]) PROVE g[n][i] # Listed[n + 1]
        OBVIOUS
      <4>2. PICK j \in 1..n : g[n][i] = Listed[j]
        BY <2>1
      <4>3. j \in 1..N /\ j # n + 1
        BY <1>1, <2>1
      <4>4. Listed[j] # Listed[n + 1]
        BY <1>1, <2>1, <4>3
      <4>. QED
        BY <4>2, <4>4
    <3>4. \A i \in 1..Len(g[n + 1]) : i \in 1..Len(g[n]) \/ i = Len(g[n]) + 1
      BY <2>2, <3>2
    <3>5. Distinct(g[n + 1])
      BY <2>1, <3>2, <3>3, <3>4 DEF Distinct
    <3>6. ASSUME NEW i \in 1..Len(g[n + 1])
          PROVE  g[n + 1][i] \in S /\ \E j \in 1..(n + 1) : g[n + 1][i] = Listed[j]
      <4>1. CASE i = Len(g[n]) + 1
        <5>1. g[n + 1][i] = Listed[n + 1] /\ n + 1 \in 1..(n + 1)
          BY <2>1, <3>2, <4>1
        <5>. QED
          BY <2>4, <5>1
      <4>2. CASE i \in 1..Len(g[n])
        <5>1. PICK j \in 1..n : g[n][i] = Listed[j]
          BY <2>1, <4>2
        <5>2. j \in 1..(n + 1)
          BY <2>1
        <5>. QED
          BY <2>1, <3>2, <4>2, <5>1, <5>2
      <4>. QED
        BY <3>4, <4>1, <4>2
    <3>. QED
      BY <3>5, <3>6
  <2>. QED
    BY <2>3, <2>4
<1>5. P = Nat
  <2>1. \A n \in P : n + 1 \in P
    BY <1>4
  <2>2. P \in SUBSET Nat
    OBVIOUS
  <2>. HIDE DEF P
  <2>. QED
    BY <1>3, <2>1, <2>2, NumbersByInduction
<1>6. N \in P
  <2>. HIDE DEF P
  <2>. QED
    BY <1>1, <1>5
<1>7. Good(N)
  <2>. HIDE DEF Good
  <2>. QED
    BY <1>1, <1>6
<1>8. g[N] \in Seq(Steps)
  BY <1>1, <1>2
<1>. QED
  BY <1>2, <1>7, <1>8

\* One step of the queue, and what holds of the queue and of the order so far: no
\* step is in them twice, and the dependencies of each were visited.
Visits == [queue : Seq(Steps), order : Seq(Steps)]
Released(plan, curr, order) == {s \in plan : curr \in Deps[s] /\ Deps[s] \subseteq ToSet(order)}
Advance(plan, v) ==
  IF v.queue = <<>> THEN v
  ELSE [order |-> Append(v.order, Head(v.queue)),
        queue |-> Tail(v.queue) \o
                  InListOrder(Released(plan, Head(v.queue), Append(v.order, Head(v.queue))))]
WellVisited(v) ==
  /\ Distinct(v.order) /\ Distinct(v.queue)
  /\ \A i \in 1..Len(v.order), j \in 1..Len(v.queue) : v.order[i] # v.queue[j]
  /\ \A i \in 1..Len(v.order) : Deps[v.order[i]] \subseteq ToSet(v.order)
  /\ \A j \in 1..Len(v.queue) : Deps[v.queue[j]] \subseteq ToSet(v.order)

LEMMA AdvanceKeeps ==
  ASSUME NEW plan, NEW v \in Visits, WellVisited(v)
  PROVE  Advance(plan, v) \in Visits /\ WellVisited(Advance(plan, v))
<1>1. CASE v.queue = <<>>
  BY <1>1 DEF Advance
<1>2. CASE v.queue # <<>>
  <2>. DEFINE q == v.queue
              o == v.order
              curr == Head(q)
              order == Append(o, curr)
              new == InListOrder(Released(plan, curr, order))
              queue == Tail(q) \o new
  <2>1. /\ q \in Seq(Steps) /\ o \in Seq(Steps) /\ q # <<>>
        /\ Distinct(q) /\ Distinct(o)
        /\ \A i \in 1..Len(o), j \in 1..Len(q) : o[i] # q[j]
        /\ \A i \in 1..Len(o) : Deps[o[i]] \subseteq ToSet(o)
        /\ \A j \in 1..Len(q) : Deps[q[j]] \subseteq ToSet(o)
    BY <1>2 DEF WellVisited, Visits
  <2>2. Advance(plan, v) = [order |-> order, queue |-> queue]
    BY <1>2 DEF Advance
  <2>. HIDE DEF q, o
  <2>3. /\ Len(q) \in Nat \ {0} /\ curr = q[1] /\ curr \in Steps /\ Len(o) \in Nat
        /\ Tail(q) \in Seq(Steps) /\ Len(Tail(q)) = Len(q) - 1
        /\ \A j \in 1..Len(Tail(q)) : Tail(q)[j] = q[j + 1]
    BY <2>1, HeadTailProperties, ElementOfSeq
  <2>4. /\ new \in Seq(Steps) /\ Distinct(new) /\ Len(new) \in Nat
        /\ \A i \in 1..Len(new) : new[i] \in Released(plan, curr, order)
    BY SelectionIsDistinct
  <2>. HIDE DEF curr, new
  <2>5. /\ order \in Seq(Steps) /\ Len(order) = Len(o) + 1 /\ order[Len(o) + 1] = curr
        /\ \A i \in 1..Len(o) : order[i] = o[i]
    BY <2>1, <2>3, AppendProperties
  <2>. HIDE DEF order
  <2>6. /\ queue \in Seq(Steps) /\ Len(queue) = Len(Tail(q)) + Len(new)
        /\ \A j \in 1..Len(queue) : queue[j] = IF j <= Len(Tail(q)) THEN Tail(q)[j]
                                                ELSE new[j - Len(Tail(q))]
    BY <2>3, <2>4, ConcatProperties
  <2>. HIDE DEF queue
  <2>7. \A i \in 1..Len(order) : i \in 1..Len(o) \/ i = Len(o) + 1
    BY <2>3, <2>5
  \* What is in the queue was in its tail, or is new.
  <2>8. \A j \in 1..Len(queue) :
          \/ j + 1 \in 1..Len(q) /\ j + 1 # 1 /\ queue[j] = q[j + 1]
          \/ j - Len(Tail(q)) \in 1..Len(new) /\ j > Len(Tail(q)) /\ queue[j] = new[j - Len(Tail(q))]
    BY <2>3, <2>4, <2>6
  <2>9. ToSet(order) = ToSet(o) \cup {curr} /\ \A i \in 1..Len(o) : o[i] \in ToSet(o)
    <3>1. DOMAIN order = 1..Len(order) /\ DOMAIN o = 1..Len(o)
      BY <2>1, <2>5
    <3>2. \A x \in ToSet(order) : x \in ToSet(o) \cup {curr}
      BY <2>5, <2>7, <3>1 DEF ToSet
    <3>3. \A x \in ToSet(o) \cup {curr} : x \in ToSet(order)
      <4>1. \A i \in 1..Len(o) : i \in 1..Len(order) /\ order[i] = o[i]
        BY <2>3, <2>5
      <4>2. Len(o) + 1 \in 1..Len(order)
        BY <2>3, <2>5
      <4>. QED
        BY <2>5, <3>1, <4>1, <4>2 DEF ToSet
    <3>. QED
      BY <3>1, <3>2, <3>3 DEF ToSet
  <2>10. curr \notin ToSet(o)
    <3>1. \A i \in 1..Len(o) : o[i] # q[1]
      BY <2>1, <2>3
    <3>. QED
      BY <2>1, <2>3, <3>1 DEF ToSet
  \* A step that is released now depends on curr, and nothing visited or queued did.
  <2>11. \A i \in 1..Len(new) : /\ curr \in Deps[new[i]] /\ Deps[new[i]] \subseteq ToSet(order)
                                /\ \A k \in 1..Len(o) : new[i] # o[k]
                                /\ \A k \in 1..Len(q) : new[i] # q[k]
    <3>1. SUFFICES ASSUME NEW i \in 1..Len(new)
                   PROVE  /\ curr \in Deps[new[i]] /\ Deps[new[i]] \subseteq ToSet(order)
                          /\ \A k \in 1..Len(o) : new[i] # o[k]
                          /\ \A k \in 1..Len(q) : new[i] # q[k]
      OBVIOUS
    <3>2. curr \in Deps[new[i]] /\ Deps[new[i]] \subseteq ToSet(order)
      BY <2>4 DEF Released
    <3>3. \A k \in 1..Len(o) : curr \notin Deps[o[k]]
      BY <2>1, <2>10
    <3>4. \A k \in 1..Len(q) : curr \notin Deps[q[k]]
      BY <2>1, <2>10
    <3>. QED
      BY <3>2, <3>3, <3>4
  <2>12. Distinct(order)
    <3>1. \A i \in 1..Len(o) : o[i] # curr
      BY <2>9, <2>10
    <3>. QED
      BY <2>1, <2>3, <2>5, <2>7, <3>1 DEF Distinct
  <2>13. Distinct(queue)
    <3>1. SUFFICES ASSUME NEW i \in 1..Len(queue), NEW j \in 1..Len(queue), queue[i] = queue[j]
                   PROVE  i = j
      BY DEF Distinct
    <3>2. Len(Tail(q)) \in Nat /\ i \in Nat /\ j \in Nat
      BY <2>3
    <3>3. CASE i + 1 \in 1..Len(q) /\ queue[i] = q[i + 1] /\ j + 1 \in 1..Len(q) /\ queue[j] = q[j + 1]
      <4>1. i + 1 = j + 1
        BY <2>1, <3>1, <3>3 DEF Distinct
      <4>. QED
        BY <3>2, <4>1
    <3>. DEFINE m == j - Len(Tail(q))
                n == i - Len(Tail(q))
    <3>4. CASE n \in 1..Len(new) /\ queue[i] = new[n] /\ m \in 1..Len(new) /\ queue[j] = new[m]
      <4>1. n = m
        <5>. HIDE DEF n, m
        <5>. QED
          BY <2>4, <3>1, <3>4 DEF Distinct
      <4>. QED
        BY <3>2, <4>1
    <3>5. CASE i + 1 \in 1..Len(q) /\ queue[i] = q[i + 1] /\ m \in 1..Len(new) /\ queue[j] = new[m]
      <4>. HIDE DEF m
      <4>. QED
        BY <2>11, <3>1, <3>5
    <3>6. CASE n \in 1..Len(new) /\ queue[i] = new[n] /\ j + 1 \in 1..Len(q) /\ queue[j] = q[j + 1]
      <4>. HIDE DEF n
      <4>. QED
        BY <2>11, <3>1, <3>6
    <3>. QED
      BY <2>8, <3>3, <3>4, <3>5, <3>6
  <2>14. \A i \in 1..Len(order), j \in 1..Len(queue) : order[i] # queue[j]
    <3>1. SUFFICES ASSUME NEW i \in 1..Len(order), NEW j \in 1..Len(queue) PROVE order[i] # queue[j]
      OBVIOUS
    <3>2. CASE j + 1 \in 1..Len(q) /\ j + 1 # 1 /\ queue[j] = q[j + 1]
      <4>1. q[j + 1] # curr
        BY <2>1, <2>3, <3>2 DEF Distinct
      <4>. QED
        BY <2>1, <2>5, <2>7, <3>2, <4>1
    <3>. DEFINE m == j - Len(Tail(q))
    <3>3. CASE m \in 1..Len(new) /\ queue[j] = new[m]
      <4>. HIDE DEF m
      <4>1. new[m] # curr
        BY <2>3, <2>11, <3>3
      <4>. QED
        BY <2>5, <2>7, <2>11, <3>3, <4>1
    <3>. QED
      BY <2>8, <3>2, <3>3
  <2>15. \A i \in 1..Len(order) : Deps[order[i]] \subseteq ToSet(order)
    <3>1. 1 \in 1..Len(q) /\ Deps[curr] \subseteq ToSet(o)
      BY <2>1, <2>3
    <3>. QED
      BY <2>1, <2>5, <2>7, <2>9, <3>1
  <2>16. \A j \in 1..Len(queue) : Deps[queue[j]] \subseteq ToSet(order)
    BY <2>1, <2>8, <2>9, <2>11
  <2>. QED
    BY <2>2, <2>5, <2>6, <2>12, <2>13, <2>14, <2>15, <2>16 DEF WellVisited, Visits
<1>. QED
  BY <1>1, <1>2

VisitBody(plan, visit) ==
  [n \in 0..Cardinality(plan) |->
    IF n = 0
    THEN [queue |-> InListOrder({s \in plan : Deps[s] = {}}), order |-> <<>>]
    ELSE IF visit[n - 1].queue = <<>> THEN visit[n - 1]
    ELSE LET curr == Head(visit[n - 1].queue)
             order == Append(visit[n - 1].order, curr)
         IN [order |-> order,
             queue |-> Tail(visit[n - 1].queue) \o
                       InListOrder({s \in plan : /\ curr \in Deps[s]
                                                 /\ Deps[s] \subseteq ToSet(order)})]]
Visiting(plan) == CHOOSE visit : visit = VisitBody(plan, visit)

\* The steps are visited in an order without repetition.
LEMMA OrderIsDistinct ==
  ASSUME NEW plan \in SUBSET Steps
  PROVE  TopoOrder(plan) \in Seq(Steps) /\ Distinct(TopoOrder(plan))
<1>. DEFINE N == Cardinality(plan)
            base == [queue |-> InListOrder({s \in plan : Deps[s] = {}}), order |-> <<>>]
            Good == {v \in Visits : WellVisited(v)}
            next == [p \in Nat \X Good |-> Advance(plan, p[2])]
            Body(f) == [n \in 0..N |-> IF n = 0 THEN base ELSE Advance(plan, f[n - 1])]
            V == Visiting(plan)
<1>1. N \in Nat
  <2>1. IsFiniteSet(Steps)
    <3>1. IsFiniteSet(1..Len(Listed)) /\ DOMAIN Listed = 1..Len(Listed)
      BY FS_Interval, StepsAssumption
    <3>2. Listed \in Surjection(1..Len(Listed), Steps)
      BY <3>1, StepsAssumption, ElementOfSeq DEF Steps, ToSet, Surjection
    <3>. QED
      BY <3>1, <3>2, FS_Surjection
  <2>. QED
    BY <2>1, FS_Subset, FS_CardinalityType
<1>2. base \in Good
  <2>. DEFINE first == InListOrder({s \in plan : Deps[s] = {}})
  <2>1. /\ first \in Seq(Steps) /\ Distinct(first)
        /\ \A i \in 1..Len(first) : first[i] \in {s \in plan : Deps[s] = {}}
    BY SelectionIsDistinct
  <2>. HIDE DEF first
  <2>2. base = [queue |-> first, order |-> <<>>]
    BY DEF first
  <2>. HIDE DEF base
  <2>. QED
    BY <2>1, <2>2 DEF Visits, WellVisited, Distinct
<1>3. next \in [Nat \X Good -> Good]
  BY AdvanceKeeps
<1>4. PICK f : Iterates(f, Good, base, next, N)
  <2>. HIDE DEF Good, base, next, N
  <2>. QED
    BY <1>1, <1>2, <1>3, IterationExists
<1>5. /\ f \in [0..N -> Good] /\ f[0] = base
      /\ \A n \in 1..N : n - 1 \in 0..N /\ f[n] = Advance(plan, f[n - 1])
  <2>1. f \in [0..N -> Good] /\ f[0] = base /\ \A n \in 1..N : f[n] = next[<<n, f[n - 1]>>]
    BY <1>4 DEF Iterates
  <2>. HIDE DEF N, base
  <2>2. ASSUME NEW n \in 1..N PROVE n - 1 \in 0..N /\ f[n] = Advance(plan, f[n - 1])
    <3>1. n - 1 \in 0..N /\ n \in Nat
      BY <1>1
    <3>. HIDE DEF Good
    <3>2. <<n, f[n - 1]>> \in Nat \X Good
      BY <2>1, <3>1
    <3>. QED
      BY <2>1, <3>1, <3>2
  <2>. QED
    BY <2>1, <2>2
<1>. HIDE DEF N, base, Good, next
<1>6. f = Body(f)
  <2>1. f = [n \in 0..N |-> f[n]]
    BY <1>5
  <2>2. \A n \in 0..N : n # 0 => n \in 1..N
    BY <1>1
  <2>3. \A n \in 0..N : f[n] = Body(f)[n]
    BY <1>5, <2>2
  <2>. QED
    BY <2>1, <2>3
<1>7. V = Body(V)
  <2>1. \A g : VisitBody(plan, g) = Body(g)
    BY DEF VisitBody, Advance, Released, N, base
  <2>2. f = VisitBody(plan, f)
    BY <1>6, <2>1
  <2>3. V = VisitBody(plan, V)
    BY <2>2 DEF Visiting
  <2>. QED
    BY <2>1, <2>3
<1>8. TopoOrder(plan) = V[N].order
  BY DEF TopoOrder, Visiting, VisitBody, N
<1>9. \A n \in 0..N : V[n] \in Good
  <2>. DEFINE P == {n \in Nat : n <= N => V[n] \in Good}
  <2>. HIDE DEF V
  <2>0. \A n \in 0..N : V[n] = Body(V)[n]
    BY <1>7
  <2>1. 0 \in P
    BY <1>1, <1>2, <2>0
  <2>2. ASSUME NEW n \in P, n + 1 <= N PROVE V[n + 1] \in Good
    <3>1. n + 1 \in 0..N /\ n + 1 # 0 /\ n + 1 - 1 = n /\ V[n] \in Good
      BY <1>1, <2>2
    <3>2. V[n + 1] = Advance(plan, V[n])
      <4>. DEFINE m == n + 1
      <4>1. m \in 0..N /\ m # 0 /\ m - 1 = n
        BY <3>1
      <4>. HIDE DEF m
      <4>2. V[m] = Advance(plan, V[n])
        BY <2>0, <4>1
      <4>. QED
        BY <4>2 DEF m
    <3>. QED
      BY <3>1, <3>2, AdvanceKeeps DEF Good
  <2>3. P = Nat
    <3>1. \A n \in P : n + 1 \in P
      BY <2>2
    <3>2. P \in SUBSET Nat
      OBVIOUS
    <3>. HIDE DEF P
    <3>. QED
      BY <2>1, <3>1, <3>2, NumbersByInduction
  <2>4. \A n \in 0..N : n \in P
    <3>. HIDE DEF P
    <3>. QED
      BY <2>3
  <2>5. \A n \in 0..N : n <= N
    BY <1>1
  <2>. QED
    BY <2>4, <2>5
<1>10. V[N] \in Good
  BY <1>1, <1>9
<1>. QED
  BY <1>8, <1>10 DEF Good, Visits, WellVisited

----------------------------------------------------------------------------
(* Types. *)

Statuses == {"none", "blocked", "failed", "completed", "reused", "pending_handoff", "pending_external"}
IsEntry(e) ==
  /\ DOMAIN e = {"status", "inputs", "sha", "attempt", "order", "code"}
  /\ e.status \in Statuses /\ e.sha \in Nat /\ e.attempt \in Nat /\ e.order \in Nat
AreEntries(es) == DOMAIN es = Steps /\ \A s \in Steps : IsEntry(es[s])
IsJournal(j) == DOMAIN j = {"run", "steps"} /\ j.run \in Nat /\ AreEntries(j.steps)

\* What a step writes names the contents it was made from.
Contents(s) == [from : [Covered(s) -> Nat], good : BOOLEAN, foreign : BOOLEAN]
FilesTyped ==
  /\ disk \in [Steps -> Nat]
  /\ DOMAIN origin = Steps /\ \A s \in Steps : origin[s] \in Seq(Contents(s))

Doing == {"gated", "intent", "execute", "await", "encode"}
Noting == {"journal", "states", "pause"}
Phases == {"off", "consider", "classify"} \cup Doing \cup Noting
Fields == {"phase", "at", "results", "prior", "run", "inputs", "attempt", "fresh", "collects",
           "reel", "touched", "overtaken"}
ExecTyped ==
  /\ DOMAIN exec = Fields
  /\ exec.phase \in Phases /\ exec.at \in Nat /\ AreEntries(exec.results) /\ IsJournal(exec.prior)
  /\ exec.run \in Nat /\ exec.attempt \in Nat /\ exec.collects \in BOOLEAN
  /\ exec.touched \in BOOLEAN

RecoveryTyped ==
  /\ DOMAIN recovery = {"status", "dispatches", "force", "steps"}
  /\ DOMAIN recovery.steps = Steps
  /\ \A s \in Steps : DOMAIN recovery.steps[s] = {"attempt", "status"}
                      /\ recovery.steps[s].attempt \in Nat
SentTyped == sent \in [Steps -> [1..MaxTries -> {"no", "open", "known"}]]
UsedTyped == DOMAIN usage = {"stops", "edits", "refusals", "runs", "late"} /\ usage.runs \in Nat
OrdersTyped ==
  /\ IsFiniteSet(DOMAIN orders)
  /\ DOMAIN orders \subseteq (Nat \ {0}) \X Producers \X Nat
  /\ DOMAIN work \subseteq DOMAIN orders /\ DOMAIN answers \subseteq DOMAIN orders

----------------------------------------------------------------------------
(* The invariant. *)

\* The newest content an artifact ever had; a report follows the content it is about.
Newest(t) == IF Kind[t] = "qc" THEN disk[t] ELSE Len(origin[t])
\* A content that is not on disk and will never be there again.
Past(t, content) == content \in 1..Newest(t) /\ content # disk[t]

DiskHolds ==
  \A s \in Steps :
    IF Kind[s] = "qc" THEN \A t \in Target[s] : disk[s] <= Len(origin[t])
    ELSE disk[s] \in {0, Len(origin[s])}

\* Inputs are the contents from which the output was made, as far as they can still be on disk.
Vouches(s, inputs, sha) ==
  /\ inputs \in [Covered(s) -> Nat]
  /\ IF Kind[s] = "qc"
     THEN \A t \in Target[s] : inputs[t] \in {0, sha} \/ Past(t, inputs[t])
     ELSE /\ sha \in 1..Len(origin[s]) /\ ~origin[s][sha].foreign
          /\ \A t \in Covered(s) : inputs[t] \in {0, origin[s][sha].from[t]} \/ Past(t, inputs[t])
EntriesVouch(es) == \A s \in Steps : IsDone(es[s]) => Vouches(s, es[s].inputs, es[s].sha)

\* Workorders name contents there have been; what agents make of them says so.
OrdersHold ==
  /\ \A k \in DOMAIN orders : /\ ~mode.recovering => k[3] >= 1
                              /\ orders[k] \in [Covered(k[2]) -> Nat]
                              /\ \A t \in Covered(k[2]) : orders[k][t] <= Newest(t)
  /\ \A k \in DOMAIN work : Vouches(k[2], work[k].inputs, work[k].sha)
  /\ \A k \in DOMAIN answers : answers[k].ok => Vouches(k[2], answers[k].inputs, answers[k].sha)

\* A failed attempt of an agent was answered.
FailuresAnswered(run, es) ==
  \A s \in Steps : es[s].status = "failed" /\ es[s].attempt >= 1
                   => <<run, s, es[s].attempt>> \in DOMAIN answers
\* All passes over one journal have one run.
JournalHolds ==
  /\ IsJournal(journal) /\ EntriesVouch(journal.steps)
  /\ mode.runGiven => journal.run \in {0, 1}
  /\ FailuresAnswered(journal.run, journal.steps)
RunHolds ==
  /\ mode.runGiven => exec.run \in {0, 1} /\ exec.prior.run \in {0, 1}
  /\ exec.phase # "off" => exec.run >= 1
  /\ exec.phase # "off" /\ exec.prior.run # 0 => exec.run = exec.prior.run
  /\ FailuresAnswered(exec.run, exec.results)
  /\ FailuresAnswered(exec.prior.run, exec.prior.steps)

\* What is done was visited before, and so was everything its inputs cover.
Visited(s) ==
  \E i \in 1..Len(StepOrder) : StepOrder[i] = s /\ (i < exec.at \/ (i = exec.at /\ exec.phase \in Noting))
PlaceHolds ==
  /\ IF exec.phase = "off" THEN exec = Idle ELSE exec.at >= 1
  /\ exec.phase \in Doing \cup Noting => exec.at <= Len(StepOrder)
  /\ \A s \in Steps : IsDone(exec.results[s]) =>
       Visited(s) /\ \A t \in Covered(s) : IsDone(exec.results[t])
  /\ \A s \in Steps : exec.results[s].sha # 0 => IsDone(exec.results[s])

\* The step at hand: what it waits for is done, and its inputs are those on disk, unless
\* somebody else wrote a file since.
DoingHolds ==
  exec.phase \in Doing =>
    /\ \A t \in Deps[Current] \cup Source[Current] : IsDone(exec.results[t])
    /\ exec.inputs \in [Covered(Current) -> Nat]
    /\ \A t \in Covered(Current) : exec.inputs[t] <= Newest(t)
    /\ ~exec.touched => exec.inputs = Digest(Current)
    /\ exec.phase = "intent" => mode.recovering
    /\ exec.phase = "await" => Kind[Current] = "tool"

\* After a gate: the reviewed shots that nobody else touched since are on disk as they were
\* approved, and so they went into the digest and were read.
GatedHolds ==
  exec.phase \in {"gated", "encode"} =>
    /\ Kind[Current] = "assembly"
    /\ \A t \in Consumes[Current] : exec.results[t].sha # 0
    /\ \A p \in (Consumes[Current] \cap Reviewed) \ exec.overtaken :
         /\ reviews[p].verdict = "approved" /\ reviews[p].sha = disk[p] /\ disk[p] # 0
         /\ exec.phase = "gated" => exec.inputs[p] = disk[p]
         /\ exec.phase = "encode" /\ p \in DOMAIN exec.reel => exec.reel[p] = disk[p]
\* What was read is what the digest of the inputs names, unless that is past.
ReelHolds ==
  exec.phase = "encode" =>
    /\ DOMAIN exec.reel \subseteq Consumes[Current] /\ exec.reel \in [DOMAIN exec.reel -> Nat]
    /\ \A t \in DOMAIN exec.reel :
         /\ exec.inputs[t] \in {0, exec.reel[t]} \/ Past(t, exec.inputs[t])
         /\ ~exec.touched => exec.reel[t] = disk[t]

\* What is done in this pass is what is on disk, made from what is on disk.
Stands(s) ==
  /\ disk[s] > 0
  /\ IF Kind[s] = "qc" THEN (\A t \in Target[s] : disk[s] = disk[t]) /\ Conforms(s)
     ELSE ~origin[s][disk[s]].foreign /\ origin[s][disk[s]].from = Digest(s)
DoneStands ==
  ~exec.touched => \A s \in Steps : IsDone(exec.results[s]) => Stands(s)

\* An attempt is not submitted before its intent, and once after it.
SentHolds ==
  /\ \A s \in Producers : \A n \in 1..MaxTries :
       n > recovery.steps[s].attempt => sent[s][n] = "no"
  /\ exec.phase = "execute" /\ mode.recovering /\ ~exec.collects /\ Kind[Current] = "tool" =>
       /\ exec.attempt \in 1..MaxTries /\ exec.attempt = recovery.steps[Current].attempt
       /\ sent[Current][exec.attempt] = "no"

ExecHolds ==
  /\ ExecTyped /\ EntriesVouch(exec.results) /\ EntriesVouch(exec.prior.steps)
  /\ RunHolds /\ PlaceHolds /\ DoingHolds /\ DoneStands
PlanInv ==
  /\ mode \in Modes /\ FilesTyped /\ DiskHolds
  /\ JournalHolds /\ ExecHolds /\ GatedHolds /\ ReelHolds
  /\ OrdersTyped /\ OrdersHold /\ OneOpenOrder
  /\ RecoveryTyped /\ SentTyped /\ SentHolds
  /\ UsedTyped /\ DOMAIN reviews = Steps

----------------------------------------------------------------------------
(* Plans and files. *)

\* The inputs of a step are of the plan; a report is about one artifact, of a step it waits for.
LEMMA PlanShape ==
  ASSUME NEW s \in Steps
  PROVE  /\ Kind[s] \in {"tool", "qc", "assembly"}
         /\ {Deps[s], Target[s], Consumes[s], Source[s], Covered(s)} \subseteq SUBSET Steps
         /\ Kind[s] = "qc" => \E t \in Deps[s] : Target[s] = {t} /\ Covered(s) = {t} /\ Kind[t] # "qc"
         /\ Kind[s] # "qc" => Target[s] = {}
<1>1. /\ Kind[s] \in {"tool", "qc", "assembly"}
      /\ {Deps[s], Target[s], Consumes[s], Source[s]} \subseteq SUBSET Steps
      /\ \A d \in Deps[s] : Target[d] \subseteq Steps
  <2>1. /\ Kind \in [Steps -> {"tool", "qc", "assembly"}]
        /\ Deps \in [Steps -> SUBSET Steps] /\ Target \in [Steps -> SUBSET Steps]
        /\ Consumes \in [Steps -> SUBSET Steps] /\ Source \in [Steps -> SUBSET Steps]
    BY StepsAssumption
  <2>. QED
    BY <2>1
<1>2. Covered(s) \subseteq Steps
  <2>. DEFINE inspected == UNION {Target[d] : d \in Deps[s]}
  <2>1. inspected \subseteq Steps
    BY <1>1
  <2>2. \/ Covered(s) = Target[s] \/ Covered(s) = Consumes[s]
        \/ Covered(s) = Deps[s] \cup inspected \cup Source[s]
    BY <1>1 DEF Covered
  <2>3. Deps[s] \subseteq Steps /\ Source[s] \subseteq Steps
    BY <1>1
  <2>4. Target[s] \subseteq Steps /\ Consumes[s] \subseteq Steps
    BY <1>1
  <2>. HIDE DEF inspected
  <2>. QED
    BY <2>1, <2>2, <2>3, <2>4, Zenon
<1>3. /\ Kind[s] = "qc" => \E t \in Deps[s] : Target[s] = {t} /\ Kind[t] # "qc"
      /\ Kind[s] # "qc" => Target[s] = {}
  BY StepsAssumption
<1>4. Kind[s] = "qc" => Covered(s) = Target[s]
  BY DEF Covered
<1>. QED
  BY <1>1, <1>2, <1>3, <1>4

LEMMA DigestIs ==
  ASSUME FilesTyped, NEW s \in Steps
  PROVE  Digest(s) \in [Covered(s) -> Nat] /\ \A t \in Covered(s) : Digest(s)[t] = disk[t]
BY PlanShape DEF FilesTyped, Digest

LEMMA OrderIs ==
  ASSUME mode \in Modes
  PROVE  /\ StepOrder \in Seq(Steps) /\ Distinct(StepOrder) /\ Len(StepOrder) \in Nat
         /\ \A i \in 1..Len(StepOrder) : StepOrder[i] \in Steps
<1>1. mode.steps \in SUBSET Steps
  BY StepsAssumption DEF ModeType
<1>2. StepOrder = TopoOrder(mode.steps)
  BY DEF StepOrder, Orders
<1>. QED
  BY <1>1, <1>2, OrderIsDistinct, ElementOfSeq

\* What a step may do to the files: write a content of an artifact, remove it, or report on it.
FilesMove ==
  \/ UNCHANGED files
  \/ \E s \in Steps : \E c \in Contents(s) : Kind[s] # "qc" /\ Write(s, c)
  \/ \E s \in Steps : Kind[s] # "qc" /\ disk' = [disk EXCEPT ![s] = 0] /\ origin' = origin
  \/ \E s \in Steps : \E t \in Target[s] :
       /\ Kind[s] = "qc" /\ disk[t] # 0 /\ disk' = [disk EXCEPT ![s] = disk[t]]
       /\ origin' = origin

LEMMA FilesKeep ==
  ASSUME FilesTyped, DiskHolds, FilesMove
  PROVE  /\ FilesTyped' /\ DiskHolds'
         /\ \A t \in Steps : /\ Newest(t) \in Nat /\ Newest(t)' \in Nat /\ Newest(t) <= Newest(t)'
                             /\ disk[t] <= Newest(t)
                             /\ \A v \in Nat : Past(t, v) => Past(t, v)'
         /\ \A s \in Steps : /\ Len(origin[s]) <= Len(origin[s])'
                             /\ \A n \in 1..Len(origin[s]) : origin'[s][n] = origin[s][n]
<1>1. /\ disk \in [Steps -> Nat] /\ DOMAIN origin = Steps
      /\ \A s \in Steps : origin[s] \in Seq(Contents(s)) /\ Len(origin[s]) \in Nat
  BY DEF FilesTyped
<1>2. CASE UNCHANGED files
  <2>1. disk' = disk /\ origin' = origin
    BY <1>2 DEF files
  <2>. QED
    BY <1>1, <2>1, PlanShape DEF FilesTyped, DiskHolds, Newest, Past
<1>3. ASSUME NEW s \in Steps, NEW c \in Contents(s), Kind[s] # "qc", Write(s, c)
      PROVE  /\ FilesTyped' /\ DiskHolds'
             /\ \A t \in Steps : /\ Newest(t) \in Nat /\ Newest(t)' \in Nat /\ Newest(t) <= Newest(t)'
                                 /\ disk[t] <= Newest(t)
                                 /\ \A v \in Nat : Past(t, v) => Past(t, v)'
             /\ \A t \in Steps : /\ Len(origin[t]) <= Len(origin[t])'
                                 /\ \A n \in 1..Len(origin[t]) : origin'[t][n] = origin[t][n]
  <2>1. /\ origin'[s] = Append(origin[s], c) /\ disk'[s] = Len(origin[s]) + 1
        /\ DOMAIN origin' = Steps /\ DOMAIN disk' = Steps
        /\ \A t \in Steps : t # s => origin'[t] = origin[t] /\ disk'[t] = disk[t]
    BY <1>1, <1>3 DEF Write
  <2>2. /\ origin'[s] \in Seq(Contents(s)) /\ Len(origin'[s]) = Len(origin[s]) + 1
        /\ \A n \in 1..Len(origin[s]) : origin'[s][n] = origin[s][n]
    BY <1>1, <2>1, AppendProperties
  <2>3. FilesTyped'
    <3>1. ASSUME NEW t \in Steps PROVE origin'[t] \in Seq(Contents(t)) /\ disk'[t] \in Nat
      <4>1. CASE t = s
        BY <1>1, <2>1, <2>2, <4>1
      <4>2. CASE t # s
        BY <1>1, <2>1, <4>2
      <4>. QED
        BY <4>1, <4>2
    <3>2. disk' = [t \in Steps |-> disk'[t]]
      BY <1>3, <1>1 DEF Write
    <3>. QED
      BY <2>1, <3>1, <3>2 DEF FilesTyped, Contents, Covered
  <2>4. \A t \in Steps : Len(origin[t]) <= Len(origin'[t]) /\ Len(origin'[t]) \in Nat
    BY <1>1, <2>1, <2>2
  <2>5. DiskHolds'
    BY <1>1, <1>3, <2>1, <2>2, <2>4, PlanShape DEF DiskHolds
  <2>6. \A t \in Steps : /\ Newest(t) \in Nat /\ Newest(t)' \in Nat /\ Newest(t) <= Newest(t)'
                         /\ disk[t] <= Newest(t)
                         /\ \A v \in Nat : Past(t, v) => Past(t, v)'
    BY <1>1, <1>3, <2>1, <2>2, <2>4 DEF DiskHolds, Newest, Past
  <2>. QED
    BY <2>1, <2>2, <2>3, <2>4, <2>5, <2>6
<1>4. ASSUME NEW s \in Steps, Kind[s] # "qc", disk' = [disk EXCEPT ![s] = 0], origin' = origin
      PROVE  /\ FilesTyped' /\ DiskHolds'
             /\ \A t \in Steps : /\ Newest(t) \in Nat /\ Newest(t)' \in Nat /\ Newest(t) <= Newest(t)'
                                 /\ disk[t] <= Newest(t)
                                 /\ \A v \in Nat : Past(t, v) => Past(t, v)'
  <2>1. disk' \in [Steps -> Nat] /\ disk'[s] = 0 /\ \A t \in Steps : t # s => disk'[t] = disk[t]
    BY <1>1, <1>4
  <2>. QED
    BY <1>1, <1>4, <2>1, PlanShape DEF FilesTyped, DiskHolds, Newest, Past
<1>5. ASSUME NEW q \in Steps, NEW t \in Target[q], Kind[q] = "qc", disk[t] # 0,
             disk' = [disk EXCEPT ![q] = disk[t]], origin' = origin
      PROVE  /\ FilesTyped' /\ DiskHolds'
             /\ \A u \in Steps : /\ Newest(u) \in Nat /\ Newest(u)' \in Nat /\ Newest(u) <= Newest(u)'
                                 /\ disk[u] <= Newest(u)
                                 /\ \A v \in Nat : Past(u, v) => Past(u, v)'
  <2>1. t \in Steps /\ Kind[t] # "qc" /\ Target[q] = {t}
    BY <1>5, PlanShape
  <2>2. disk[t] = Len(origin[t]) /\ disk[q] <= Len(origin[t])
    BY <1>5, <2>1 DEF DiskHolds
  <2>3. disk' \in [Steps -> Nat] /\ disk'[q] = disk[t] /\ \A u \in Steps : u # q => disk'[u] = disk[u]
    BY <1>1, <1>5, <2>1
  <2>. QED
    BY <1>1, <1>5, <2>1, <2>2, <2>3, PlanShape DEF FilesTyped, DiskHolds, Newest, Past
<1>. QED
  BY <1>1, <1>2, <1>3, <1>4, <1>5 DEF FilesMove, files

\* What was said of a content stays true.
LEMMA VouchesKeep ==
  ASSUME FilesTyped, DiskHolds, FilesMove, NEW s \in Steps, NEW inputs, NEW sha,
         Vouches(s, inputs, sha)
  PROVE  Vouches(s, inputs, sha)'
<1>1. inputs \in [Covered(s) -> Nat] /\ Covered(s) \subseteq Steps /\ Target[s] \subseteq Covered(s)
  <2>1. Kind[s] = "qc" => Target[s] = Covered(s)
    BY DEF Covered
  <2>. QED
    BY <2>1, PlanShape DEF Vouches
<1>2. \A t \in Covered(s) : Past(t, inputs[t]) => Past(t, inputs[t])'
  BY <1>1, FilesKeep
<1>3. CASE Kind[s] = "qc"
  BY <1>1, <1>2, <1>3 DEF Vouches
<1>4. CASE Kind[s] # "qc"
  <2>1. /\ sha \in 1..Len(origin[s]) /\ ~origin[s][sha].foreign
        /\ \A t \in Covered(s) : inputs[t] \in {0, origin[s][sha].from[t]} \/ Past(t, inputs[t])
    BY <1>4 DEF Vouches
  <2>2. /\ origin'[s][sha] = origin[s][sha] /\ Len(origin[s]) <= Len(origin'[s])
        /\ Len(origin[s]) \in Nat /\ Len(origin'[s]) \in Nat
    <3>1. FilesTyped /\ FilesTyped'
      BY FilesKeep
    <3>2. origin[s] \in Seq(Contents(s)) /\ origin'[s] \in Seq(Contents(s)')
      BY <3>1 DEF FilesTyped
    <3>. QED
      BY <2>1, <3>2, FilesKeep
  <2>3. sha \in 1..Len(origin'[s])
    BY <2>1, <2>2
  <2>. QED
    BY <1>1, <1>2, <1>4, <2>1, <2>2, <2>3 DEF Vouches
<1>. QED
  BY <1>3, <1>4

LEMMA EntriesKeep ==
  ASSUME FilesTyped, DiskHolds, FilesMove, NEW es, EntriesVouch(es)
  PROVE  \A s \in Steps : IsDone(es[s]) => Vouches(s, es[s].inputs, es[s].sha)'
BY VouchesKeep DEF EntriesVouch

\* What a write leaves.
LEMMA WriteIs ==
  ASSUME FilesTyped, NEW s \in Steps, NEW c, Write(s, c)
  PROVE  /\ origin' = [origin EXCEPT ![s] = Append(origin[s], c)]
         /\ disk' = [disk EXCEPT ![s] = Len(origin[s]) + 1]
         /\ disk'[s] = Len(origin[s]) + 1 /\ Len(origin[s]) \in Nat
         /\ Len(origin'[s]) = Len(origin[s]) + 1 /\ origin'[s][Len(origin[s]) + 1] = c
         /\ \A t \in Steps : t # s => disk'[t] = disk[t] /\ origin'[t] = origin[t]
<1>1. disk \in [Steps -> Nat] /\ DOMAIN origin = Steps /\ origin[s] \in Seq(Contents(s))
  BY DEF FilesTyped
<1>2. /\ origin' = [origin EXCEPT ![s] = Append(origin[s], c)]
      /\ disk' = [disk EXCEPT ![s] = Len(origin[s]) + 1]
  BY DEF Write
<1>3. origin'[s] = Append(origin[s], c) /\ disk'[s] = Len(origin[s]) + 1
  BY <1>1, <1>2
<1>4. /\ Len(origin[s]) \in Nat /\ Len(origin'[s]) = Len(origin[s]) + 1
      /\ origin'[s][Len(origin[s]) + 1] = c
  <2>. DEFINE seq == origin[s]
  <2>1. seq \in Seq(Contents(s)) /\ origin'[s] = Append(seq, c)
    BY <1>1, <1>3
  <2>. HIDE DEF seq
  <2>2. seq \in Seq(Contents(s) \cup {c}) /\ c \in Contents(s) \cup {c}
    BY <2>1
  <2>3. Len(seq) \in Nat /\ Len(Append(seq, c)) = Len(seq) + 1 /\ Append(seq, c)[Len(seq) + 1] = c
    BY <2>2, AppendProperties
  <2>. QED
    BY <2>1, <2>3 DEF seq
<1>5. \A t \in Steps : t # s => disk'[t] = disk[t] /\ origin'[t] = origin[t]
  BY <1>1, <1>2
<1>. QED
  BY <1>2, <1>3, <1>4, <1>5

\* A content that is written now was made from the inputs that were asked for, unless they are past.
LEMMA WrittenVouches ==
  ASSUME FilesTyped, DiskHolds, NEW s \in Steps, Kind[s] # "qc", NEW c \in Contents(s),
         ~c.foreign, Write(s, c), NEW inputs \in [Covered(s) -> Nat],
         \A t \in Covered(s) : inputs[t] \in {0, c.from[t]} \/ Past(t, inputs[t])
  PROVE  FilesMove /\ Vouches(s, inputs, disk[s])'
<1>2. FilesMove
  BY DEF FilesMove
<1>3. /\ disk'[s] = Len(origin[s]) + 1 /\ Len(origin[s]) \in Nat
      /\ Len(origin'[s]) = Len(origin[s]) + 1 /\ origin'[s][disk'[s]] = c
  BY WriteIs
<1>4. ASSUME NEW t \in Covered(s) PROVE inputs[t] \in {0, c.from[t]} \/ Past(t, inputs[t])'
  <2>1. t \in Steps
    BY PlanShape
  <2>. QED
    BY <1>2, <2>1, FilesKeep
<1>5. \A t \in Covered(s) : inputs[t] \in {0, origin'[s][disk'[s]].from[t]} \/ Past(t, inputs[t])'
  BY <1>3, <1>4
<1>6. disk'[s] \in 1..Len(origin'[s]) /\ ~origin'[s][disk'[s]].foreign
  BY <1>3
<1>. QED
  BY <1>2, <1>5, <1>6 DEF Vouches

\* Inputs there have been are on disk, or past.
LEMMA InputsArePast ==
  ASSUME FilesTyped, DiskHolds, NEW S \in SUBSET Steps, NEW inputs,
         \A t \in S : inputs[t] \in Nat /\ inputs[t] <= Newest(t)
  PROVE  \A t \in S : inputs[t] \in {0, disk[t]} \/ Past(t, inputs[t])
<1>1. \A t \in S : Newest(t) \in Nat
  BY DEF FilesTyped, Newest
<1>. QED
  BY <1>1 DEF Past

----------------------------------------------------------------------------
(* The step at hand. *)

LEMMA CurrentIs ==
  ASSUME PlanInv, exec.phase \in Doing \cup Noting \/ AtStep
  PROVE  /\ exec.at \in 1..Len(StepOrder) /\ Current \in Steps
         /\ exec.phase \notin Noting => ~IsDone(exec.results[Current])
<1>1. /\ mode \in Modes /\ exec.at \in Nat /\ exec.phase \in Phases /\ PlaceHolds
  BY DEF PlanInv, ExecHolds, ExecTyped
<1>2. exec.at \in 1..Len(StepOrder)
  BY <1>1, OrderIs DEF PlaceHolds, AtStep, Doing, Noting
<1>3. Current \in Steps
  BY <1>1, <1>2, OrderIs DEF Current
<1>4. ASSUME exec.phase \notin Noting, IsDone(exec.results[Current]) PROVE FALSE
  <2>1. Visited(Current)
    BY <1>1, <1>3, <1>4 DEF PlaceHolds
  <2>2. PICK i \in 1..Len(StepOrder) : StepOrder[i] = Current /\ i < exec.at
    BY <1>4, <2>1 DEF Visited
  <2>3. i = exec.at
    BY <1>1, <1>2, <2>2, OrderIs DEF Current, Distinct
  <2>. QED
    BY <1>1, <2>2, <2>3
<1>. QED
  BY <1>2, <1>3, <1>4

\* What the step at hand covers is done, and it is not itself among it.
LEMMA InputsDone ==
  ASSUME PlanInv, exec.phase \in Doing \/ AtStep,
         \A t \in Deps[Current] \cup Source[Current] : IsDone(exec.results[t]),
         Kind[Current] = "assembly" => \A t \in Consumes[Current] : exec.results[t].sha # 0
  PROVE  /\ \A t \in Covered(Current) : IsDone(exec.results[t]) /\ t # Current
<1>1. Current \in Steps /\ ~IsDone(exec.results[Current])
  <2>1. exec.phase \notin Noting
    BY DEF Doing, Noting, AtStep
  <2>. QED
    BY <2>1, CurrentIs
<1>2. /\ Deps[Current] \subseteq Steps /\ Consumes[Current] \subseteq Steps
  BY <1>1, PlanShape
<1>3. CASE Kind[Current] = "assembly"
  <2>1. Covered(Current) = Consumes[Current]
    BY <1>3 DEF Covered
  <2>2. \A t \in Consumes[Current] : IsDone(exec.results[t])
    BY <1>2, <1>3 DEF PlanInv, ExecHolds, PlaceHolds
  <2>. QED
    BY <1>1, <2>1, <2>2
<1>4. CASE Kind[Current] = "qc"
  <2>1. \A t \in Covered(Current) : t \in Deps[Current]
    BY <1>1, <1>4, PlanShape
  <2>. QED
    BY <1>1, <2>1
<1>5. CASE Kind[Current] = "tool"
  <2>. DEFINE inspected == UNION {Target[d] : d \in Deps[Current]}
  <2>1. \A t \in inspected : IsDone(exec.results[t])
    <3>1. SUFFICES ASSUME NEW d \in Deps[Current], NEW t \in Target[d] PROVE IsDone(exec.results[t])
      OBVIOUS
    <3>2. d \in Steps /\ Kind[d] = "qc" /\ t \in Covered(d)
      BY <1>2, PlanShape
    <3>. QED
      BY <3>2 DEF PlanInv, ExecHolds, PlaceHolds
  <2>2. Covered(Current) = Deps[Current] \cup inspected \cup Source[Current]
    BY <1>5 DEF Covered
  <2>. HIDE DEF inspected
  <2>. QED
    BY <1>1, <2>1, <2>2
<1>. QED
  BY <1>1, <1>3, <1>4, <1>5, PlanShape

LEMMA MadeIs ==
  ASSUME FilesTyped, NEW s \in Steps, NEW good \in BOOLEAN, NEW foreign \in BOOLEAN
  PROVE  /\ Made(s, good, foreign) \in Contents(s) /\ Made(s, good, foreign).from = Digest(s)
         /\ Made(s, good, foreign).foreign = foreign
<1>1. Digest(s) \in [Covered(s) -> Nat]
  BY DigestIs
<1>. QED
  BY <1>1 DEF Made, Contents

\* What is read for an assembly, once all of it is read.
LEMMA ReelIs ==
  ASSUME PlanInv, Encodes, DOMAIN exec.reel = Consumes[Current], NEW s, s = Current,
         NEW good \in BOOLEAN
  PROVE  /\ s \in Steps /\ Kind[s] = "assembly" /\ Covered(s) = Consumes[s]
         /\ [from |-> exec.reel, good |-> good, foreign |-> FALSE] \in Contents(s)
         /\ \A t \in Covered(s) : exec.inputs[t] \in {0, exec.reel[t]} \/ Past(t, exec.inputs[t])
         /\ ~exec.touched => exec.reel = Digest(s)
<1>1. /\ s \in Steps /\ Kind[s] = "assembly" /\ FilesTyped /\ ReelHolds /\ exec.phase = "encode"
  BY CurrentIs DEF PlanInv, GatedHolds, Encodes, Doing
<1>2. Covered(s) = Consumes[s]
  BY <1>1 DEF Covered
<1>3. /\ \A t \in Covered(s) : ~exec.touched => exec.reel[t] = disk[t]
      /\ \A t \in Covered(s) : exec.inputs[t] \in {0, exec.reel[t]} \/ Past(t, exec.inputs[t])
  BY <1>1, <1>2 DEF ReelHolds
<1>4. exec.reel \in [Covered(s) -> Nat]
  BY <1>1, <1>2 DEF ReelHolds
<1>5. ~exec.touched => exec.reel = Digest(s)
  BY <1>3, <1>4, <1>2 DEF Digest
<1>. QED
  BY <1>1, <1>2, <1>3, <1>4, <1>5 DEF Contents

\* Nothing else happens to the files, and the way the command is run is settled.
LEMMA StepMovesFiles ==
  ASSUME PlanInv, [PlanNext]_planVars
  PROVE  FilesMove /\ mode' = mode
<1>1. FilesTyped /\ DOMAIN orders \subseteq (Nat \ {0}) \X Producers \X Nat
  BY DEF PlanInv, OrdersTyped
<1>2. CASE UNCHANGED planVars
  BY <1>2 DEF planVars, FilesMove, files
<1>3. CASE \/ Start \/ Blocked \/ Unresolved \/ GateHolds \/ GatePasses \/ Reuse \/ Dispatch
           \/ Refuse \/ Collect \/ NewAttempt \/ CallExecutor \/ ExecutorFails \/ ExecutorContinues
           \/ AssemblyGate \/ (\E t \in Steps : ReadClip(t)) \/ EncodeFails
  BY <1>3 DEF FilesMove, Start, Blocked, Unresolved, GateHolds, GatePasses, Reuse, Dispatch, Refuse,
     Collect, NewAttempt, CallExecutor, ExecutorFails, ExecutorContinues, AssemblyGate, ReadClip,
     EncodeFails
<1>4. CASE \/ ExecuteHandoff \/ Checkpoint \/ CheckpointStates \/ CheckpointPause \/ Finish
           \/ RetryContent \/ Classify \/ Dies \/ Interrupted \/ DeadlinePasses
  BY <1>4 DEF FilesMove, ExecuteHandoff, Checkpoint, CheckpointStates, CheckpointPause, Finish,
     RetryContent, Classify, Dies, Interrupted, DeadlinePasses
<1>5. CASE \/ \E k \in DOMAIN orders : AgentGivesUp(k)
           \/ \E k \in DOMAIN work : AgentReports(k)
           \/ \E s \in Reviewed \cap mode.steps : Review(s)
  BY <1>5 DEF FilesMove, AgentGivesUp, AgentReports, Review
<1>6. CASE ExecuteQC
  <2>1. Executes("qc") /\ mode' = mode /\ origin' = origin
    BY <1>6 DEF ExecuteQC
  <2>2. Current \in Steps /\ Kind[Current] = "qc"
    BY <2>1, CurrentIs DEF Executes, Doing
  <2>3. PICK t \in Steps : Target[Current] = {t}
    BY <2>2, PlanShape
  <2>4. {disk[u] : u \in Target[Current]} = {disk[t]}
    BY <2>3
  <2>5. UNCHANGED disk \/ (disk[t] # 0 /\ disk' = [disk EXCEPT ![Current] = disk[t]])
    BY <1>6, <2>3, <2>4 DEF ExecuteQC
  <2>. QED
    BY <2>1, <2>2, <2>3, <2>5 DEF FilesMove, files
<1>7. CASE ExecutorCompletes
  <2>1. Current \in Steps /\ Kind[Current] = "tool"
    BY <1>7, CurrentIs DEF ExecutorCompletes, Doing, PlanInv, ExecHolds, DoingHolds
  <2>. QED
    BY <1>1, <1>7, <2>1, MadeIs DEF ExecutorCompletes, FilesMove
<1>8. CASE Assemble
  <2>3. PICK s : s = Current
    OBVIOUS
  <2>1. PICK good \in BOOLEAN :
          s = Current /\ Write(s, [from |-> exec.reel, good |-> good, foreign |-> FALSE])
    BY <1>8, <2>3 DEF Assemble
  <2>2. /\ s \in Steps /\ Kind[s] = "assembly"
        /\ [from |-> exec.reel, good |-> good, foreign |-> FALSE] \in Contents(s)
    BY <1>8, <2>1, ReelIs DEF Assemble
  <2>. QED
    BY <1>8, <2>1, <2>2 DEF Assemble, FilesMove
<1>9. ASSUME NEW k \in DOMAIN orders, AgentMakes(k) PROVE FilesMove /\ mode' = mode
  <2>1. k[2] \in Steps /\ Kind[k[2]] = "tool"
    BY <1>1, <1>9 DEF Producers
  <2>. QED
    BY <1>1, <1>9, <2>1, MadeIs DEF AgentMakes, FilesMove
<1>10. ASSUME NEW s \in mode.steps, Kind[s] # "qc", Edit(s) PROVE FilesMove /\ mode' = mode
  <2>1. s \in Steps
    BY <1>10, StepsAssumption DEF PlanInv, ModeType
  <2>. QED
    BY <1>1, <1>10, <2>1, MadeIs DEF Edit, FilesMove
<1>. QED
  BY <1>2, <1>3, <1>4, <1>5, <1>6, <1>7, <1>8, <1>9, <1>10 DEF PlanNext, Command, Others

----------------------------------------------------------------------------
(* The result of a step. *)

\* The step at hand got a result, and the command goes on or saves it first.
Recorded(s) ==
  /\ DOMAIN exec' = Fields /\ DOMAIN exec'.results = Steps /\ IsEntry(exec'.results[s])
  /\ \A t \in Steps : t # s => exec'.results[t] = exec.results[t]
  /\ \/ exec'.phase = "consider" /\ exec'.at = exec.at + 1
     \/ exec'.phase = "journal" /\ exec'.at = exec.at
  /\ exec'.prior = exec.prior /\ exec'.run = exec.run /\ exec'.attempt = exec.attempt
  /\ exec'.collects = exec.collects /\ exec'.touched = exec.touched

LEMMA ResultIsRecorded ==
  ASSUME ExecTyped, NEW s \in Steps, s = Current, NEW e, IsEntry(e),
         (AtStep /\ Record(e)) \/ Results(e)
  PROVE  Recorded(s) /\ exec'.results[s] = e
<1>1. exec.at \in Nat /\ DOMAIN exec.results = Steps /\ DOMAIN exec = Fields
  BY DEF ExecTyped, AreEntries
<1>2. CASE AtStep /\ Record(e)
  BY <1>1, <1>2 DEF AtStep, Record, Recorded, Fields
<1>3. CASE Results(e)
  BY <1>1, <1>3 DEF Results, Recorded, Fields
<1>. QED
  BY <1>2, <1>3

LEMMA EntriesAre ==
  ASSUME NEW inputs, NEW status \in Statuses
  PROVE  /\ IsEntry(Entry(status, inputs)) /\ IsEntry(Blank)
         /\ Entry(status, inputs).status = status /\ Entry(status, inputs).inputs = inputs
         /\ Entry(status, inputs).sha = 0 /\ Entry(status, inputs).attempt = 0
BY DEF Entry, Blank, IsEntry, Statuses

\* What is done stays as it is when another step writes.
LEMMA DoneKeeps ==
  ASSUME FilesTyped, PlaceHolds, DoneStands, ~exec.touched, NEW s \in Steps, ~IsDone(exec.results[s]),
         \A t \in Steps : t # s => disk'[t] = disk[t] /\ origin'[t] = origin[t],
         NEW u \in Steps, IsDone(exec.results[u])
  PROVE  Stands(u)'
<1>1. Stands(u) /\ u # s /\ Covered(u) \subseteq Steps \ {s}
  BY PlanShape DEF DoneStands, PlaceHolds
<1>2. disk'[u] = disk[u] /\ origin'[u] = origin[u]
      /\ \A t \in Covered(u) : disk'[t] = disk[t] /\ origin'[t] = origin[t]
  BY <1>1
<1>3. CASE Kind[u] = "qc"
  <2>1. Target[u] \subseteq Covered(u)
    BY <1>3 DEF Covered
  <2>. QED
    BY <1>1, <1>2, <1>3, <2>1 DEF Stands, Conforms
<1>4. CASE Kind[u] # "qc"
  <2>1. Digest(u)' = Digest(u)
    BY <1>2 DEF Digest, Covered
  <2>. QED
    BY <1>1, <1>2, <1>4, <2>1 DEF Stands
<1>. QED
  BY <1>3, <1>4

LEMMA ResultKeeps ==
  ASSUME PlanInv, FilesMove, mode' = mode, answers' = answers,
         exec.phase \in Doing \/ AtStep, NEW s \in Steps, s = Current, Recorded(s),
         \A t \in Steps : t # s => disk'[t] = disk[t] /\ origin'[t] = origin[t],
         exec'.results[s].sha # 0 => IsDone(exec'.results[s]),
         exec'.results[s].status = "failed" /\ exec'.results[s].attempt >= 1
           => <<exec.run, s, exec'.results[s].attempt>> \in DOMAIN answers,
         IsDone(exec'.results[s]) =>
           /\ \A t \in Covered(s) : IsDone(exec.results[t])
           /\ Vouches(s, exec.results[s].inputs, exec.results[s].sha)'
           /\ ~exec.touched => Stands(s)'
  PROVE  ExecHolds'
<1>. DEFINE new == exec'.results
<1>1. /\ FilesTyped /\ DiskHolds /\ mode \in Modes /\ ExecTyped /\ EntriesVouch(exec.results)
      /\ EntriesVouch(exec.prior.steps) /\ RunHolds /\ PlaceHolds /\ DoneStands
  BY DEF PlanInv, ExecHolds
<1>2. exec.at \in 1..Len(StepOrder) /\ ~IsDone(exec.results[s]) /\ exec.phase # "off" /\ StepOrder' = StepOrder
  BY CurrentIs DEF Doing, Noting, AtStep, StepOrder
<1>3. exec'.phase \in {"consider", "journal"} /\ exec'.at \in Nat
  BY <1>1 DEF Recorded, ExecTyped
<1>4. AreEntries(exec'.results) /\ ExecTyped'
  BY <1>1, <1>3 DEF ExecTyped, AreEntries, Recorded, Phases, Noting, IsEntry
<1>5. EntriesVouch(exec.results)'
  <2>1. ASSUME NEW t \in Steps, t # s, IsDone(exec'.results[t])
        PROVE  Vouches(t, exec.results[t].inputs, exec.results[t].sha)'
    <3>1. exec'.results[t] = exec.results[t]
      BY <2>1 DEF Recorded
    <3>2. Vouches(t, exec.results[t].inputs, exec.results[t].sha)
      BY <1>1, <2>1, <3>1 DEF EntriesVouch
    <3>. QED
      BY <1>1, <3>1, <3>2, VouchesKeep
  <2>. QED
    BY <2>1 DEF EntriesVouch
<1>6. EntriesVouch(exec.prior.steps)'
  BY <1>1, EntriesKeep DEF EntriesVouch, Recorded
<1>7. RunHolds'
  BY <1>1, <1>2, <1>3 DEF RunHolds, FailuresAnswered, Recorded
<1>8. PlaceHolds'
  <2>1. \A t \in Steps : Visited(t) => Visited(t)'
    BY <1>1, <1>2, OrderIs DEF Visited, Recorded, ExecTyped, Noting
  <2>2. Visited(s)'
    BY <1>1, <1>2 DEF Visited, Recorded, Noting, Current, ExecTyped
  <2>3. ASSUME NEW t \in Steps, IsDone(new[t])
        PROVE  Visited(t)' /\ \A u \in Covered(t) : IsDone(exec.results[u])
    BY <1>1, <2>1, <2>2, <2>3 DEF PlaceHolds, Recorded
  <2>4. \A t \in Steps : \A u \in Covered(t) : IsDone(exec.results[u]) => IsDone(new[u])
    BY <1>2, PlanShape DEF Recorded
  <2>5. \A t \in Steps : new[t].sha # 0 => IsDone(new[t])
    BY <1>1 DEF PlaceHolds, Recorded
  <2>. QED
    BY <1>1, <1>2, <1>3, <2>3, <2>4, <2>5 DEF PlaceHolds, Doing, Noting, Recorded, Covered, ExecTyped
<1>9. DoingHolds'
  BY <1>3 DEF DoingHolds, Doing
<1>10. DoneStands'
  BY <1>1, <1>2, DoneKeeps DEF DoneStands, Recorded
<1>. QED
  BY <1>4, <1>5, <1>6, <1>7, <1>8, <1>9, <1>10 DEF ExecHolds

\* A content that the inputs on disk vouch for was made from them.
LEMMA VouchedStands ==
  ASSUME FilesTyped, NEW s \in Steps, Vouches(s, Digest(s), disk[s]),
         \A t \in Covered(s) : disk[t] > 0, Kind[s] = "qc" => Conforms(s)
  PROVE  Stands(s)
<1>1. /\ Digest(s) \in [Covered(s) -> Nat] /\ \A t \in Covered(s) : Digest(s)[t] = disk[t]
  BY DigestIs
<1>2. \A t \in Covered(s) : ~Past(t, Digest(s)[t]) /\ Digest(s)[t] # 0
  <2>1. \A t \in Covered(s) : disk[t] # 0
    <3>1. \A t \in Covered(s) : disk[t] \in Nat
      BY PlanShape DEF FilesTyped
    <3>. QED
      BY <3>1
  <2>. QED
    BY <1>1, <2>1 DEF Past
<1>3. CASE Kind[s] = "qc"
  <2>1. PICK t \in Steps : Target[s] = {t} /\ Covered(s) = {t}
    BY <1>3, PlanShape
  <2>2. disk[s] = disk[t]
    BY <1>1, <1>2, <1>3, <2>1 DEF Vouches
  <2>. QED
    BY <1>3, <2>1, <2>2 DEF Stands
<1>4. CASE Kind[s] # "qc"
  <2>. DEFINE made == origin[s][disk[s]]
  <2>1. /\ disk[s] \in 1..Len(origin[s]) /\ ~made.foreign
        /\ \A t \in Covered(s) : Digest(s)[t] \in {0, made.from[t]} \/ Past(t, Digest(s)[t])
    BY <1>4 DEF Vouches
  <2>2. made.from \in [Covered(s) -> Nat]
    <3>1. origin[s] \in Seq(Contents(s))
      BY DEF FilesTyped
    <3>2. made \in Contents(s)
      BY <2>1, <3>1, ElementOfSeq
    <3>. QED
      BY <3>2 DEF Contents
  <2>3. \A t \in Covered(s) : made.from[t] = Digest(s)[t]
    BY <1>2, <2>1
  <2>. HIDE DEF made
  <2>4. made.from = Digest(s)
    BY <1>1, <2>2, <2>3
  <2>5. disk[s] > 0
    <3>1. Len(origin[s]) \in Nat
      BY DEF FilesTyped
    <3>. QED
      BY <2>1, <3>1
  <2>. QED
    BY <1>4, <2>1, <2>4, <2>5 DEF Stands, made
<1>. QED
  BY <1>3, <1>4

\* A result that completes nothing.
LEMMA FailureKeeps ==
  ASSUME PlanInv, FilesMove, mode' = mode,
         \/ Blocked \/ Unresolved \/ GateHolds \/ Refuse \/ ExecutorFails \/ ExecutorContinues
         \/ (AssemblyGate /\ ~GateOpen(Current)) \/ EncodeFails
  PROVE  ExecHolds'
<1>1. exec.phase \in Doing \/ AtStep
  BY DEF Blocked, Unresolved, GateHolds, Refuse, ExecutorFails, ExecutorContinues, Ready, Unblocked,
     AtIntent, AssemblyGate, EncodeFails, Encodes, Executes, Doing
<1>2. Current \in Steps /\ ExecTyped
  BY <1>1, CurrentIs DEF PlanInv, ExecHolds
<1>3. PICK e : /\ (AtStep /\ Record(e)) \/ Results(e)
               /\ IsEntry(e) /\ ~IsDone(e) /\ e.sha = 0 /\ e.attempt = 0
  <2>1. \A status \in Statuses : \A inputs, code :
          /\ IsEntry([Entry(status, inputs) EXCEPT !.code = code])
          /\ [Entry(status, inputs) EXCEPT !.code = code].status = status
          /\ [Entry(status, inputs) EXCEPT !.code = code].sha = 0
          /\ [Entry(status, inputs) EXCEPT !.code = code].attempt = 0
    BY DEF Entry, Blank, IsEntry
  <2>2. {"blocked", "failed", "pending_external"} \subseteq Statuses
    BY DEF Statuses
  <2>3. CASE Blocked \/ Unresolved \/ GateHolds
    <3>1. AtStep /\ (Record(Entry("blocked", <<>>)) \/ Record(Entry("failed", <<>>)))
      BY <2>3 DEF Blocked, Unresolved, GateHolds, Ready, Unblocked
    <3>. QED
      BY <2>2, <3>1, EntriesAre DEF IsDone
  <2>4. CASE Refuse
    <3>1. PICK inputs, code : Results([Entry("failed", inputs) EXCEPT !.code = code])
      <4>1. Results([Entry("failed", exec.inputs) EXCEPT !.code = Ruling(Current)])
        BY <2>4 DEF Refuse
      <4>. QED
        BY <4>1, Zenon
    <3>. DEFINE e == [Entry("failed", inputs) EXCEPT !.code = code]
    <3>2. IsEntry(e) /\ e.status = "failed" /\ e.sha = 0 /\ e.attempt = 0
      BY DEF Entry, Blank, IsEntry, Statuses
    <3>. HIDE DEF e
    <3>. QED
      BY <3>1, <3>2 DEF IsDone, e
  <2>5. CASE ExecutorFails
    <3>1. PICK code : Results([Entry("failed", exec.inputs) EXCEPT !.code = code])
      BY <2>5 DEF ExecutorFails
    <3>. DEFINE e == [Entry("failed", exec.inputs) EXCEPT !.code = code]
    <3>2. IsEntry(e) /\ e.status = "failed" /\ e.sha = 0 /\ e.attempt = 0
      BY <2>1, <2>2
    <3>. HIDE DEF e
    <3>. QED
      BY <3>1, <3>2 DEF IsDone, e
  <2>6. CASE ExecutorContinues
    <3>1. Results(Entry("pending_external", exec.inputs))
      BY <2>6 DEF ExecutorContinues
    <3>. QED
      BY <2>2, <3>1, EntriesAre DEF IsDone
  <2>7. CASE (AssemblyGate /\ ~GateOpen(Current)) \/ EncodeFails
    <3>1. Results(Entry("blocked", exec.inputs)) \/ Results(Entry("failed", exec.inputs))
      BY <2>7 DEF AssemblyGate, EncodeFails
    <3>. QED
      BY <2>2, <3>1, EntriesAre DEF IsDone
  <2>. QED
    BY <2>3, <2>4, <2>5, <2>6, <2>7
<1>4. /\ answers' = answers /\ UNCHANGED files
  BY DEF Blocked, Unresolved, GateHolds, Refuse, ExecutorFails, ExecutorContinues, AssemblyGate,
     EncodeFails, agents
<1>5. \A s \in Steps : s = Current => Recorded(s) /\ exec'.results[s] = e
  BY <1>2, <1>3, ResultIsRecorded
<1>6. PICK s \in Steps : s = Current /\ Recorded(s) /\ exec'.results[s] = e
  BY <1>2, <1>5
<1>7. /\ ~IsDone(exec'.results[s]) /\ exec'.results[s].sha = 0 /\ ~(exec'.results[s].attempt >= 1)
      /\ \A t \in Steps : t # s => disk'[t] = disk[t] /\ origin'[t] = origin[t]
  BY <1>3, <1>4, <1>6 DEF files
<1>. QED
  BY <1>1, <1>4, <1>6, <1>7, ResultKeeps

LEMMA InputsThere ==
  ASSUME PlanInv, ~exec.touched, NEW s \in Steps, \A t \in Covered(s) : IsDone(exec.results[t])
  PROVE  \A t \in Covered(s) : disk[t] > 0
BY PlanShape DEF PlanInv, ExecHolds, DoneStands, Stands

\* What may be reused is what would be made again.
LEMMA ReuseIs ==
  ASSUME PlanInv, Reuse, NEW s \in Steps, s = Current
  PROVE  /\ exec.phase \in Doing \/ AtStep
         /\ Recorded(s) /\ exec'.results[s].status = "reused"
         /\ exec'.results[s].inputs = Inputs(s) /\ exec'.results[s].sha = disk[s]
         /\ exec'.results[s].attempt = 0
         /\ Vouches(s, Inputs(s), disk[s]) /\ (Kind[s] = "qc" => Conforms(s))
         /\ Kind[s] = "assembly" => exec.phase = "gated"
         /\ \A t \in Deps[s] \cup Source[s] : IsDone(exec.results[t])
         /\ Kind[s] = "assembly" => \A t \in Consumes[s] : exec.results[t].sha # 0
         /\ ~exec.touched => Inputs(s) = Digest(s)
<1>. DEFINE prior == exec.prior.steps[s]
            e == [prior EXCEPT !.status = "reused", !.attempt = 0, !.order = 0]
<1>1. /\ exec' = [exec EXCEPT !.phase = "consider", !.at = @ + 1, !.results[Current] = e]
      /\ Compares /\ Reusable(s)
  BY DEF Reuse
<1>2. /\ ExecTyped /\ IsEntry(prior) /\ EntriesVouch(exec.prior.steps) /\ DoingHolds /\ GatedHolds
  BY DEF PlanInv, ExecHolds, ExecTyped, IsJournal, AreEntries
<1>3. /\ prior.status = "completed" /\ prior.inputs = Inputs(s) /\ prior.sha = disk[s]
      /\ Kind[s] = "qc" => Conforms(s)
  BY <1>1 DEF Reusable
<1>4. Vouches(s, Inputs(s), disk[s])
  BY <1>2, <1>3 DEF EntriesVouch, IsDone
<1>5. /\ IsEntry(e) /\ e.status = "reused" /\ e.inputs = prior.inputs /\ e.sha = prior.sha
      /\ e.attempt = 0
  <2>. HIDE DEF prior
  <2>. QED
    BY <1>2 DEF IsEntry, Statuses
<1>. HIDE DEF e
<1>6. Recorded(s) /\ exec'.results[s] = e
  <2>1. exec.at \in Nat /\ DOMAIN exec.results = Steps /\ DOMAIN exec = Fields
    BY <1>2 DEF ExecTyped, AreEntries
  <2>. QED
    BY <1>1, <1>5, <2>1 DEF Recorded, Fields
<1>7. /\ exec.phase = "gated" \/ Ready
      /\ Kind[s] = "assembly" => exec.phase = "gated"
  BY <1>1 DEF Compares, Reusable, Gated
<1>8. exec.phase \in Doing \/ AtStep
  BY <1>7 DEF Doing, Ready, Unblocked
<1>9. \A t \in Deps[s] \cup Source[s] : IsDone(exec.results[t])
  <2>1. CASE exec.phase = "gated"
    BY <1>2, <2>1 DEF DoingHolds, Doing
  <2>2. CASE Ready
    BY <2>2 DEF Ready, Unblocked, Resolved
  <2>. QED
    BY <1>7, <2>1, <2>2
<1>10. Kind[s] = "assembly" => \A t \in Consumes[s] : exec.results[t].sha # 0
  BY <1>2, <1>7 DEF GatedHolds
<1>11. ~exec.touched => Inputs(s) = Digest(s)
  BY <1>2 DEF Inputs, DoingHolds, Doing
<1>. HIDE DEF prior
<1>. QED
  BY <1>3, <1>4, <1>5, <1>6, <1>7, <1>8, <1>9, <1>10, <1>11

LEMMA ReuseKeeps ==
  ASSUME PlanInv, FilesMove, mode' = mode, Reuse
  PROVE  ExecHolds'
<1>1. (exec.phase \in Doing \/ AtStep) /\ UNCHANGED files /\ answers' = answers
  BY DEF Reuse, Compares, Ready, Unblocked, Doing, agents
<1>2. PICK s \in Steps : s = Current
  BY <1>1, CurrentIs
<1>3. \A t \in Covered(s) : IsDone(exec.results[t])
  <2>1. \A t \in Deps[Current] \cup Source[Current] : IsDone(exec.results[t])
    BY <1>2, ReuseIs
  <2>2. Kind[Current] = "assembly" => \A t \in Consumes[Current] : exec.results[t].sha # 0
    BY <1>2, ReuseIs
  <2>. QED
    BY <1>1, <1>2, <2>1, <2>2, InputsDone
<1>4. /\ Recorded(s) /\ exec'.results[s].status = "reused"
      /\ exec'.results[s].inputs = Inputs(s) /\ exec'.results[s].sha = disk[s]
      /\ Vouches(s, Inputs(s), disk[s]) /\ (Kind[s] = "qc" => Conforms(s))
      /\ ~exec.touched => Inputs(s) = Digest(s)
  BY <1>2, ReuseIs
<1>5. FilesTyped /\ DiskHolds
  BY DEF PlanInv
<1>6. Vouches(s, exec.results[s].inputs, exec.results[s].sha)'
  <2>1. PICK inputs, sha : inputs = Inputs(s) /\ sha = disk[s]
    OBVIOUS
  <2>2. Vouches(s, inputs, sha)'
    BY <1>2, <1>4, <1>5, <2>1, VouchesKeep
  <2>. QED
    BY <1>4, <2>1, <2>2
<1>7. ~exec.touched => Stands(s)'
  <2>1. ~exec.touched => Stands(s)
    BY <1>2, <1>3, <1>4, <1>5, InputsThere, VouchedStands
  <2>2. disk' = disk /\ origin' = origin
    BY <1>1 DEF files
  <2>. QED
    BY <2>1, <2>2 DEF Stands, Conforms, Digest, Covered
<1>8. /\ IsDone(exec'.results[s]) /\ exec'.results[s].status # "failed"
      /\ \A t \in Steps : t # s => disk'[t] = disk[t] /\ origin'[t] = origin[t]
  BY <1>1, <1>4 DEF IsDone, files
<1>. QED
  BY <1>1, <1>2, <1>3, <1>4, <1>6, <1>7, <1>8, ResultKeeps

\* A content made now from inputs that are done.
LEMMA WriteKeeps ==
  ASSUME PlanInv, mode' = mode, answers' = answers, exec.phase \in Doing, NEW s \in Steps, s = Current,
         Kind[s] # "qc", NEW c \in Contents(s), ~c.foreign, Write(s, c), Recorded(s),
         \A t \in Covered(s) : exec.inputs[t] \in {0, c.from[t]} \/ Past(t, exec.inputs[t]),
         ~exec.touched => c.from = Digest(s),
         \A t \in Covered(s) : IsDone(exec.results[t]),
         exec'.results[s].attempt = 0,
         \/ ~IsDone(exec'.results[s]) /\ exec'.results[s].sha = 0
         \/ /\ IsDone(exec'.results[s]) /\ exec'.results[s].inputs = exec.inputs
            /\ exec'.results[s].sha = disk'[s]
  PROVE  ExecHolds'
<1>1. FilesTyped /\ DiskHolds /\ DoingHolds /\ ExecTyped
  BY DEF PlanInv, ExecHolds
<1>2. ~exec.touched => c.from = Digest(s)
  OBVIOUS
<1>3. exec.inputs \in [Covered(s) -> Nat]
  BY <1>1 DEF DoingHolds
<1>4. FilesMove
  BY <1>1, <1>2, <1>3, WrittenVouches
<1>5. /\ disk'[s] = Len(origin[s]) + 1 /\ Len(origin[s]) \in Nat /\ origin'[s][disk'[s]] = c
      /\ \A t \in Steps : t # s => disk'[t] = disk[t] /\ origin'[t] = origin[t]
  BY <1>1, <1>2, WriteIs
<1>6. ASSUME IsDone(exec'.results[s])
      PROVE  /\ Vouches(s, exec.results[s].inputs, exec.results[s].sha)'
             /\ ~exec.touched => Stands(s)'
  <2>1. exec'.results[s].inputs = exec.inputs /\ exec'.results[s].sha = disk'[s]
    BY <1>6
  <2>2. Vouches(s, exec.results[s].inputs, exec.results[s].sha)'
    <3>1. PICK inputs : inputs = exec.inputs
      OBVIOUS
    <3>2. Vouches(s, inputs, disk[s])'
      BY <1>1, <1>2, <1>3, <3>1, WrittenVouches
    <3>. QED
      BY <2>1, <3>1, <3>2
  <2>3. Digest(s)' = Digest(s)
    <3>1. \A t \in Covered(s) : t # s /\ t \in Steps
      BY CurrentIs, PlanShape DEF Doing, Noting
    <3>. QED
      BY <1>5, <3>1 DEF Digest, Covered
  <2>. QED
    BY <1>2, <1>5, <2>2, <2>3 DEF Stands
<1>7. /\ ~(exec'.results[s].attempt >= 1)
      /\ exec'.results[s].sha # 0 => IsDone(exec'.results[s])
  OBVIOUS
<1>. QED
  BY <1>4, <1>5, <1>6, <1>7, ResultKeeps

LEMMA CompletionKeeps ==
  ASSUME PlanInv, mode' = mode, ExecutorCompletes
  PROVE  ExecHolds'
<1>1. /\ ExecTyped /\ DoingHolds /\ FilesTyped /\ DiskHolds
      /\ exec.phase = "await" /\ exec.phase \in Doing /\ answers' = answers
  BY DEF PlanInv, ExecHolds, ExecutorCompletes, Doing, agents
<1>2. PICK s \in Steps : s = Current
  BY <1>1, CurrentIs
<1>3. Kind[s] = "tool" /\ \A t \in Deps[Current] \cup Source[Current] : IsDone(exec.results[t])
  BY <1>1, <1>2 DEF DoingHolds
<1>4. \A t \in Covered(s) : IsDone(exec.results[t])
  BY <1>1, <1>2, <1>3, InputsDone
<1>5. PICK good \in BOOLEAN : Write(s, Made(s, good, FALSE))
  BY <1>2 DEF ExecutorCompletes
<1>6. disk'[s] \in Nat
  <2>1. PICK c : Write(s, c)
    BY <1>5
  <2>. QED
    BY <1>1, <2>1, WriteIs
<1>. DEFINE inputs == exec.inputs
            sha == disk'[s]
            e == [Entry("completed", inputs) EXCEPT !.sha = sha]
<1>7. Results(e)
  BY <1>2 DEF ExecutorCompletes
<1>. HIDE DEF inputs, sha
<1>8. IsEntry(e) /\ IsDone(e) /\ e.inputs = inputs /\ e.sha = sha /\ e.attempt = 0
  BY <1>6 DEF Entry, Blank, IsEntry, Statuses, IsDone, sha
<1>. HIDE DEF e
<1>9. Recorded(s) /\ exec'.results[s] = e
  BY <1>1, <1>2, <1>7, <1>8, ResultIsRecorded
<1>10. /\ IsDone(exec'.results[s]) /\ exec'.results[s].inputs = exec.inputs
       /\ exec'.results[s].sha = disk'[s] /\ exec'.results[s].attempt = 0 /\ Kind[s] # "qc"
  BY <1>3, <1>8, <1>9 DEF inputs, sha
<1>11. PICK c \in Contents(s) : c.from = Digest(s) /\ ~c.foreign /\ Write(s, c)
  BY <1>1, <1>5, MadeIs
<1>12. \A t \in Covered(s) : exec.inputs[t] \in {0, c.from[t]} \/ Past(t, exec.inputs[t])
  <2>1. /\ exec.inputs \in [Covered(s) -> Nat] /\ Covered(s) \in SUBSET Steps
        /\ \A t \in Covered(s) : exec.inputs[t] <= Newest(t)
    BY <1>1, <1>2, PlanShape DEF DoingHolds
  <2>2. \A t \in Covered(s) : exec.inputs[t] \in Nat /\ exec.inputs[t] <= Newest(t)
    BY <2>1
  <2>3. PICK asked : asked = exec.inputs
    OBVIOUS
  <2>4. \A t \in Covered(s) : asked[t] \in {0, disk[t]} \/ Past(t, asked[t])
    BY <1>1, <2>1, <2>2, <2>3, InputsArePast
  <2>5. \A t \in Covered(s) : Digest(s)[t] = disk[t]
    BY <1>1, DigestIs
  <2>. QED
    BY <1>11, <2>3, <2>4, <2>5
<1>. QED
  BY <1>1, <1>2, <1>4, <1>9, <1>10, <1>11, <1>12, WriteKeeps

\* The result of an assembly.
LEMMA AssembleIs ==
  ASSUME PlanInv, Assemble
  PROVE  \E s \in Steps : \E c \in Contents(s) :
           /\ s = Current /\ Kind[s] = "assembly" /\ exec.phase = "encode" /\ Recorded(s)
           /\ c.from = exec.reel /\ ~c.foreign /\ Write(s, c)
           /\ Covered(s) = Consumes[s] /\ DOMAIN exec.reel = Consumes[s]
           /\ \A t \in Covered(s) : exec.inputs[t] \in {0, c.from[t]} \/ Past(t, exec.inputs[t])
           /\ ~exec.touched => c.from = Digest(s)
           /\ exec'.results[s].attempt = 0
           /\ \/ ~IsDone(exec'.results[s]) /\ exec'.results[s].sha = 0
              \/ /\ IsDone(exec'.results[s]) /\ exec'.results[s].inputs = exec.inputs
                 /\ exec'.results[s].sha = disk'[s]
<1>. DEFINE inputs == exec.inputs
<1>9. PICK s : s = Current
  OBVIOUS
<1>. DEFINE sha == disk'[s]
            e == [Entry("completed", inputs) EXCEPT !.sha = sha]
<1>10. PICK good \in BOOLEAN :
         /\ Write(s, [from |-> exec.reel, good |-> good, foreign |-> FALSE])
         /\ Results(IF good THEN e ELSE Entry("failed", inputs))
  BY <1>9 DEF Assemble
<1>1. /\ s = Current
      /\ Write(s, [from |-> exec.reel, good |-> good, foreign |-> FALSE])
      /\ Results(IF good THEN e ELSE Entry("failed", inputs))
  BY <1>9, <1>10
<1>2. PICK c : c = [from |-> exec.reel, good |-> good, foreign |-> FALSE]
  OBVIOUS
<1>3. /\ ExecTyped /\ FilesTyped /\ Encodes /\ DOMAIN exec.reel = Consumes[Current]
  BY DEF PlanInv, ExecHolds, Assemble
<1>4. /\ s \in Steps /\ Kind[s] = "assembly" /\ Covered(s) = Consumes[s]
      /\ c \in Contents(s) /\ c.from = exec.reel /\ ~c.foreign
      /\ \A t \in Covered(s) : exec.inputs[t] \in {0, exec.reel[t]} \/ Past(t, exec.inputs[t])
      /\ ~exec.touched => exec.reel = Digest(s)
  BY <1>1, <1>2, <1>3, ReelIs
<1>5. Write(s, c)
  BY <1>1, <1>2
<1>6. disk'[s] \in Nat
  BY <1>3, <1>4, <1>5, WriteIs
<1>7. CASE good
  <2>1. Results(e)
    BY <1>1, <1>7
  <2>. HIDE DEF sha, inputs
  <2>2. IsEntry(e) /\ IsDone(e) /\ e.inputs = inputs /\ e.sha = sha /\ e.attempt = 0
    BY <1>6 DEF Entry, Blank, IsEntry, Statuses, IsDone, sha
  <2>. HIDE DEF e
  <2>3. Recorded(s) /\ exec'.results[s] = e
    BY <1>1, <1>3, <1>4, <2>1, <2>2, ResultIsRecorded
  <2>4. /\ Recorded(s) /\ exec'.results[s].attempt = 0
        /\ IsDone(exec'.results[s]) /\ exec'.results[s].inputs = exec.inputs
        /\ exec'.results[s].sha = disk'[s]
    BY <2>2, <2>3 DEF inputs, sha
  <2>. QED
    BY <1>1, <1>3, <1>4, <1>5, <2>4 DEF Encodes
<1>8. CASE ~good
  <2>1. Results(Entry("failed", inputs))
    BY <1>1, <1>8
  <2>. HIDE DEF inputs
  <2>2. PICK f : f = Entry("failed", inputs)
    OBVIOUS
  <2>3. IsEntry(f) /\ ~IsDone(f) /\ f.sha = 0 /\ f.attempt = 0
    BY <2>2 DEF Entry, Blank, IsEntry, Statuses, IsDone
  <2>4. Recorded(s) /\ exec'.results[s] = f
    BY <1>1, <1>3, <1>4, <2>1, <2>2, <2>3, ResultIsRecorded
  <2>5. /\ Recorded(s) /\ exec'.results[s].attempt = 0
        /\ ~IsDone(exec'.results[s]) /\ exec'.results[s].sha = 0
    BY <2>3, <2>4
  <2>. QED
    BY <1>1, <1>3, <1>4, <1>5, <2>5 DEF Encodes
<1>. QED
  BY <1>7, <1>8

LEMMA AssembleKeeps ==
  ASSUME PlanInv, FilesMove, mode' = mode, Assemble
  PROVE  ExecHolds'
<1>1. answers' = answers /\ DoingHolds /\ GatedHolds
  BY DEF Assemble, agents, PlanInv, ExecHolds
<1>2. PICK s \in Steps : \E c \in Contents(s) :
           /\ s = Current /\ Kind[s] = "assembly" /\ exec.phase = "encode" /\ Recorded(s)
           /\ c.from = exec.reel /\ ~c.foreign /\ Write(s, c)
           /\ Covered(s) = Consumes[s] /\ DOMAIN exec.reel = Consumes[s]
           /\ \A t \in Covered(s) : exec.inputs[t] \in {0, c.from[t]} \/ Past(t, exec.inputs[t])
           /\ ~exec.touched => c.from = Digest(s)
           /\ exec'.results[s].attempt = 0
           /\ \/ ~IsDone(exec'.results[s]) /\ exec'.results[s].sha = 0
              \/ /\ IsDone(exec'.results[s]) /\ exec'.results[s].inputs = exec.inputs
                 /\ exec'.results[s].sha = disk'[s]
  BY AssembleIs
<1>3. exec.phase \in Doing
  BY <1>2 DEF Doing
<1>4. \A t \in Covered(s) : IsDone(exec.results[t])
  BY <1>1, <1>2, <1>3, InputsDone DEF DoingHolds, GatedHolds
<1>. QED
  BY <1>1, <1>2, <1>3, <1>4, WriteKeeps

LEMMA CheckKeeps ==
  ASSUME PlanInv, FilesMove, mode' = mode, ExecuteQC
  PROVE  ExecHolds'
<1>1. /\ ExecTyped /\ DoingHolds /\ FilesTyped /\ DiskHolds /\ exec.phase \in Doing
      /\ answers' = answers /\ origin' = origin
  BY DEF PlanInv, ExecHolds, ExecuteQC, Executes, Doing, agents
<1>2. PICK s \in Steps : s = Current /\ Kind[s] = "qc"
  BY <1>1, CurrentIs DEF ExecuteQC, Executes
<1>3. PICK t \in Deps[s] : Target[s] = {t} /\ Covered(s) = {t} /\ Kind[t] # "qc" /\ t \in Steps
  BY <1>2, PlanShape
<1>4. /\ \A u \in Covered(s) : IsDone(exec.results[u]) /\ t # s
      /\ exec.inputs \in [Covered(s) -> Nat] /\ exec.inputs[t] <= Newest(t)
      /\ ~exec.touched => exec.inputs = Digest(s)
  BY <1>1, <1>2, <1>3 DEF DoingHolds
<1>5. {disk[u] : u \in Target[s]} = {disk[t]} /\ disk[t] \in Nat
  BY <1>1, <1>3 DEF FilesTyped
<1>0. PICK inputs, seen : inputs = exec.inputs /\ seen = disk[t]
  OBVIOUS
<1>. DEFINE passed == [Entry("completed", inputs) EXCEPT !.sha = seen]
            bad == [Entry("failed", inputs) EXCEPT !.code = "does_not_conform"]
            none == Entry("failed", inputs)
            Case1 == disk' = disk /\ Results(none)
            Case2 == /\ seen # 0 /\ disk' = [disk EXCEPT ![s] = seen]
                     /\ \/ Conforms(s) /\ Results(passed)
                        \/ ~Conforms(s) /\ Results(bad)
<1>6. Case1 \/ Case2
  BY <1>0, <1>2, <1>3, <1>5 DEF ExecuteQC
<1>7. /\ IsEntry(none) /\ ~IsDone(none) /\ none.sha = 0 /\ none.attempt = 0
      /\ IsEntry(bad) /\ ~IsDone(bad) /\ bad.sha = 0 /\ bad.attempt = 0
      /\ IsEntry(passed) /\ IsDone(passed) /\ passed.sha = seen /\ passed.attempt = 0
      /\ passed.inputs = inputs
  <2>1. seen \in Nat
    BY <1>0, <1>5
  <2>. QED
    BY <2>1 DEF Entry, Blank, IsEntry, Statuses, IsDone
<1>. HIDE DEF passed, bad, none
<1>8. ASSUME NEW e, e \in {passed, bad, none}, Results(e) PROVE Recorded(s) /\ exec'.results[s] = e
  BY <1>1, <1>2, <1>7, <1>8, ResultIsRecorded
<1>9. \A u \in Steps : u # s => disk'[u] = disk[u] /\ origin'[u] = origin[u]
  BY <1>1, <1>6 DEF FilesTyped
<1>10. CASE Results(none) \/ Results(bad)
  <2>1. /\ Recorded(s) /\ ~IsDone(exec'.results[s]) /\ exec'.results[s].sha = 0
        /\ ~(exec'.results[s].attempt >= 1)
    BY <1>7, <1>8, <1>10
  <2>. QED
    BY <1>1, <1>2, <1>9, <2>1, ResultKeeps
<1>11. CASE Case2 /\ Conforms(s) /\ Results(passed)
  <2>1. /\ Recorded(s) /\ IsDone(exec'.results[s]) /\ exec'.results[s].sha = seen
        /\ ~(exec'.results[s].attempt >= 1) /\ exec'.results[s].inputs = inputs
    BY <1>7, <1>8, <1>11
  <2>2. t # s /\ disk'[t] = disk[t] /\ disk'[s] = disk[t] /\ disk[t] # 0 /\ Newest(t) \in Nat
        /\ Newest(t)' = Newest(t)
    <3>1. t # s /\ disk'[t] = disk[t] /\ origin'[t] = origin[t] /\ Newest(t) \in Nat
      BY <1>1, <1>2, <1>3, <1>9, FilesKeep
    <3>. QED
      BY <1>0, <1>1, <1>2, <1>11, <3>1 DEF FilesTyped, Newest
  <2>3. inputs[t] \in {0, seen} \/ Past(t, inputs[t])'
    <3>1. inputs[t] \in Nat /\ inputs[t] <= Newest(t)
      BY <1>0, <1>3, <1>4
    <3>. QED
      BY <1>0, <2>2, <3>1 DEF Past
  <2>4. Vouches(s, exec.results[s].inputs, exec.results[s].sha)'
    BY <1>0, <1>2, <1>3, <1>4, <2>1, <2>3 DEF Vouches, Covered
  <2>5. Stands(s)'
    BY <1>1, <1>2, <1>3, <1>5, <1>11, <2>2 DEF Stands, Conforms
  <2>. QED
    BY <1>1, <1>2, <1>4, <1>9, <2>1, <2>4, <2>5, ResultKeeps
<1>. QED
  BY <1>6, <1>10, <1>11


----------------------------------------------------------------------------
(* Workorders. *)

LEMMA GreatestNumber ==
  ASSUME NEW T \in SUBSET Nat, IsFiniteSet(T), T # {}
  PROVE  \E n \in T : \A m \in T : m <= n
<1>. DEFINE Bounded(s) == \E n \in s : \A m \in s : m <= n
            P == {s \in SUBSET T : s = {} \/ Bounded(s)}
<1>1. ASSUME NEW s \in SUBSET T, \A t \in SUBSET s : t # s => t \in P, s # {}
      PROVE  Bounded(s)
  <2>1. PICK x \in s : TRUE
    BY <1>1
  <2>2. s \ {x} \in P
    BY <1>1, <2>1
  <2>3. CASE s \ {x} = {}
    BY <2>1, <2>3
  <2>4. CASE Bounded(s \ {x})
    <3>1. PICK n \in s \ {x} : \A m \in s \ {x} : m <= n
      BY <2>4
    <3>2. n \in Nat /\ x \in Nat /\ n \in s
      BY <3>1
    <3>3. CASE x <= n
      BY <3>1, <3>2, <3>3
    <3>4. CASE n <= x
      <4>1. \A m \in s : m <= x
        BY <3>1, <3>2, <3>4
      <4>. QED
        BY <4>1
    <3>. QED
      BY <3>2, <3>3, <3>4
  <2>. QED
    BY <2>2, <2>3, <2>4
<1>2. P \in SUBSET (SUBSET T) /\ \A s \in SUBSET T : (\A t \in SUBSET s : t # s => t \in P) => s \in P
  BY <1>1
<1>. HIDE DEF P
<1>3. P = SUBSET T
  BY <1>2, SubsetsByInduction
<1>4. T \in P
  BY <1>3
<1>. QED
  BY <1>4 DEF P

\* The latest attempt is the greatest there is.
LEMMA LatestIs ==
  ASSUME OrdersTyped, NEW run, NEW s
  PROVE  /\ Attempts(run, s) \subseteq Nat /\ LatestAttempt(run, s) \in Nat
         /\ \A n \in Attempts(run, s) : n <= LatestAttempt(run, s)
         /\ IF Attempts(run, s) = {} THEN LatestAttempt(run, s) = 1 ELSE LatestAttempt(run, s) \in Attempts(run, s)
<1>. DEFINE K == {o \in DOMAIN orders : o[1] = run /\ o[2] = s}
            T == Attempts(run, s)
            third == [k \in K |-> k[3]]
<1>1. K \subseteq (Nat \ {0}) \X Producers \X Nat /\ IsFiniteSet(K)
  BY FS_Subset DEF OrdersTyped
<1>2. T = {k[3] : k \in K}
  BY DEF Attempts
<1>. HIDE DEF K, T
<1>3. T \subseteq Nat
  BY <1>1, <1>2
<1>4. IsFiniteSet(T)
  <2>1. third \in Surjection(K, T)
    BY <1>2 DEF Surjection
  <2>. QED
    BY <1>1, <2>1, FS_Surjection
<1>5. CASE T = {}
  BY <1>3, <1>5 DEF LatestAttempt, T
<1>6. CASE T # {}
  <2>1. \E n \in T : \A m \in T : m <= n
    BY <1>3, <1>4, <1>6, GreatestNumber
  <2>2. LatestAttempt(run, s) = CHOOSE n \in T : \A m \in T : m <= n
    BY <1>6 DEF LatestAttempt, T
  <2>3. LatestAttempt(run, s) \in T /\ \A m \in T : m <= LatestAttempt(run, s)
    BY <2>1, <2>2
  <2>. QED
    BY <1>3, <1>6, <2>3 DEF T
<1>. QED
  BY <1>5, <1>6

\* The workorder of a step, and what an earlier one of the same run was.
LEMMA KeyIs ==
  ASSUME PlanInv, ExecuteHandoff
  PROVE  \E s \in Steps : \E n \in Nat :
           /\ s = Current /\ exec.phase \in Doing /\ s \in Producers /\ Key(s) = <<exec.run, s, n>>
           /\ exec.run \in Nat \ {0}
           /\ ~mode.recovering => n >= 1
           /\ ~mode.recovering =>
                \A k \in DOMAIN orders : k[1] = exec.run /\ k[2] = s =>
                  k[3] <= n /\ (k[3] < n => k \in DOMAIN answers)
<1>1. /\ ExecTyped /\ RunHolds /\ OrdersTyped /\ OrdersHold /\ OneOpenOrder /\ exec.phase \in Doing
  BY DEF PlanInv, ExecHolds, ExecuteHandoff, Executes, Doing
<1>2. PICK s \in Steps : s = Current /\ Kind[s] = "tool"
  BY <1>1, CurrentIs DEF ExecuteHandoff, Executes
<1>. DEFINE n == HandoffAttempt(s)
            run == exec.run
            latest == LatestAttempt(run, s)
            prior == exec.prior.steps[s]
<1>3. Key(s) = <<run, s, n>> /\ run \in Nat \ {0} /\ exec.attempt \in Nat
  BY <1>1 DEF Key, RunHolds, ExecTyped, Doing
<1>4. /\ DOMAIN orders \subseteq (Nat \ {0}) \X Producers \X Nat /\ DOMAIN answers \subseteq DOMAIN orders
      /\ latest \in Nat
      /\ \A k \in DOMAIN orders : k[1] = run /\ k[2] = s => k[3] <= latest
      /\ \/ latest = 1 /\ \A k \in DOMAIN orders : ~(k[1] = run /\ k[2] = s)
         \/ <<run, s, latest>> \in DOMAIN orders
  <2>1. DOMAIN orders \subseteq (Nat \ {0}) \X Producers \X Nat /\ DOMAIN answers \subseteq DOMAIN orders
    BY <1>1 DEF OrdersTyped
  <2>2. \A k \in DOMAIN orders : k[1] = run /\ k[2] = s => k[3] \in Attempts(run, s)
    BY DEF Attempts
  <2>3. \A a \in Attempts(run, s) : <<run, s, a>> \in DOMAIN orders
    <3>1. SUFFICES ASSUME NEW k \in DOMAIN orders, k[1] = run, k[2] = s
                   PROVE  <<run, s, k[3]>> \in DOMAIN orders
      BY DEF Attempts
    <3>2. k = <<k[1], k[2], k[3]>>
      BY <2>1
    <3>. QED
      BY <3>1, <3>2
  <2>. HIDE DEF run
  <2>. QED
    BY <1>1, <2>1, <2>2, <2>3, LatestIs
<1>5. CASE mode.recovering
  <2>1. n = exec.attempt
    BY <1>5 DEF HandoffAttempt
  <2>. QED
    BY <1>1, <1>2, <1>3, <1>5, <2>1 DEF Producers
<1>6. CASE ~mode.recovering
  <2>. HIDE DEF latest
  <2>1. n = IF PriorFailed(s, latest) THEN latest + 1 ELSE latest
    BY <1>6 DEF HandoffAttempt, latest
  <2>2. latest >= 1
    BY <1>1, <1>4, <1>6 DEF OrdersHold
  <2>3. \A k \in DOMAIN orders : k[1] = run /\ k[2] = s /\ k[3] < latest => k \in DOMAIN answers
    <3>1. SUFFICES ASSUME NEW k \in DOMAIN orders, k[1] = run, k[2] = s, k[3] < latest
                   PROVE  k \in DOMAIN answers
      OBVIOUS
    <3>2. PICK l \in DOMAIN orders : l = <<run, s, latest>>
      BY <1>4, <3>1
    <3>3. l[1] = run /\ l[2] = s /\ l[3] = latest
      BY <3>2
    <3>. QED
      BY <1>1, <1>6, <3>1, <3>3 DEF OneOpenOrder
  \* If the latest failed it was answered.
  <2>4. ASSUME PriorFailed(s, latest), <<run, s, latest>> \in DOMAIN orders
        PROVE  <<run, s, latest>> \in DOMAIN answers
    <3>1. /\ prior.status = "failed" /\ prior.attempt >= latest /\ prior.attempt \in Nat
      BY <1>1, <2>4 DEF PriorFailed, ExecTyped, IsJournal, AreEntries, IsEntry
    <3>2. <<exec.prior.run, s, prior.attempt>> \in DOMAIN answers
      BY <1>1, <1>4, <2>2, <3>1 DEF RunHolds, FailuresAnswered
    <3>3. PICK k \in DOMAIN orders : k = <<exec.prior.run, s, prior.attempt>>
      BY <1>4, <3>2
    <3>4. k[1] = exec.prior.run /\ k[2] = s /\ k[3] = prior.attempt /\ k[1] # 0
      BY <1>4, <3>3
    <3>5. exec.prior.run = run
      BY <1>1, <3>4 DEF RunHolds, Doing
    <3>6. prior.attempt <= latest
      BY <1>4, <3>4, <3>5
    <3>. QED
      BY <1>4, <3>1, <3>2, <3>5, <3>6
  <2>. HIDE DEF run, prior
  <2>5. n \in Nat /\ n >= 1
    BY <1>4, <2>1, <2>2
  <2>6. ASSUME NEW k \in DOMAIN orders, k[1] = run, k[2] = s
        PROVE  k[3] <= n /\ (k[3] < n => k \in DOMAIN answers)
    <3>1. k = <<run, s, k[3]>> /\ k[3] \in Nat /\ k[3] <= latest
      BY <1>4, <2>6
    <3>2. CASE k[3] = latest
      BY <1>4, <2>1, <2>4, <3>1, <3>2
    <3>3. CASE k[3] < latest
      BY <1>4, <2>1, <2>3, <2>6, <3>1, <3>3
    <3>. QED
      BY <1>4, <3>1, <3>2, <3>3
  <2>. QED
    BY <1>1, <1>2, <1>3, <1>6, <2>5, <2>6 DEF Producers, run
<1>. QED
  BY <1>5, <1>6

\* What the table of orders keeps when the files move and nothing else happens to it.
LEMMA OrdersKeep ==
  ASSUME PlanInv, FilesMove, mode' = mode
  PROVE  /\ \A k \in DOMAIN orders :
              /\ k[2] \in Steps /\ Kind[k[2]] = "tool"
              /\ orders[k] \in [Covered(k[2]) -> Nat]
              /\ \A t \in Covered(k[2]) : orders[k][t] <= Newest(t) /\ orders[k][t] <= Newest(t)'
         /\ \A k \in DOMAIN work : \A inputs, sha :
              inputs = work[k].inputs /\ sha = work[k].sha => Vouches(k[2], inputs, sha)'
         /\ \A k \in DOMAIN answers : answers[k].ok => \A inputs, sha :
              inputs = answers[k].inputs /\ sha = answers[k].sha => Vouches(k[2], inputs, sha)'
<1>1. /\ FilesTyped /\ DiskHolds /\ OrdersTyped /\ OrdersHold
  BY DEF PlanInv
<1>2. \A k \in DOMAIN orders : k[2] \in Steps /\ Kind[k[2]] = "tool"
  BY <1>1 DEF OrdersTyped, Producers
<1>3. ASSUME NEW k \in DOMAIN orders, NEW t \in Covered(k[2])
      PROVE  orders[k][t] <= Newest(t) /\ orders[k][t] <= Newest(t)'
  <2>1. t \in Steps /\ orders[k][t] \in Nat /\ orders[k][t] <= Newest(t)
    BY <1>1, <1>2, PlanShape DEF OrdersHold
  <2>. QED
    BY <1>1, <2>1, FilesKeep
<1>4. \A k \in DOMAIN work : k[2] \in Steps /\ Vouches(k[2], work[k].inputs, work[k].sha)
  BY <1>1, <1>2 DEF OrdersTyped, OrdersHold
<1>5. \A k \in DOMAIN answers : /\ k[2] \in Steps
                                /\ answers[k].ok => Vouches(k[2], answers[k].inputs, answers[k].sha)
  BY <1>1, <1>2 DEF OrdersTyped, OrdersHold
<1>. QED
  BY <1>1, <1>2, <1>3, <1>4, <1>5, VouchesKeep DEF OrdersHold

LEMMA WorkUnchanged ==
  ASSUME PlanInv, FilesMove, mode' = mode, UNCHANGED <<orders, work, answers>>
  PROVE  OrdersTyped' /\ OrdersHold' /\ OneOpenOrder'
<1>1. OrdersTyped /\ OrdersHold /\ OneOpenOrder
  BY DEF PlanInv
<1>2. OrdersTyped' /\ OneOpenOrder'
  BY <1>1 DEF OrdersTyped, OneOpenOrder
<1>. QED
  BY <1>1, <1>2, OrdersKeep DEF OrdersHold, Covered

LEMMA HandoffKeeps ==
  ASSUME PlanInv, FilesMove, mode' = mode, ExecuteHandoff
  PROVE  ExecHolds' /\ OrdersTyped' /\ OrdersHold' /\ OneOpenOrder'
<1>1. /\ ExecTyped /\ DoingHolds /\ FilesTyped /\ DiskHolds /\ OrdersTyped /\ OrdersHold /\ OneOpenOrder
      /\ UNCHANGED files /\ answers' = answers /\ work' = work
  BY DEF PlanInv, ExecHolds, ExecuteHandoff
<1>2. PICK s \in Steps, n \in Nat :
           /\ s = Current /\ exec.phase \in Doing /\ s \in Producers /\ Key(s) = <<exec.run, s, n>>
           /\ exec.run \in Nat \ {0}
           /\ ~mode.recovering => n >= 1
           /\ ~mode.recovering =>
                \A k \in DOMAIN orders : k[1] = exec.run /\ k[2] = s =>
                  k[3] <= n /\ (k[3] < n => k \in DOMAIN answers)
  BY KeyIs
<1>3. PICK inputs, key : inputs = exec.inputs /\ key = Key(s)
  OBVIOUS
<1>4. /\ key = <<exec.run, s, n>> /\ key[1] = exec.run /\ key[2] = s /\ key[3] = n
      /\ key \in (Nat \ {0}) \X Producers \X Nat /\ Kind[s] = "tool"
  BY <1>2, <1>3 DEF Producers
<1>5. /\ \A t \in Covered(s) : IsDone(exec.results[t])
      /\ inputs \in [Covered(s) -> Nat] /\ \A t \in Covered(s) : inputs[t] <= Newest(t)
      /\ ~exec.touched => inputs = Digest(s)
  <2>1. \A t \in Deps[Current] \cup Source[Current] : IsDone(exec.results[t])
    BY <1>1, <1>2 DEF DoingHolds
  <2>. QED
    BY <1>1, <1>2, <1>3, <1>4, <2>1, InputsDone DEF DoingHolds
<1>. DEFINE outcome(status) == [Entry(status, inputs) EXCEPT !.attempt = key[3], !.order = key[1]]
            done == [outcome("completed") EXCEPT !.sha = disk[s]]
<1>6. \/ /\ key \notin DOMAIN answers /\ orders' = With(orders, key, inputs)
         /\ Results(outcome("pending_handoff"))
      \/ /\ key \in DOMAIN answers /\ orders' = orders
         /\ \/ Ingests(s, answers[key]) /\ Results(done)
            \/ Results(outcome("failed"))
  BY <1>2, <1>3 DEF ExecuteHandoff
<1>7. \A status \in {"pending_handoff", "failed"} :
        /\ IsEntry(outcome(status)) /\ ~IsDone(outcome(status)) /\ outcome(status).sha = 0
        /\ outcome(status).status = status /\ outcome(status).attempt = n
  <2>1. key[1] \in Nat /\ key[3] \in Nat /\ key[3] = n
    BY <1>2, <1>4
  <2>. QED
    BY <2>1 DEF Entry, Blank, IsEntry, Statuses, IsDone
<1>8. /\ IsEntry(done) /\ IsDone(done) /\ done.sha = disk[s] /\ done.inputs = inputs
      /\ done.status = "completed"
  <2>1. key[1] \in Nat /\ key[3] \in Nat /\ disk[s] \in Nat
    BY <1>1, <1>2, <1>4 DEF FilesTyped
  <2>. QED
    BY <2>1 DEF Entry, Blank, IsEntry, Statuses, IsDone
<1>. HIDE DEF outcome, done
<1>9. \A t \in Steps : disk'[t] = disk[t] /\ origin'[t] = origin[t]
  BY <1>1 DEF files
<1>10. ExecHolds'
  <2>1. CASE \/ key \notin DOMAIN answers /\ Results(outcome("pending_handoff"))
             \/ key \in DOMAIN answers /\ Results(outcome("failed"))
    <3>1. PICK status \in {"pending_handoff", "failed"} :
            Results(outcome(status)) /\ (status = "failed" => key \in DOMAIN answers)
      BY <2>1
    <3>2. Recorded(s) /\ exec'.results[s] = outcome(status)
      BY <1>1, <1>2, <1>7, <3>1, ResultIsRecorded
    <3>3. /\ ~IsDone(exec'.results[s]) /\ exec'.results[s].sha = 0
          /\ exec'.results[s].status = "failed" => <<exec.run, s, exec'.results[s].attempt>> \in DOMAIN answers
      BY <1>4, <1>7, <3>1, <3>2
    <3>. QED
      BY <1>1, <1>2, <1>9, <3>2, <3>3, ResultKeeps
  <2>2. CASE key \in DOMAIN answers /\ Ingests(s, answers[key]) /\ Results(done)
    <3>1. Recorded(s) /\ exec'.results[s] = done
      BY <1>1, <1>2, <1>8, <2>2, ResultIsRecorded
    <3>2. PICK sha : sha = disk[s]
      OBVIOUS
    <3>3. Vouches(s, inputs, sha)
      <4>1. answers[key].inputs = inputs /\ answers[key].ok /\ answers[key].sha = sha
        BY <1>3, <2>2, <3>2 DEF Ingests, Echoes
      <4>. QED
        BY <1>1, <1>4, <2>2, <4>1 DEF OrdersHold
    <3>4. Vouches(s, exec.results[s].inputs, exec.results[s].sha)'
      <4>1. Vouches(s, inputs, sha)'
        BY <1>1, <3>3, VouchesKeep
      <4>. QED
        BY <1>8, <3>1, <3>2, <4>1
    <3>5. ~exec.touched => Stands(s)'
      <4>1. ~exec.touched => Stands(s)
        BY <1>1, <1>2, <1>4, <1>5, <3>2, <3>3, InputsThere, VouchedStands
      <4>2. Digest(s)' = Digest(s)
        BY <1>1 DEF Digest, Covered, files
      <4>. QED
        BY <1>4, <1>9, <4>1, <4>2 DEF Stands
    <3>6. exec'.results[s].status # "failed" /\ IsDone(exec'.results[s])
      BY <1>8, <3>1
    <3>. QED
      BY <1>1, <1>2, <1>5, <1>9, <3>1, <3>4, <3>5, <3>6, ResultKeeps
  <2>. QED
    BY <1>6, <2>1, <2>2
<1>11. CASE orders' = orders
  BY <1>1, <1>11, <1>10, WorkUnchanged
<1>12. CASE key \notin DOMAIN answers /\ orders' = With(orders, key, inputs)
  <2>1. DOMAIN orders' = DOMAIN orders \cup {key} /\ orders'[key] = inputs
        /\ \A k \in DOMAIN orders : k # key => orders'[k] = orders[k]
    BY <1>12 DEF With
  <2>2. OrdersTyped'
    BY <1>1, <1>4, <2>1, FS_AddElement DEF OrdersTyped
  <2>3. OrdersHold'
    <3>1. ASSUME NEW k \in DOMAIN orders'
          PROVE  /\ ~mode.recovering => k[3] >= 1
                 /\ orders'[k] \in [Covered(k[2]) -> Nat]
                 /\ \A t \in Covered(k[2]) : orders'[k][t] <= Newest(t)'
      <4>1. CASE k = key
        <5>1. \A t \in Covered(s) : inputs[t] <= Newest(t)'
          BY <1>1, <1>5, <1>9, PlanShape DEF Newest
        <5>. QED
          BY <1>2, <1>4, <1>5, <2>1, <4>1, <5>1
      <4>2. CASE k # key
        <5>1. k \in DOMAIN orders /\ orders'[k] = orders[k]
          BY <2>1, <4>2
        <5>. QED
          BY <1>1, <5>1, OrdersKeep DEF OrdersHold
      <4>. QED
        BY <4>1, <4>2
    <3>. QED
      BY <1>1, <3>1, OrdersKeep DEF OrdersHold, Covered
  <2>4. OneOpenOrder'
    <3>1. SUFFICES ASSUME ~mode.recovering, NEW k \in DOMAIN orders', NEW l \in DOMAIN orders',
                          k[1] = l[1], k[2] = l[2], k[3] < l[3]
                   PROVE  k \in DOMAIN answers
      BY <1>1 DEF OneOpenOrder
    <3>2. CASE k = key
      <4>1. l # key /\ l \in DOMAIN orders /\ l[1] = exec.run /\ l[2] = s /\ l[3] \in Nat
        BY <1>1, <1>2, <1>4, <2>1, <3>1, <3>2 DEF OrdersTyped
      <4>. QED
        BY <1>2, <1>4, <3>1, <3>2, <4>1
    <3>3. CASE k # key /\ l = key
      BY <1>2, <1>4, <2>1, <3>1, <3>3
    <3>4. CASE k # key /\ l # key
      BY <1>1, <2>1, <3>1, <3>4 DEF OneOpenOrder
    <3>. QED
      BY <3>2, <3>3, <3>4
  <2>. QED
    BY <1>10, <2>2, <2>3, <2>4
<1>. QED
  BY <1>6, <1>11, <1>12

----------------------------------------------------------------------------
(* The other steps of the command, and of those beside it. *)

LEMMA AnswersGrow ==
  ASSUME PlanInv, [PlanNext]_planVars
  PROVE  DOMAIN answers \subseteq DOMAIN answers'
<1>1. CASE \/ \E k \in DOMAIN orders : AgentGivesUp(k)
           \/ \E k \in DOMAIN work : AgentReports(k)
  BY <1>1 DEF AgentGivesUp, AgentReports, With
<1>2. CASE \/ Start \/ Blocked \/ Unresolved \/ GateHolds \/ GatePasses \/ Reuse \/ Dispatch
           \/ Refuse \/ Collect \/ NewAttempt \/ CallExecutor \/ ExecutorFails \/ ExecutorContinues
           \/ ExecuteQC \/ ExecutorCompletes \/ AssemblyGate \/ (\E t \in Steps : ReadClip(t))
           \/ EncodeFails \/ Assemble
  BY <1>2 DEF Start, Blocked, Unresolved, GateHolds, GatePasses, Reuse, Dispatch, Refuse, Collect,
     NewAttempt, CallExecutor, ExecutorFails, ExecutorContinues, ExecuteQC, ExecutorCompletes,
     AssemblyGate, ReadClip, EncodeFails, Assemble, agents
<1>3. CASE \/ ExecuteHandoff \/ Checkpoint \/ CheckpointStates \/ CheckpointPause \/ Finish
           \/ RetryContent \/ Classify \/ Dies \/ Interrupted \/ DeadlinePasses
  BY <1>3 DEF ExecuteHandoff, Checkpoint, CheckpointStates, CheckpointPause, Finish,
     RetryContent, Classify, Dies, Interrupted, DeadlinePasses, agents
<1>4. CASE \/ \E k \in DOMAIN orders : AgentMakes(k)
           \/ \E s \in Reviewed \cap mode.steps : Review(s)
           \/ \E s \in {t \in mode.steps : Kind[t] # "qc"} : Edit(s)
  BY <1>4 DEF AgentMakes, Review, Edit, agents
<1>5. CASE UNCHANGED planVars
  BY <1>5 DEF planVars, agents
<1>. QED
  BY <1>1, <1>2, <1>3, <1>4, <1>5 DEF PlanNext, Command, Others

LEMMA IdleHolds ==
  ASSUME exec' = Idle
  PROVE  ExecHolds'
<1>1. \A s \in Steps : Entries[s] = Blank /\ IsEntry(Blank) /\ ~IsDone(Blank) /\ Blank.status = "none"
                       /\ Blank.sha = 0
  BY DEF Entries, Blank, IsEntry, Statuses, IsDone
<1>2. AreEntries(Entries) /\ EntriesVouch(Entries)' /\ \A run : FailuresAnswered(run, Entries)'
  <2>1. AreEntries(Entries)
    BY <1>1 DEF AreEntries, Entries
  <2>. QED
    BY <1>1, <2>1 DEF EntriesVouch, FailuresAnswered
<1>3. /\ DOMAIN Idle = Fields /\ Idle.phase = "off" /\ Idle.at = 0 /\ Idle.results = Entries
      /\ Idle.prior = NoJournal /\ Idle.run = 0 /\ Idle.attempt = 1
      /\ Idle.collects \in BOOLEAN /\ Idle.touched \in BOOLEAN /\ NoJournal.run = 0 /\ NoJournal.steps = Entries
      /\ DOMAIN NoJournal = {"run", "steps"}
  BY DEF Idle, NoJournal, Fields
<1>4. ExecTyped'
  <2>1. IsJournal(NoJournal) /\ Idle.phase \in Phases
    BY <1>2, <1>3 DEF IsJournal, Phases
  <2>. QED
    BY <1>2, <1>3, <2>1 DEF ExecTyped
<1>5. EntriesVouch(exec.results)' /\ EntriesVouch(exec.prior.steps)'
  BY <1>2, <1>3 DEF Entries
<1>6. RunHolds'
  BY <1>2, <1>3 DEF RunHolds, FailuresAnswered, Entries
<1>7. PlaceHolds' /\ DoingHolds' /\ DoneStands'
  BY <1>1, <1>3 DEF PlaceHolds, DoingHolds, DoneStands, Doing, Noting
<1>. QED
  BY <1>4, <1>5, <1>6, <1>7 DEF ExecHolds

\* A new pass takes over the journal.
LEMMA PassHolds ==
  ASSUME PlanInv, UNCHANGED <<mode, files, journal, answers>>, NEW base, DOMAIN base = Fields,
         base.attempt \in Nat, base.collects \in BOOLEAN, base.touched \in BOOLEAN,
         exec' = Pass(base)
  PROVE  ExecHolds'
<1>1. \A s \in Steps : Entries[s] = Blank /\ IsEntry(Blank) /\ ~IsDone(Blank) /\ Blank.status = "none"
                       /\ Blank.sha = 0
  BY DEF Entries, Blank, IsEntry, Statuses, IsDone
<1>2. /\ AreEntries(Entries) /\ DOMAIN NoJournal = {"run", "steps"} /\ NoJournal.run = 0
      /\ NoJournal.steps = Entries
  BY <1>1 DEF AreEntries, Entries, NoJournal
<1>. DEFINE prior == PriorOf(journal)
            run == RunOf(prior)
<1>3. /\ JournalHolds /\ FilesTyped /\ DiskHolds /\ usage.runs \in Nat
      /\ disk' = disk /\ origin' = origin /\ answers' = answers
  BY DEF PlanInv, UsedTyped, files
<1>4. /\ IsJournal(prior) /\ EntriesVouch(prior.steps) /\ FailuresAnswered(prior.run, prior.steps)
      /\ mode.runGiven => prior.run \in {0, 1}
  BY <1>1, <1>2, <1>3 DEF PriorOf, JournalHolds, IsJournal, EntriesVouch, FailuresAnswered
<1>5. run \in Nat /\ run >= 1 /\ (mode.runGiven => run = 1) /\ (prior.run # 0 => run = prior.run)
  <2>. HIDE DEF prior
  <2>1. prior.run \in Nat
    BY <1>4 DEF IsJournal
  <2>. QED
    BY <1>3, <1>4, <2>1 DEF RunOf
<1>6. /\ DOMAIN exec' = Fields /\ exec'.phase = "consider" /\ exec'.at = 1 /\ exec'.results = Entries
      /\ exec'.prior = prior /\ exec'.run = run /\ exec'.attempt = base.attempt
      /\ exec'.collects = base.collects /\ exec'.touched = base.touched
  BY DEF Pass, Fields
<1>. HIDE DEF prior, run
<1>7. ExecTyped'
  BY <1>2, <1>4, <1>5, <1>6 DEF ExecTyped, Phases
<1>8. EntriesVouch(exec.results)'
  BY <1>1, <1>6 DEF EntriesVouch
<1>9. EntriesVouch(exec.prior.steps)'
  <2>1. FilesMove
    BY <1>3 DEF FilesMove, files
  <2>. QED
    BY <1>3, <1>4, <1>6, <2>1, EntriesKeep DEF EntriesVouch
<1>10. RunHolds'
  <2>1. FailuresAnswered(exec.run, exec.results)'
    BY <1>1, <1>6 DEF FailuresAnswered
  <2>2. FailuresAnswered(exec.prior.run, exec.prior.steps)'
    BY <1>3, <1>4, <1>6 DEF FailuresAnswered
  <2>. QED
    BY <1>4, <1>5, <1>6, <2>1, <2>2 DEF RunHolds
<1>11. PlaceHolds' /\ DoingHolds' /\ DoneStands'
  BY <1>1, <1>6 DEF PlaceHolds, DoingHolds, DoneStands, Doing, Noting
<1>. QED
  BY <1>7, <1>8, <1>9, <1>10, <1>11 DEF ExecHolds

\* The command goes on without a new result.
LEMMA PhaseKeeps ==
  ASSUME PlanInv, UNCHANGED <<mode, files, answers>>, exec.phase # "off",
         DOMAIN exec' = Fields, exec'.phase \in Phases \ {"off"}, exec'.at \in Nat,
         exec'.at = exec.at \/ (exec'.at = exec.at + 1 /\ exec'.phase \notin Doing \cup Noting),
         exec'.results = exec.results, exec'.prior = exec.prior, exec'.run = exec.run,
         exec'.touched = exec.touched, exec'.attempt \in Nat, exec'.collects \in BOOLEAN,
         exec.phase \in Noting => exec'.phase \in Noting \/ exec'.at = exec.at + 1,
         exec'.phase \in Doing \cup Noting => exec.at <= Len(StepOrder),
         DoingHolds'
  PROVE  ExecHolds'
<1>1. /\ FilesTyped /\ DiskHolds /\ mode \in Modes /\ ExecTyped /\ EntriesVouch(exec.results)
      /\ EntriesVouch(exec.prior.steps) /\ RunHolds /\ PlaceHolds /\ DoneStands
      /\ disk' = disk /\ origin' = origin /\ answers' = answers /\ mode' = mode
  BY DEF PlanInv, ExecHolds, files
<1>2. ExecTyped'
  BY <1>1 DEF ExecTyped
<1>3. EntriesVouch(exec.results)' /\ EntriesVouch(exec.prior.steps)'
  <2>1. FilesMove
    BY <1>1 DEF FilesMove, files
  <2>. QED
    BY <1>1, <2>1, EntriesKeep DEF EntriesVouch
<1>4. RunHolds'
  BY <1>1 DEF RunHolds, FailuresAnswered
<1>5. PlaceHolds'
  <2>1. StepOrder' = StepOrder
    BY <1>1 DEF StepOrder
  <2>2. \A s \in Steps : Visited(s) => Visited(s)'
    BY <1>1, <2>1, OrderIs DEF Visited, ExecTyped
  <2>3. exec.at \in Nat /\ Len(StepOrder) \in Nat /\ exec.at >= 1
    BY <1>1, OrderIs DEF PlaceHolds, ExecTyped
  <2>. QED
    BY <1>1, <2>1, <2>2, <2>3 DEF PlaceHolds, Covered
<1>6. DoneStands'
  BY <1>1 DEF DoneStands, Stands, Conforms, Digest, Covered
<1>. QED
  BY <1>2, <1>3, <1>4, <1>5, <1>6 DEF ExecHolds

\* Somebody else wrote a file.
LEMMA TouchKeeps ==
  ASSUME PlanInv, FilesMove, UNCHANGED <<mode, answers>>, NEW u, Touches(u)
  PROVE  ExecHolds'
<1>1. /\ FilesTyped /\ DiskHolds /\ mode \in Modes /\ ExecTyped /\ EntriesVouch(exec.results)
      /\ EntriesVouch(exec.prior.steps) /\ RunHolds /\ PlaceHolds /\ DoneStands /\ DoingHolds
  BY DEF PlanInv, ExecHolds
<1>2. CASE exec.phase = "off"
  <2>1. exec = Idle
    BY <1>1, <1>2 DEF PlaceHolds
  <2>2. exec' = Idle
    BY <1>2, <2>1 DEF Touches, Overtakes, Passed, Running, Idle
  <2>. QED
    BY <2>2, IdleHolds
<1>3. CASE exec.phase # "off"
  <2>1. /\ DOMAIN exec' = Fields /\ exec'.phase = exec.phase /\ exec'.at = exec.at
        /\ exec'.results = exec.results /\ exec'.prior = exec.prior /\ exec'.run = exec.run
        /\ exec'.inputs = exec.inputs /\ exec'.attempt = exec.attempt
        /\ exec'.collects = exec.collects /\ exec'.touched = TRUE
    BY <1>1, <1>3 DEF Touches, Running, Fields, ExecTyped
  <2>2. ExecTyped'
    BY <1>1, <2>1 DEF ExecTyped
  <2>3. EntriesVouch(exec.results)' /\ EntriesVouch(exec.prior.steps)'
    BY <1>1, <2>1, EntriesKeep DEF EntriesVouch
  <2>4. RunHolds'
    BY <1>1, <2>1 DEF RunHolds, FailuresAnswered
  <2>5. StepOrder' = StepOrder /\ Current' = Current
    BY <2>1 DEF StepOrder, Current
  <2>6. PlaceHolds'
    BY <1>1, <1>3, <2>1, <2>5 DEF PlaceHolds, Visited, Covered
  <2>7. DoingHolds'
    <3>1. SUFFICES ASSUME exec.phase \in Doing
                   PROVE  \A t \in Covered(Current) : exec.inputs[t] <= Newest(t)'
      BY <1>1, <2>1, <2>5 DEF DoingHolds, Covered
    <3>2. \A t \in Covered(Current) : t \in Steps /\ exec.inputs[t] <= Newest(t) /\ exec.inputs[t] \in Nat
      BY <1>1, <3>1, CurrentIs, PlanShape DEF DoingHolds
    <3>. QED
      BY <1>1, <3>2, FilesKeep
  <2>8. DoneStands'
    BY <2>1 DEF DoneStands
  <2>. QED
    BY <2>2, <2>3, <2>4, <2>6, <2>7, <2>8 DEF ExecHolds
<1>. QED
  BY <1>2, <1>3

\* Somebody reviewed a shot.
LEMMA ReviewIs ==
  ASSUME ExecTyped, NEW u, Review(u)
  PROVE  /\ UNCHANGED <<mode, files, answers, orders, work, journal, recovery, sent, usage>>
         /\ \E overtaken : exec' = [exec EXCEPT !.overtaken = overtaken]
         /\ \A p \in DOMAIN reviews : p # u => reviews'[p] = reviews[p]
         /\ reviews' = reviews \/ (Passed => u \in exec'.overtaken)
         /\ Passed => exec.overtaken \subseteq exec'.overtaken
<1>1. PICK overtaken :
        /\ exec' = [exec EXCEPT !.overtaken = overtaken]
        /\ overtaken = IF reviews' = reviews THEN exec.overtaken ELSE Overtakes(u)
  BY DEF Review, ExecTyped, Fields
<1>2. exec'.overtaken = overtaken
  BY <1>1 DEF ExecTyped, Fields
<1>3. UNCHANGED <<mode, files, answers, orders, work, journal, recovery, sent, usage>>
  BY DEF Review
<1>4. \A p \in DOMAIN reviews : p # u => reviews'[p] = reviews[p]
  BY DEF Review
<1>5. Passed => Overtakes(u) = exec.overtaken \cup {u}
  BY DEF Overtakes
<1>6. Passed => exec.overtaken \subseteq overtaken /\ (reviews' = reviews \/ u \in overtaken)
  BY <1>1, <1>5
<1>. QED
  BY <1>1, <1>2, <1>3, <1>4, <1>6

LEMMA NothingRunKeeps ==
  ASSUME PlanInv, UNCHANGED <<mode, files>>, DOMAIN answers \subseteq DOMAIN answers',
         exec' = exec \/ \E u : Review(u)
  PROVE  ExecHolds'
<1>0. /\ FilesTyped /\ DiskHolds /\ ExecTyped /\ EntriesVouch(exec.results)
      /\ EntriesVouch(exec.prior.steps) /\ RunHolds /\ PlaceHolds /\ DoneStands /\ DoingHolds
      /\ disk' = disk /\ origin' = origin /\ mode' = mode
  BY DEF PlanInv, ExecHolds, files
<1>01. /\ DOMAIN exec' = Fields /\ exec'.phase = exec.phase /\ exec'.at = exec.at
       /\ exec'.results = exec.results /\ exec'.prior = exec.prior /\ exec'.run = exec.run
       /\ exec'.inputs = exec.inputs /\ exec'.attempt = exec.attempt
       /\ exec'.collects = exec.collects /\ exec'.touched = exec.touched
  <2>1. exec' = exec \/ \E overtaken : exec' = [exec EXCEPT !.overtaken = overtaken]
    BY <1>0, ReviewIs
  <2>. QED
    BY <1>0, <2>1 DEF ExecTyped, Fields
<1>02. exec.phase = "off" => exec' = exec
  <2>. SUFFICES ASSUME exec.phase = "off", NEW u, Review(u) PROVE exec' = exec
    OBVIOUS
  <2>1. exec' = [exec EXCEPT !.overtaken = exec.overtaken]
    BY DEF Review, Overtakes, Passed
  <2>2. exec = Idle
    BY <1>0 DEF PlaceHolds
  <2>. QED
    BY <2>1, <2>2 DEF Idle
<1>1. /\ FilesTyped /\ DiskHolds /\ ExecTyped /\ EntriesVouch(exec.results)
      /\ EntriesVouch(exec.prior.steps) /\ RunHolds /\ PlaceHolds /\ DoneStands /\ DoingHolds
      /\ disk' = disk /\ origin' = origin /\ mode' = mode
  BY <1>0
<1>2. ExecTyped' /\ PlaceHolds'
  BY <1>1, <1>01, <1>02 DEF ExecTyped, PlaceHolds, Visited, StepOrder
<1>3. DoingHolds'
  BY <1>1, <1>01 DEF DoingHolds, Current, StepOrder, Digest, Covered, Newest
<1>4. DoneStands'
  BY <1>1, <1>01 DEF DoneStands, Stands, Conforms, Digest, Covered
<1>5. RunHolds'
  BY <1>1, <1>01 DEF RunHolds, FailuresAnswered
<1>6. EntriesVouch(exec.results)' /\ EntriesVouch(exec.prior.steps)'
  <2>1. FilesMove
    BY <1>1 DEF FilesMove, files
  <2>. QED
    BY <1>1, <1>01, <2>1, EntriesKeep DEF EntriesVouch
<1>. QED
  BY <1>2, <1>3, <1>4, <1>5, <1>6 DEF ExecHolds

\* The step at hand is gone into, by a gate or by its dispatch.
LEMMA DispatchKeeps ==
  ASSUME PlanInv, mode' = mode, GatePasses \/ Dispatch
  PROVE  ExecHolds'
<1>0. /\ UNCHANGED <<files, answers>> /\ FilesTyped /\ DiskHolds /\ ExecTyped /\ DoingHolds /\ GatedHolds
      /\ exec.phase = "gated" \/ Ready
  BY DEF GatePasses, Dispatch, Compares, agents, PlanInv, ExecHolds
<1>1. /\ exec.phase \in Doing \/ AtStep
      /\ exec.phase \in {"gated", "consider"}
      /\ \A t \in Deps[Current] \cup Source[Current] : IsDone(exec.results[t])
  <2>1. CASE exec.phase = "gated"
    BY <1>0, <2>1 DEF DoingHolds, Doing
  <2>2. CASE Ready
    BY <2>2 DEF Ready, Unblocked, AtStep, Resolved
  <2>. QED
    BY <1>0, <2>1, <2>2
<1>2. PICK s \in Steps : s = Current
  BY <1>1, CurrentIs
<1>3. exec.at <= Len(StepOrder)
  <2>1. mode \in Modes
    BY DEF PlanInv
  <2>2. exec.at \in 1..Len(StepOrder) /\ Len(StepOrder) \in Nat
    BY <1>1, <2>1, CurrentIs, OrderIs
  <2>. QED
    BY <2>2
<1>. DEFINE inputs == Inputs(s)
<1>4. /\ inputs \in [Covered(s) -> Nat] /\ \A t \in Covered(s) : inputs[t] <= Newest(t)
      /\ ~exec.touched => inputs = Digest(s)
  <2>1. CASE exec.phase = "gated"
    BY <1>0, <1>2, <2>1 DEF Inputs, DoingHolds, Doing
  <2>2. CASE exec.phase # "gated"
    <3>1. FilesMove
      BY <1>0 DEF FilesMove
    <3>. QED
      BY <1>0, <2>2, <3>1, DigestIs, FilesKeep, PlanShape DEF Inputs
  <2>. QED
    BY <2>1, <2>2
<1>5. GatePasses => exec.phase # "gated"
  BY DEF GatePasses, Ready, Unblocked, AtStep
<1>6. PICK phase, collects, overtaken :
        /\ exec' = [exec EXCEPT !.inputs = inputs, !.collects = collects, !.phase = phase,
                                !.overtaken = overtaken]
        /\ phase \in {"gated", "intent", "execute"} /\ collects \in BOOLEAN
        /\ phase = "intent" => mode.recovering
  <2>1. CASE GatePasses
    <3>1. exec' = [exec EXCEPT !.inputs = inputs, !.collects = exec.collects, !.phase = "gated",
                               !.overtaken = {}]
      BY <1>0, <1>2, <1>5, <2>1 DEF GatePasses, Inputs, ExecTyped, Fields
    <3>2. PICK collects, overtaken : collects = exec.collects /\ overtaken = {}
      OBVIOUS
    <3>3. /\ collects \in BOOLEAN
          /\ exec' = [exec EXCEPT !.inputs = inputs, !.collects = collects, !.phase = "gated",
                                  !.overtaken = overtaken]
      BY <1>0, <3>1, <3>2 DEF ExecTyped
    <3>4. PICK phase : phase = "gated"
      OBVIOUS
    <3>5. phase \in {"gated", "intent", "execute"} /\ (phase = "intent" => mode.recovering)
      BY <3>4
    <3>6. exec' = [exec EXCEPT !.inputs = inputs, !.collects = collects, !.phase = phase,
                               !.overtaken = overtaken]
      BY <3>3, <3>4
    <3>. HIDE DEF inputs
    <3>. QED
      BY <3>3, <3>5, <3>6, Zenon
  <2>2. CASE Dispatch
    <3>1. PICK phase \in {"intent", "execute"} :
            /\ exec' = [exec EXCEPT !.inputs = inputs, !.collects = FALSE, !.phase = phase]
            /\ phase = "intent" => mode.recovering
      BY <1>2, <2>2 DEF Dispatch
    <3>2. exec' = [exec EXCEPT !.inputs = inputs, !.collects = FALSE, !.phase = phase,
                               !.overtaken = exec.overtaken]
      BY <1>0, <3>1 DEF ExecTyped, Fields
    <3>. QED
      BY <3>1, <3>2
  <2>. QED
    BY <2>1, <2>2
<1>. HIDE DEF inputs
<1>7. /\ DOMAIN exec' = Fields /\ exec'.phase = phase
      /\ exec'.at = exec.at /\ exec'.results = exec.results /\ exec'.prior = exec.prior
      /\ exec'.run = exec.run /\ exec'.touched = exec.touched /\ exec'.attempt = exec.attempt
      /\ exec'.collects \in BOOLEAN /\ exec'.inputs = inputs
  BY <1>0, <1>6 DEF ExecTyped, Fields
<1>8. disk' = disk /\ origin' = origin /\ Current' = Current
  BY <1>0, <1>7 DEF files, Current, StepOrder
<1>9. Digest(s)' = Digest(s) /\ Covered(s)' = Covered(s) /\ \A t \in Steps : Newest(t)' = Newest(t)
  BY <1>8 DEF Digest, Covered, Newest
<1>10. DoingHolds'
  BY <1>1, <1>2, <1>4, <1>6, <1>7, <1>8, <1>9, PlanShape DEF DoingHolds
<1>11. /\ exec'.phase \in Phases \ {"off"} /\ exec'.phase \notin Noting
       /\ exec.phase # "off" /\ exec.phase \notin Noting /\ exec'.at \in Nat /\ exec'.attempt \in Nat
  BY <1>0, <1>1, <1>6, <1>7 DEF Phases, Doing, Noting, ExecTyped
<1>. QED
  BY <1>0, <1>3, <1>7, <1>10, <1>11, PhaseKeeps

\* An assembly is encoded.
LEMMA EncodingKeeps ==
  ASSUME PlanInv, mode' = mode, (AssemblyGate /\ GateOpen(Current)) \/ \E t \in Steps : ReadClip(t)
  PROVE  ExecHolds'
<1>1. /\ exec.phase \in {"execute", "encode"} /\ UNCHANGED <<files, answers>> /\ ExecTyped /\ DoingHolds
  BY DEF AssemblyGate, ReadClip, Encodes, Executes, agents, PlanInv, ExecHolds
<1>2. Current \in Steps /\ exec.at <= Len(StepOrder)
  BY <1>1, CurrentIs DEF PlanInv, ExecHolds, PlaceHolds, Doing
<1>3. PICK reel, overtaken :
        exec' = [exec EXCEPT !.phase = "encode", !.reel = reel, !.overtaken = overtaken]
  <2>1. CASE AssemblyGate /\ GateOpen(Current)
    BY <2>1 DEF AssemblyGate
  <2>2. CASE \E t \in Steps : ReadClip(t)
    <3>1. PICK t \in Steps : ReadClip(t)
      BY <2>2
    <3>2. exec' = [exec EXCEPT !.phase = "encode", !.reel = With(exec.reel, t, disk[t]),
                               !.overtaken = exec.overtaken]
      BY <1>1, <3>1 DEF ReadClip, Encodes, ExecTyped, Fields
    <3>. QED
      BY <3>2
  <2>. QED
    BY <2>1, <2>2
<1>4. /\ DOMAIN exec' = Fields /\ exec'.at = exec.at /\ exec'.results = exec.results
      /\ exec'.prior = exec.prior /\ exec'.run = exec.run /\ exec'.touched = exec.touched
      /\ exec'.inputs = exec.inputs /\ exec'.phase = "encode"
      /\ exec'.attempt \in Nat /\ exec'.collects \in BOOLEAN
  BY <1>1, <1>3 DEF ExecTyped, Fields
<1>5. disk' = disk /\ origin' = origin /\ Current' = Current
  BY <1>1, <1>4 DEF files, Current, StepOrder
<1>6. Digest(Current)' = Digest(Current) /\ Covered(Current)' = Covered(Current)
      /\ \A t \in Steps : Newest(t)' = Newest(t)
  BY <1>5 DEF Digest, Covered, Newest
<1>7. exec.phase \in Doing
  BY <1>1 DEF Doing
<1>8. DoingHolds'
  BY <1>1, <1>2, <1>4, <1>5, <1>6, <1>7, PlanShape DEF DoingHolds
<1>9. /\ exec'.phase \in Phases \ {"off"} /\ exec'.phase \notin Noting /\ exec.phase \notin Noting
      /\ exec.phase # "off" /\ exec'.at \in Nat
  BY <1>1, <1>4 DEF Phases, Doing, Noting, ExecTyped
<1>. QED
  BY <1>1, <1>2, <1>4, <1>8, <1>9, PhaseKeeps

LEMMA AttemptKeeps ==
  ASSUME PlanInv, mode' = mode, Collect \/ NewAttempt \/ CallExecutor
  PROVE  ExecHolds'
<1>1. /\ exec.phase \in Doing /\ UNCHANGED <<files, answers>> /\ ExecTyped /\ DoingHolds
      /\ RecoveryTyped
  BY DEF Collect, NewAttempt, CallExecutor, AtIntent, Executes, Doing, agents, PlanInv, ExecHolds
<1>2. Current \in Steps /\ exec.at <= Len(StepOrder)
  BY <1>1, CurrentIs DEF PlanInv, ExecHolds, PlaceHolds
<1>3. recovery.steps[Current].attempt \in Nat
  BY <1>1, <1>2 DEF RecoveryTyped
<1>4. /\ DOMAIN exec' = Fields /\ exec'.at = exec.at /\ exec'.results = exec.results
      /\ exec'.prior = exec.prior /\ exec'.run = exec.run /\ exec'.touched = exec.touched
      /\ exec'.inputs = exec.inputs
  BY <1>1 DEF Collect, NewAttempt, CallExecutor, ExecTyped, Fields
<1>5. exec'.attempt \in Nat /\ exec'.collects \in BOOLEAN
  <2>1. /\ DOMAIN exec = Fields /\ exec.attempt \in Nat /\ exec.collects \in BOOLEAN
    BY <1>1 DEF ExecTyped
  <2>2. CASE Collect
    <3>1. exec'.attempt = recovery.steps[Current].attempt /\ exec'.collects \in BOOLEAN
      BY <2>1, <2>2 DEF Collect, Fields
    <3>. QED
      BY <1>3, <3>1
  <2>3. CASE NewAttempt
    <3>1. /\ exec'.attempt = recovery.steps[Current].attempt + 1 /\ exec'.collects = exec.collects
      BY <2>1, <2>3 DEF NewAttempt, Fields
    <3>. QED
      BY <1>3, <2>1, <3>1
  <2>4. CASE CallExecutor
    <3>1. exec'.attempt = exec.attempt /\ exec'.collects = exec.collects
      BY <2>1, <2>4 DEF CallExecutor, Fields
    <3>. QED
      BY <2>1, <3>1
  <2>. QED
    BY <2>2, <2>3, <2>4
<1>6. \/ exec'.phase = "execute" \/ (exec'.phase = "await" /\ Kind[Current] = "tool")
  BY <1>1 DEF Collect, NewAttempt, CallExecutor, Executes, ExecTyped, Fields
<1>7. disk' = disk /\ origin' = origin /\ Current' = Current
  BY <1>1, <1>4 DEF files, Current, StepOrder
<1>8. Digest(Current)' = Digest(Current) /\ Covered(Current)' = Covered(Current)
      /\ \A t \in Steps : Newest(t)' = Newest(t)
  BY <1>7 DEF Digest, Covered, Newest
<1>9. DoingHolds'
  BY <1>1, <1>2, <1>4, <1>6, <1>7, <1>8, PlanShape DEF DoingHolds
<1>10. /\ exec'.phase \in Phases \ {"off"} /\ exec'.phase \notin Noting /\ exec.phase \notin Noting
       /\ exec.phase # "off" /\ exec'.at \in Nat
  BY <1>1, <1>4, <1>6 DEF Phases, Doing, Noting, ExecTyped
<1>. QED
  BY <1>1, <1>2, <1>4, <1>5, <1>9, <1>10, PhaseKeeps

LEMMA NotingKeeps ==
  ASSUME PlanInv, mode' = mode,
         Checkpoint \/ CheckpointStates \/ CheckpointPause \/ (Finish /\ mode.recovering)
  PROVE  ExecHolds'
<1>1. /\ exec.phase \in Noting \cup {"consider"} /\ UNCHANGED <<files, answers>> /\ ExecTyped
      /\ exec.phase \in Noting => exec.at <= Len(StepOrder)
  BY DEF Checkpoint, CheckpointStates, CheckpointPause, Finish, AtEnd, Noting, agents, PlanInv, ExecHolds,
     PlaceHolds
<1>2. /\ DOMAIN exec' = Fields /\ exec'.results = exec.results
      /\ exec'.prior = exec.prior /\ exec'.run = exec.run /\ exec'.touched = exec.touched
      /\ exec'.attempt = exec.attempt /\ exec'.collects = exec.collects
  BY <1>1 DEF Checkpoint, CheckpointStates, CheckpointPause, Finish, ExecTyped, Fields
<1>3. \/ exec.phase \in Noting /\ exec'.phase \in Noting /\ exec'.at = exec.at
      \/ exec.phase \in Noting /\ exec'.phase = "consider" /\ exec'.at = exec.at + 1
      \/ exec.phase = "consider" /\ exec'.phase = "classify" /\ exec'.at = exec.at
  BY <1>1 DEF Checkpoint, CheckpointStates, CheckpointPause, Finish, AtEnd, ExecTyped, Fields, Noting
<1>4. /\ exec'.phase \in Phases \ {"off"} /\ exec'.phase \notin Doing /\ exec.phase # "off"
      /\ exec'.at \in Nat
      /\ exec'.phase \in Noting => exec.phase \in Noting
      /\ exec.phase \in Noting => exec'.phase \in Noting \/ exec'.at = exec.at + 1
      /\ exec'.at = exec.at \/ (exec'.at = exec.at + 1 /\ exec'.phase \notin Doing \cup Noting)
  BY <1>1, <1>3 DEF Phases, Doing, Noting, ExecTyped
<1>5. DoingHolds'
  BY <1>4 DEF DoingHolds
<1>6. exec'.attempt \in Nat /\ exec'.collects \in BOOLEAN
  BY <1>1, <1>2 DEF ExecTyped
<1>. QED
  BY <1>1, <1>2, <1>4, <1>5, <1>6, PhaseKeeps

LEMMA ExecKeeps ==
  ASSUME PlanInv, [PlanNext]_planVars
  PROVE  ExecHolds'
<1>1. FilesMove /\ mode' = mode /\ DOMAIN answers \subseteq DOMAIN answers' /\ ExecTyped
  BY StepMovesFiles, AnswersGrow DEF PlanInv, ExecHolds
<1>2. CASE \/ Blocked \/ Unresolved \/ GateHolds \/ Refuse \/ ExecutorFails \/ ExecutorContinues
           \/ (AssemblyGate /\ ~GateOpen(Current)) \/ EncodeFails
  BY <1>1, <1>2, FailureKeeps
<1>3. CASE Reuse \/ ExecuteQC \/ ExecutorCompletes \/ Assemble \/ ExecuteHandoff
  BY <1>1, <1>3, ReuseKeeps, CheckKeeps, CompletionKeeps, AssembleKeeps, HandoffKeeps
<1>4. CASE \/ GatePasses \/ Dispatch \/ Collect \/ NewAttempt \/ CallExecutor
           \/ (AssemblyGate /\ GateOpen(Current)) \/ \E t \in Steps : ReadClip(t)
  BY <1>1, <1>4, DispatchKeeps, AttemptKeeps, EncodingKeeps
<1>5. CASE Checkpoint \/ CheckpointStates \/ CheckpointPause \/ (Finish /\ mode.recovering)
  BY <1>1, <1>5, NotingKeeps
<1>6. CASE (Finish /\ ~mode.recovering) \/ Classify \/ Dies \/ Interrupted
  BY <1>6, IdleHolds DEF Finish, Classify, Dies, Interrupted
<1>7. CASE Start
  <2>1. UNCHANGED <<mode, files, journal, answers>> /\ exec' = Pass(Idle)
    BY <1>7 DEF Start, agents
  <2>2. DOMAIN Idle = Fields /\ Idle.attempt \in Nat /\ Idle.collects \in BOOLEAN /\ Idle.touched \in BOOLEAN
    BY DEF Idle, Fields
  <2>. QED
    BY <2>1, <2>2, PassHolds
<1>8. CASE RetryContent
  <2>1. UNCHANGED <<mode, files, journal, answers>> /\ exec' = Pass(exec)
    BY <1>8 DEF RetryContent, agents
  <2>2. DOMAIN exec = Fields /\ exec.attempt \in Nat /\ exec.collects \in BOOLEAN /\ exec.touched \in BOOLEAN
    BY <1>1 DEF ExecTyped
  <2>3. PICK base : base = exec
    OBVIOUS
  <2>. QED
    BY <2>1, <2>2, <2>3, PassHolds
<1>9. CASE \/ \E k \in DOMAIN orders : AgentMakes(k)
           \/ \E s \in {t \in mode.steps : Kind[t] # "qc"} : Edit(s)
  <2>1. (\E u : Touches(u)) /\ answers' = answers
    BY <1>9 DEF AgentMakes, Edit, agents
  <2>. QED
    BY <1>1, <2>1, TouchKeeps
<1>10. CASE \/ DeadlinePasses \/ UNCHANGED planVars
            \/ \E k \in DOMAIN orders : AgentGivesUp(k)
            \/ \E k \in DOMAIN work : AgentReports(k)
            \/ \E s \in Reviewed \cap mode.steps : Review(s)
  <2>1. UNCHANGED files /\ (exec' = exec \/ \E u : Review(u))
    BY <1>10 DEF DeadlinePasses, planVars, files, AgentGivesUp, AgentReports, Review
  <2>. QED
    BY <1>1, <2>1, NothingRunKeeps
<1>. QED
  BY <1>2, <1>3, <1>4, <1>5, <1>6, <1>7, <1>8, <1>9, <1>10 DEF PlanNext, Command, Others

\* An agent makes what a workorder asks for.
LEMMA MakingKeeps ==
  ASSUME PlanInv, FilesMove, mode' = mode, NEW k \in DOMAIN orders, AgentMakes(k)
  PROVE  OrdersTyped' /\ OrdersHold' /\ OneOpenOrder'
<1>1. /\ OrdersTyped /\ OrdersHold /\ OneOpenOrder /\ FilesTyped /\ DiskHolds
      /\ orders' = orders /\ answers' = answers
  BY DEF PlanInv, AgentMakes
<1>2. /\ k[2] \in Steps /\ Kind[k[2]] = "tool" /\ orders[k] \in [Covered(k[2]) -> Nat]
      /\ \A t \in Covered(k[2]) : orders[k][t] <= Newest(t)
  BY OrdersKeep
<1>3. PICK good \in BOOLEAN : Write(k[2], Made(k[2], good, FALSE))
  BY DEF AgentMakes
<1>4. PICK inputs, sha : inputs = orders[k] /\ sha = disk'[k[2]]
  OBVIOUS
<1>5. Vouches(k[2], inputs, sha)'
  <2>1. PICK s \in Steps : s = k[2]
    BY <1>2
  <2>2. PICK c \in Contents(s) : c.from = Digest(s) /\ ~c.foreign /\ Write(s, c)
    <3>1. \A foreign \in BOOLEAN : Made(s, good, foreign) \in Contents(s)
                                   /\ Made(s, good, foreign).from = Digest(s)
                                   /\ Made(s, good, foreign).foreign = foreign
      BY <1>1, MadeIs
    <3>. QED
      BY <1>3, <2>1, <3>1
  <2>3. Vouches(s, inputs, disk[s])'
    <3>1. /\ inputs \in [Covered(s) -> Nat] /\ Covered(s) \in SUBSET Steps
          /\ \A t \in Covered(s) : inputs[t] \in Nat /\ inputs[t] <= Newest(t)
      BY <1>2, <1>4, <2>1, PlanShape
    <3>2. \A t \in Covered(s) : inputs[t] \in {0, disk[t]} \/ Past(t, inputs[t])
      BY <1>1, <3>1, InputsArePast
    <3>3. \A t \in Covered(s) : Digest(s)[t] = disk[t]
      BY <1>1, DigestIs
    <3>. QED
      BY <1>1, <1>2, <2>1, <2>2, <3>1, <3>2, <3>3, WrittenVouches
  <2>. QED
    BY <1>4, <2>1, <2>3
<1>6. work' = With(work, k, [inputs |-> inputs, sha |-> sha, ok |-> TRUE])
  BY <1>4 DEF AgentMakes
<1>7. /\ DOMAIN work' = DOMAIN work \cup {k} /\ work'[k].inputs = inputs /\ work'[k].sha = sha
      /\ \A l \in DOMAIN work : l # k => work'[l] = work[l]
  BY <1>6 DEF With
<1>8. OrdersTyped' /\ OneOpenOrder'
  BY <1>1, <1>7 DEF OrdersTyped, OneOpenOrder
<1>9. ASSUME NEW l \in DOMAIN work' PROVE Vouches(l[2], work[l].inputs, work[l].sha)'
  <2>1. CASE l = k
    BY <1>5, <1>7, <2>1
  <2>2. CASE l # k
    BY <1>7, <2>2, OrdersKeep
  <2>. QED
    BY <2>1, <2>2
<1>. QED
  BY <1>1, <1>8, <1>9, OrdersKeep DEF OrdersHold, Covered

\* An agent reports what it made, or that it made nothing.
LEMMA AnswerKeeps ==
  ASSUME PlanInv, FilesMove, mode' = mode, NEW k, NEW answer,
         k \in DOMAIN orders, orders' = orders, answers' = With(answers, k, answer),
         DOMAIN work' \subseteq DOMAIN work, \A l \in DOMAIN work' : work'[l] = work[l],
         answer.ok => k \in DOMAIN work /\ answer = work[k]
  PROVE  OrdersTyped' /\ OrdersHold' /\ OneOpenOrder'
<1>1. OrdersTyped /\ OrdersHold /\ OneOpenOrder
  BY DEF PlanInv
<1>2. /\ DOMAIN answers' = DOMAIN answers \cup {k} /\ answers'[k] = answer
      /\ \A l \in DOMAIN answers : l # k => answers'[l] = answers[l]
  BY DEF With
<1>3. OrdersTyped' /\ OneOpenOrder'
  BY <1>1, <1>2 DEF OrdersTyped, OneOpenOrder
<1>4. ASSUME NEW l \in DOMAIN answers', answers'[l].ok
      PROVE  Vouches(l[2], answers[l].inputs, answers[l].sha)'
  <2>1. CASE l = k
    BY <1>2, <1>4, <2>1, OrdersKeep
  <2>2. CASE l # k
    BY <1>2, <1>4, <2>2, OrdersKeep
  <2>. QED
    BY <2>1, <2>2
<1>5. ASSUME NEW l \in DOMAIN work' PROVE Vouches(l[2], work[l].inputs, work[l].sha)'
  BY OrdersKeep
<1>. QED
  BY <1>1, <1>3, <1>4, <1>5, OrdersKeep DEF OrdersHold, Covered

LEMMA WorkKeeps ==
  ASSUME PlanInv, [PlanNext]_planVars
  PROVE  OrdersTyped' /\ OrdersHold' /\ OneOpenOrder'
<1>1. FilesMove /\ mode' = mode /\ OrdersTyped
  BY StepMovesFiles DEF PlanInv
<1>2. ASSUME NEW k \in DOMAIN work, AgentReports(k) PROVE OrdersTyped' /\ OrdersHold' /\ OneOpenOrder'
  <2>1. /\ k \in DOMAIN orders /\ orders' = orders /\ answers' = With(answers, k, work[k])
        /\ DOMAIN work' \subseteq DOMAIN work /\ \A l \in DOMAIN work' : work'[l] = work[l]
    BY <1>1, <1>2 DEF AgentReports, OrdersTyped
  <2>2. PICK answer : answer = work[k]
    OBVIOUS
  <2>. QED
    BY <1>1, <2>1, <2>2, AnswerKeeps
<1>3. ASSUME NEW k \in DOMAIN orders, AgentGivesUp(k) PROVE OrdersTyped' /\ OrdersHold' /\ OneOpenOrder'
  <2>1. PICK answer : answer = [inputs |-> orders[k], sha |-> 0, ok |-> FALSE]
    OBVIOUS
  <2>2. /\ orders' = orders /\ answers' = With(answers, k, answer) /\ work' = work /\ ~answer.ok
    BY <1>3, <2>1 DEF AgentGivesUp
  <2>. QED
    BY <1>1, <2>2, AnswerKeeps
<1>4. CASE \/ Start \/ Blocked \/ Unresolved \/ GateHolds \/ GatePasses \/ Reuse \/ Dispatch
           \/ Refuse \/ Collect \/ NewAttempt \/ CallExecutor \/ ExecutorFails \/ ExecutorContinues
           \/ ExecuteQC \/ ExecutorCompletes \/ AssemblyGate \/ (\E t \in Steps : ReadClip(t))
           \/ EncodeFails \/ Assemble
  <2>1. UNCHANGED <<orders, work, answers>>
    BY <1>4 DEF Start, Blocked, Unresolved, GateHolds, GatePasses, Reuse, Dispatch, Refuse, Collect,
       NewAttempt, CallExecutor, ExecutorFails, ExecutorContinues, ExecuteQC, ExecutorCompletes,
       AssemblyGate, ReadClip, EncodeFails, Assemble, agents
  <2>. QED
    BY <1>1, <2>1, WorkUnchanged
<1>5. CASE \/ Checkpoint \/ CheckpointStates \/ CheckpointPause \/ Finish
           \/ RetryContent \/ Classify \/ Dies \/ Interrupted \/ DeadlinePasses \/ UNCHANGED planVars
           \/ \E s \in Reviewed \cap mode.steps : Review(s)
           \/ \E s \in {t \in mode.steps : Kind[t] # "qc"} : Edit(s)
  <2>1. UNCHANGED <<orders, work, answers>>
    BY <1>5 DEF Checkpoint, CheckpointStates, CheckpointPause, Finish, RetryContent, Classify, Dies,
       Interrupted, DeadlinePasses, planVars, Review, Edit, agents
  <2>. QED
    BY <1>1, <2>1, WorkUnchanged
<1>6. CASE ExecuteHandoff
  BY <1>1, <1>6, HandoffKeeps
<1>7. ASSUME NEW k \in DOMAIN orders, AgentMakes(k) PROVE OrdersTyped' /\ OrdersHold' /\ OneOpenOrder'
  BY <1>1, <1>7, MakingKeeps
<1>. QED
  BY <1>2, <1>3, <1>4, <1>5, <1>6, <1>7 DEF PlanNext, Command, Others

\* What the journal says is what was done.
LEMMA JournalKeeps ==
  ASSUME PlanInv, [PlanNext]_planVars
  PROVE  JournalHolds'
<1>1. /\ JournalHolds /\ ExecTyped /\ RunHolds /\ EntriesVouch(exec.results) /\ FilesTyped /\ DiskHolds
      /\ FilesMove /\ mode' = mode /\ DOMAIN answers \subseteq DOMAIN answers'
  BY StepMovesFiles, AnswersGrow DEF PlanInv, ExecHolds
<1>2. ASSUME NEW e, IsEntry(e)
      PROVE  /\ IsEntry(AsCompleted(e)) /\ IsEntry(Journaled(e))
             /\ IsDone(AsCompleted(e)) <=> IsDone(e)
             /\ IsDone(Journaled(e)) <=> IsDone(e)
             /\ IsDone(e) => /\ AsCompleted(e).inputs = e.inputs /\ AsCompleted(e).sha = e.sha
                             /\ Journaled(e) = AsCompleted(e)
             /\ AsCompleted(e).status = "failed" => e.status = "failed"
             /\ Journaled(e).status = "failed" => e.status = "failed"
             /\ e.status = "failed" => /\ AsCompleted(e).attempt = e.attempt
                                       /\ Journaled(e).attempt = e.attempt
  <2>1. /\ IsEntry(AsCompleted(e)) /\ (IsDone(AsCompleted(e)) <=> IsDone(e))
        /\ IsDone(e) => AsCompleted(e).inputs = e.inputs /\ AsCompleted(e).sha = e.sha
        /\ AsCompleted(e).status = "failed" <=> e.status = "failed"
        /\ AsCompleted(e).attempt = e.attempt
    BY <1>2 DEF AsCompleted, IsEntry, IsDone, Statuses
  <2>2. CASE IsDone(e)
    <3>1. Journaled(e) = AsCompleted(e)
      BY <2>2 DEF Journaled, IsDone
    <3>2. e.status # "failed"
      BY <2>2 DEF IsDone
    <3>. QED
      BY <2>1, <2>2, <3>1, <3>2
  <2>3. CASE ~IsDone(e)
    <3>1. Journaled(e) \in {Blank, Numbered(e, e.status)} /\ (e.status = "failed" => Journaled(e) = Numbered(e, e.status))
      BY <2>3 DEF Journaled, IsDone
    <3>2. /\ IsEntry(Blank) /\ Blank.status = "none" /\ IsEntry(Numbered(e, e.status))
          /\ Numbered(e, e.status).status = e.status /\ Numbered(e, e.status).attempt = e.attempt
      BY <1>2 DEF Numbered, Blank, IsEntry, Statuses
    <3>3. Journaled(e).status \in {"none", e.status} /\ IsEntry(Journaled(e))
          /\ (e.status = "failed" => Journaled(e).attempt = e.attempt)
      BY <3>1, <3>2
    <3>4. ~IsDone(Journaled(e)) /\ (Journaled(e).status = "failed" => e.status = "failed")
      BY <2>3, <3>3 DEF IsDone
    <3>. QED
      BY <2>1, <2>3, <3>3, <3>4
  <2>. QED
    BY <2>2, <2>3
<1>3. ASSUME journal' = journal PROVE JournalHolds'
  <2>1. EntriesVouch(journal.steps)'
    BY <1>1, <1>3, EntriesKeep DEF EntriesVouch, JournalHolds
  <2>. QED
    BY <1>1, <1>3, <2>1 DEF JournalHolds, FailuresAnswered
<1>4. ASSUME NEW es, journal' = [run |-> exec.run, steps |-> es], DOMAIN es = Steps,
             \A s \in Steps :
               /\ IsEntry(es[s]) /\ (IsDone(es[s]) <=> IsDone(exec.results[s]))
               /\ IsDone(es[s]) => es[s].inputs = exec.results[s].inputs /\ es[s].sha = exec.results[s].sha
               /\ es[s].status = "failed" => /\ exec.results[s].status = "failed"
                                             /\ es[s].attempt = exec.results[s].attempt
      PROVE  JournalHolds'
  <2>1. journal'.run = exec.run /\ journal'.steps = es /\ IsJournal(journal')
    BY <1>1, <1>4 DEF IsJournal, AreEntries, ExecTyped
  <2>2. EntriesVouch(journal.steps)'
    <3>1. \A s \in Steps : IsDone(es[s]) => Vouches(s, es[s].inputs, es[s].sha)
      BY <1>1, <1>4 DEF EntriesVouch
    <3>. QED
      BY <1>1, <2>1, <3>1, EntriesKeep DEF EntriesVouch
  <2>3. FailuresAnswered(journal.run, journal.steps)'
    BY <1>1, <1>4, <2>1 DEF FailuresAnswered, RunHolds
  <2>. QED
    BY <1>1, <2>1, <2>2, <2>3 DEF JournalHolds, RunHolds
<1>5. \A s \in Steps : IsEntry(exec.results[s])
  BY <1>1 DEF ExecTyped, AreEntries
<1>6. CASE Checkpoint
  <2>. DEFINE es == [s \in Steps |-> AsCompleted(exec.results[s])]
  <2>1. journal' = [run |-> exec.run, steps |-> es]
    BY <1>6 DEF Checkpoint
  <2>2. DOMAIN es = Steps /\ \A s \in Steps : es[s] = AsCompleted(exec.results[s])
    OBVIOUS
  <2>. HIDE DEF es
  <2>. QED
    BY <1>2, <1>4, <1>5, <2>1, <2>2
<1>7. CASE Finish
  <2>. DEFINE es == [s \in Steps |-> Journaled(exec.results[s])]
  <2>1. journal' = [run |-> exec.run, steps |-> es]
    BY <1>7 DEF Finish
  <2>2. DOMAIN es = Steps /\ \A s \in Steps : es[s] = Journaled(exec.results[s])
    OBVIOUS
  <2>. HIDE DEF es
  <2>. QED
    BY <1>2, <1>4, <1>5, <2>1, <2>2
<1>8. CASE \/ Start \/ Blocked \/ Unresolved \/ GateHolds \/ GatePasses \/ Reuse \/ Dispatch
           \/ Refuse \/ Collect \/ NewAttempt \/ CallExecutor \/ ExecutorFails \/ ExecutorContinues
           \/ ExecuteQC \/ ExecutorCompletes \/ AssemblyGate \/ (\E t \in Steps : ReadClip(t))
           \/ EncodeFails \/ Assemble
  BY <1>3, <1>8 DEF Start, Blocked, Unresolved, GateHolds, GatePasses, Reuse, Dispatch, Refuse, Collect,
     NewAttempt, CallExecutor, ExecutorFails, ExecutorContinues, ExecuteQC, ExecutorCompletes,
     AssemblyGate, ReadClip, EncodeFails, Assemble
<1>9. CASE \/ ExecuteHandoff \/ CheckpointStates \/ CheckpointPause
           \/ RetryContent \/ Classify \/ Dies \/ Interrupted \/ DeadlinePasses \/ UNCHANGED planVars
  BY <1>3, <1>9 DEF ExecuteHandoff, CheckpointStates, CheckpointPause, RetryContent, Classify, Dies,
     Interrupted, DeadlinePasses, planVars
<1>10. CASE \/ \E k \in DOMAIN orders : AgentMakes(k) \/ AgentGivesUp(k)
            \/ \E k \in DOMAIN work : AgentReports(k)
            \/ \E s \in Reviewed \cap mode.steps : Review(s)
            \/ \E s \in {t \in mode.steps : Kind[t] # "qc"} : Edit(s)
  BY <1>3, <1>10 DEF AgentMakes, AgentGivesUp, AgentReports, Review, Edit
<1>. QED
  BY <1>6, <1>7, <1>8, <1>9, <1>10 DEF PlanNext, Command, Others

LEMMA TheRestKeeps ==
  ASSUME PlanInv, [PlanNext]_planVars
  PROVE  UsedTyped' /\ DOMAIN reviews' = Steps
<1>1. UsedTyped /\ DOMAIN reviews = Steps
  BY DEF PlanInv
<1>2. CASE \/ Blocked \/ Unresolved \/ GateHolds \/ GatePasses \/ Reuse \/ Dispatch
           \/ Refuse \/ Collect \/ NewAttempt \/ CallExecutor \/ ExecutorFails \/ ExecutorContinues
           \/ ExecuteQC \/ ExecutorCompletes \/ AssemblyGate \/ (\E t \in Steps : ReadClip(t))
           \/ EncodeFails \/ Assemble
  BY <1>1, <1>2 DEF Blocked, Unresolved, GateHolds, GatePasses, Reuse, Dispatch, Refuse, Collect,
     NewAttempt, CallExecutor, ExecutorFails, ExecutorContinues, ExecuteQC, ExecutorCompletes,
     AssemblyGate, ReadClip, EncodeFails, Assemble, agents, UsedTyped
<1>3. CASE \/ ExecuteHandoff \/ Checkpoint \/ CheckpointStates \/ CheckpointPause \/ Finish
           \/ RetryContent \/ Classify \/ Dies \/ Interrupted \/ DeadlinePasses \/ UNCHANGED planVars
  BY <1>1, <1>3 DEF ExecuteHandoff, Checkpoint, CheckpointStates, CheckpointPause, Finish,
     RetryContent, Classify, Dies, Interrupted, DeadlinePasses, planVars, agents, UsedTyped
<1>4. CASE \/ \E k \in DOMAIN orders : AgentMakes(k) \/ AgentGivesUp(k)
           \/ \E k \in DOMAIN work : AgentReports(k)
           \/ \E s \in Reviewed \cap mode.steps : Review(s)
           \/ \E s \in {t \in mode.steps : Kind[t] # "qc"} : Edit(s)
  BY <1>1, <1>4 DEF AgentMakes, AgentGivesUp, AgentReports, Review, Edit, agents, UsedTyped
<1>5. CASE Start
  <2>1. reviews' = reviews /\ (usage' = usage \/ usage' = [usage EXCEPT !.runs = @ + 1])
    BY <1>5 DEF Start, agents
  <2>. QED
    BY <1>1, <2>1 DEF UsedTyped
<1>. QED
  BY <1>2, <1>3, <1>4, <1>5 DEF PlanNext, Command, Others

----------------------------------------------------------------------------
(* What happens beside the command, and the gates. *)

\* The way a result is recorded.
LEMMA ResultEnds ==
  ASSUME PlanInv,
         \/ Blocked \/ Unresolved \/ GateHolds \/ Reuse \/ Refuse \/ ExecutorContinues \/ ExecuteQC
         \/ (AssemblyGate /\ ~GateOpen(Current)) \/ EncodeFails \/ Assemble \/ ExecuteHandoff \/ Checkpoint \/ Finish \/ Dies \/ RetryContent \/ Classify
         \/ Start \/ CheckpointStates \/ CheckpointPause \/ Interrupted \/ ExecutorCompletes
         \/ ExecutorFails
  PROVE  exec'.phase \notin {"execute", "gated", "encode"}
<1>1. DOMAIN exec = Fields
  BY DEF PlanInv, ExecHolds, ExecTyped
<1>2. \A e : Results(e) => exec'.phase \notin {"execute", "gated", "encode"}
  BY <1>1 DEF Results, Fields
<1>3. CASE \/ Refuse \/ ExecutorContinues \/ ExecuteQC \/ (AssemblyGate /\ ~GateOpen(Current))
           \/ EncodeFails \/ Assemble \/ ExecuteHandoff \/ ExecutorCompletes \/ ExecutorFails
  <2>1. \E e : Results(e)
    BY <1>3 DEF Refuse, ExecutorContinues, ExecuteQC, AssemblyGate, EncodeFails, Assemble,
       ExecuteHandoff, ExecutorCompletes, ExecutorFails
  <2>. QED
    BY <1>2, <2>1
<1>4. CASE Blocked \/ Unresolved \/ GateHolds
  BY <1>1, <1>4 DEF Blocked, Unresolved, GateHolds, Ready, Record, Unblocked, AtStep, Fields
<1>8. CASE Reuse
  <2>1. PICK results : exec' = [exec EXCEPT !.phase = "consider", !.at = @ + 1, !.results = results]
    BY <1>1, <1>8 DEF Reuse, Fields
  <2>. QED
    BY <1>1, <2>1 DEF Fields
<1>5. CASE Checkpoint \/ Finish \/ CheckpointStates \/ CheckpointPause
  <2>1. CASE Checkpoint
    BY <1>1, <2>1 DEF Checkpoint, Fields
  <2>2. CASE Finish
    <3>1. exec' = Idle \/ exec' = [exec EXCEPT !.phase = "classify"]
      BY <2>2 DEF Finish
    <3>. QED
      BY <1>1, <3>1 DEF Idle, Fields
  <2>3. CASE CheckpointStates
    <3>1. exec' = [exec EXCEPT !.phase = "pause"]
      BY <2>3 DEF CheckpointStates
    <3>. QED
      BY <1>1, <3>1 DEF Fields
  <2>4. CASE CheckpointPause
    <3>1. exec' = [exec EXCEPT !.phase = "consider", !.at = @ + 1]
      BY <2>4 DEF CheckpointPause
    <3>. QED
      BY <1>1, <3>1 DEF Fields
  <2>. QED
    BY <1>5, <2>1, <2>2, <2>3, <2>4
<1>6. CASE Dies \/ Classify \/ Interrupted
  BY <1>6 DEF Dies, Classify, Interrupted, Idle
<1>7. CASE Start \/ RetryContent
  BY <1>1, <1>7 DEF Start, RetryContent, Pass, Idle, Fields
<1>. QED
  BY <1>3, <1>4, <1>5, <1>6, <1>7, <1>8

\* A step beside the command that does not end it.
Beside ==
  \/ DeadlinePasses \/ UNCHANGED planVars
  \/ \E k \in DOMAIN orders : AgentMakes(k) \/ AgentGivesUp(k)
  \/ \E k \in DOMAIN work : AgentReports(k)
  \/ \E s \in Reviewed \cap mode.steps : Review(s)
  \/ \E s \in {t \in mode.steps : Kind[t] # "qc"} : Edit(s)

\* It leaves the command where it is; what it does to the files and reviews of a step
\* after a gate is noted.
LEMMA BesideIs ==
  ASSUME PlanInv, Beside
  PROVE  /\ DOMAIN exec' = Fields
         /\ exec'.phase = exec.phase /\ exec'.at = exec.at /\ exec'.results = exec.results
         /\ exec'.inputs = exec.inputs /\ exec'.reel = exec.reel
         /\ exec'.collects = exec.collects /\ exec'.attempt = exec.attempt
         /\ Passed => /\ exec.overtaken \subseteq exec'.overtaken
                      /\ \A p \in Steps \ exec'.overtaken : disk'[p] = disk[p] /\ reviews'[p] = reviews[p]
                      /\ exec'.touched \/ (disk' = disk /\ exec'.touched = exec.touched)
<1>1. /\ DOMAIN exec = Fields /\ DOMAIN reviews = Steps /\ ExecTyped /\ FilesTyped
      /\ DOMAIN orders \subseteq (Nat \ {0}) \X Producers \X Nat
  BY DEF PlanInv, ExecHolds, ExecTyped, OrdersTyped
<1>2. CASE exec' = exec /\ UNCHANGED <<files, reviews>>
  BY <1>1, <1>2 DEF files
<1>3. ASSUME NEW u \in Steps, NEW c, Touches(u), reviews' = reviews,
             Write(u, c) \/ disk' = [disk EXCEPT ![u] = 0]
      PROVE  /\ DOMAIN exec' = Fields
             /\ exec'.phase = exec.phase /\ exec'.at = exec.at /\ exec'.results = exec.results
             /\ exec'.inputs = exec.inputs /\ exec'.reel = exec.reel
             /\ exec'.collects = exec.collects /\ exec'.attempt = exec.attempt
             /\ Passed => /\ exec.overtaken \subseteq exec'.overtaken
                          /\ \A p \in Steps \ exec'.overtaken : disk'[p] = disk[p] /\ reviews'[p] = reviews[p]
                          /\ exec'.touched \/ (disk' = disk /\ exec'.touched = exec.touched)
  <2>1. \A p \in Steps : p # u => disk'[p] = disk[p]
    BY <1>1, <1>3, WriteIs DEF FilesTyped
  <2>2. PICK overtaken, touched :
          /\ exec' = [exec EXCEPT !.touched = touched, !.overtaken = overtaken]
          /\ overtaken = Overtakes(u) /\ touched = Running
    BY <1>3 DEF Touches
  <2>3. /\ exec'.touched = touched /\ exec'.overtaken = overtaken
        /\ DOMAIN exec' = Fields
        /\ exec'.phase = exec.phase /\ exec'.at = exec.at /\ exec'.results = exec.results
        /\ exec'.inputs = exec.inputs /\ exec'.reel = exec.reel
        /\ exec'.collects = exec.collects /\ exec'.attempt = exec.attempt
    BY <1>1, <2>2 DEF Fields
  <2>4. Passed => touched /\ overtaken = exec.overtaken \cup {u}
    BY <2>2 DEF Passed, Running, Overtakes
  <2>. QED
    BY <1>3, <2>1, <2>3, <2>4
<1>4. CASE DeadlinePasses \/ UNCHANGED planVars
  BY <1>2, <1>4 DEF DeadlinePasses, planVars, agents, files
<1>5. CASE \/ \E k \in DOMAIN orders : AgentGivesUp(k)
           \/ \E k \in DOMAIN work : AgentReports(k)
  BY <1>2, <1>5 DEF AgentGivesUp, AgentReports
<1>6. ASSUME NEW k \in DOMAIN orders, AgentMakes(k)
      PROVE  \E u \in Steps : \E c : Touches(u) /\ reviews' = reviews /\ Write(u, c)
  BY <1>1, <1>6 DEF AgentMakes, Producers
<1>7. ASSUME NEW u \in mode.steps, Edit(u)
      PROVE  /\ u \in Steps /\ Touches(u) /\ reviews' = reviews
             /\ (\E c : Write(u, c)) \/ disk' = [disk EXCEPT ![u] = 0]
  BY <1>7, StepsAssumption DEF Edit, PlanInv, ModeType, agents
<1>8. ASSUME NEW u \in Reviewed \cap mode.steps, Review(u)
      PROVE  /\ DOMAIN exec' = Fields
             /\ exec'.phase = exec.phase /\ exec'.at = exec.at /\ exec'.results = exec.results
             /\ exec'.inputs = exec.inputs /\ exec'.reel = exec.reel
             /\ exec'.collects = exec.collects /\ exec'.attempt = exec.attempt
             /\ Passed => /\ exec.overtaken \subseteq exec'.overtaken
                          /\ \A p \in Steps \ exec'.overtaken : disk'[p] = disk[p] /\ reviews'[p] = reviews[p]
                          /\ exec'.touched \/ (disk' = disk /\ exec'.touched = exec.touched)
  <2>1. /\ UNCHANGED files
        /\ \E overtaken : exec' = [exec EXCEPT !.overtaken = overtaken]
        /\ \A p \in DOMAIN reviews : p # u => reviews'[p] = reviews[p]
        /\ reviews' = reviews \/ (Passed => u \in exec'.overtaken)
        /\ Passed => exec.overtaken \subseteq exec'.overtaken
    BY <1>1, <1>8, ReviewIs
  <2>2. PICK overtaken : exec' = [exec EXCEPT !.overtaken = overtaken]
    BY <2>1
  <2>3. /\ DOMAIN exec' = Fields
        /\ exec'.phase = exec.phase /\ exec'.at = exec.at /\ exec'.results = exec.results
        /\ exec'.inputs = exec.inputs /\ exec'.reel = exec.reel
        /\ exec'.collects = exec.collects /\ exec'.attempt = exec.attempt
        /\ exec'.touched = exec.touched
    BY <1>1, <2>2 DEF Fields
  <2>. QED
    BY <1>1, <2>1, <2>3 DEF files
<1>. QED
  BY <1>3, <1>4, <1>5, <1>6, <1>7, <1>8 DEF Beside

\* After a gate what it saw stands, but for what others touched since.
LEMMA GatedKeeps ==
  ASSUME PlanInv, [PlanNext]_planVars
  PROVE  GatedHolds' /\ ReelHolds'
<1>1. /\ FilesMove /\ mode' = mode /\ FilesTyped /\ DiskHolds /\ ExecTyped /\ DOMAIN exec = Fields
      /\ DoingHolds /\ GatedHolds /\ ReelHolds
  BY StepMovesFiles DEF PlanInv, ExecHolds, ExecTyped
<1>2. CASE exec'.phase \notin {"gated", "encode"}
  BY <1>2 DEF GatedHolds, ReelHolds
<1>3. CASE \/ Blocked \/ Unresolved \/ GateHolds \/ Reuse \/ Refuse \/ ExecutorContinues \/ ExecuteQC
           \/ (AssemblyGate /\ ~GateOpen(Current)) \/ EncodeFails \/ Assemble \/ ExecuteHandoff
           \/ Checkpoint \/ Finish \/ Dies \/ RetryContent \/ Classify
           \/ Start \/ CheckpointStates \/ CheckpointPause \/ Interrupted \/ ExecutorCompletes
           \/ ExecutorFails
  BY <1>2, <1>3, ResultEnds
<1>4. CASE Dispatch \/ Collect \/ NewAttempt \/ CallExecutor
  <2>1. exec'.phase \in {"intent", "execute", "await"}
    BY <1>1, <1>4 DEF Dispatch, Collect, NewAttempt, CallExecutor, Fields
  <2>. QED
    BY <1>2, <2>1
\* A gate passes.
<1>5. ASSUME NEW s \in Steps, s = Current, Kind[s] = "assembly", GateOpen(s),
             UNCHANGED <<disk, origin, reviews>>, DOMAIN exec' = Fields,
             exec'.at = exec.at, exec'.results = exec.results, exec'.overtaken = {},
             \/ exec'.phase = "gated" /\ exec'.inputs = Digest(s)
             \/ exec'.phase = "encode" /\ exec'.reel = <<>>
      PROVE  GatedHolds' /\ ReelHolds'
  <2>1. Current' = s /\ Covered(s) = Consumes[s] /\ Consumes[s] \subseteq Steps
    BY <1>1, <1>5, PlanShape DEF Current, StepOrder, Covered
  <2>2. /\ \A t \in Consumes[s] : exec.results[t].sha # 0
        /\ \A p \in Consumes[s] \cap Reviewed :
             reviews[p].verdict = "approved" /\ reviews[p].sha = disk[p] /\ disk[p] # 0
    BY <1>5 DEF GateOpen, Approves
  <2>3. DOMAIN <<>> = {} /\ <<>> \in [{} -> Nat]
    OBVIOUS
  <2>4. \A t \in Consumes[s] : Digest(s)[t] = disk[t]
    BY <1>1, <2>1, DigestIs
  <2>5. CASE exec'.phase = "gated"
    <3>1. exec'.inputs = Digest(s)
      BY <1>5, <2>5
    <3>2. PICK inputs : inputs = exec'.inputs /\ \A t \in Consumes[s] : inputs[t] = disk[t]
      BY <2>4, <3>1
    <3>. QED
      BY <1>5, <2>1, <2>2, <2>5, <3>2 DEF GatedHolds, ReelHolds
  <2>6. CASE exec'.phase = "encode"
    <3>1. DOMAIN exec'.reel = {} /\ exec'.reel \in [{} -> Nat]
      BY <1>5, <2>3, <2>6
    <3>. QED
      BY <1>5, <2>1, <2>2, <2>6, <3>1 DEF GatedHolds, ReelHolds
  <2>. QED
    BY <1>5, <2>5, <2>6
<1>6. CASE GatePasses
  <2>1. /\ Ready /\ Gated(Current) /\ GateOpen(Current) /\ UNCHANGED <<disk, origin, reviews>>
        /\ exec' = [exec EXCEPT !.phase = "gated", !.inputs = Digest(Current), !.overtaken = {}]
    BY <1>6 DEF GatePasses, Held, files, agents
  <2>2. PICK s \in Steps : s = Current
    BY <2>1, CurrentIs DEF Ready, Unblocked
  <2>3. PICK inputs : inputs = Digest(s) /\
          exec' = [exec EXCEPT !.phase = "gated", !.inputs = inputs, !.overtaken = {}]
    BY <2>1, <2>2
  <2>4. /\ DOMAIN exec' = Fields /\ exec'.at = exec.at /\ exec'.results = exec.results
        /\ exec'.overtaken = {} /\ exec'.phase = "gated" /\ exec'.inputs = inputs
    BY <1>1, <2>3 DEF Fields
  <2>5. Kind[s] = "assembly" /\ GateOpen(s)
    BY <2>1, <2>2 DEF Gated
  <2>. QED
    BY <1>5, <2>1, <2>2, <2>3, <2>4, <2>5
<1>7. CASE AssemblyGate /\ GateOpen(Current)
  <2>1. /\ Executes("assembly") /\ UNCHANGED <<disk, origin, reviews>>
        /\ exec' = [exec EXCEPT !.phase = "encode", !.reel = <<>>, !.overtaken = {}]
    BY <1>7 DEF AssemblyGate, files, agents
  <2>2. PICK s \in Steps : s = Current
    BY <2>1, CurrentIs DEF Executes, Doing
  <2>3. /\ DOMAIN exec' = Fields /\ exec'.at = exec.at /\ exec'.results = exec.results
        /\ exec'.overtaken = {} /\ exec'.phase = "encode" /\ exec'.reel = <<>>
    BY <1>1, <2>1 DEF Fields
  <2>4. Kind[s] = "assembly" /\ GateOpen(s)
    BY <1>7, <2>1, <2>2 DEF Executes
  <2>. QED
    BY <1>5, <2>1, <2>2, <2>3, <2>4
\* A clip is read.
<1>8. ASSUME NEW t \in Steps, ReadClip(t) PROVE GatedHolds' /\ ReelHolds'
  <2>1. /\ exec.phase = "encode" /\ t \in Consumes[Current] \ DOMAIN exec.reel
        /\ exec' = [exec EXCEPT !.reel = With(exec.reel, t, disk[t])]
        /\ UNCHANGED <<disk, origin, reviews>>
    BY <1>8 DEF ReadClip, Encodes, files, agents
  <2>2. PICK s \in Steps : s = Current
    BY <2>1, CurrentIs DEF Doing
  <2>3. PICK reel : reel = With(exec.reel, t, disk[t]) /\ exec' = [exec EXCEPT !.reel = reel]
    BY <2>1
  <2>4. /\ exec'.phase = "encode" /\ exec'.at = exec.at /\ exec'.results = exec.results
        /\ exec'.overtaken = exec.overtaken /\ exec'.reel = reel /\ exec'.inputs = exec.inputs
        /\ exec'.touched = exec.touched
    BY <1>1, <2>1, <2>3 DEF Fields
  <2>5. /\ DOMAIN reel = DOMAIN exec.reel \cup {t} /\ reel[t] = disk[t]
        /\ \A u \in DOMAIN exec.reel : u # t => reel[u] = exec.reel[u]
    BY <2>3 DEF With
  <2>6. Current' = s /\ Kind[s] = "assembly" /\ Covered(s) = Consumes[s] /\ Consumes[s] \subseteq Steps
    BY <1>1, <2>1, <2>2, <2>4, PlanShape DEF Current, StepOrder, Covered, GatedHolds
  <2>7. exec.inputs[t] \in {0, disk[t]} \/ Past(t, exec.inputs[t])
    <3>1. t \in Covered(s) /\ exec.inputs[t] \in Nat /\ exec.inputs[t] <= Newest(t)
      BY <1>1, <2>1, <2>2, <2>6 DEF DoingHolds, Doing
    <3>2. PICK inputs : inputs = exec.inputs
      OBVIOUS
    <3>3. \A u \in {t} : inputs[u] \in Nat /\ inputs[u] <= Newest(u)
      BY <3>1, <3>2
    <3>4. {t} \in SUBSET Steps
      OBVIOUS
    <3>5. \A u \in {t} : inputs[u] \in {0, disk[u]} \/ Past(u, inputs[u])
      BY <1>1, <3>3, <3>4, InputsArePast
    <3>. QED
      BY <3>2, <3>5
  <2>8. disk[t] \in Nat /\ \A u \in Steps : Newest(u)' = Newest(u)
    BY <1>1, <2>1 DEF FilesTyped, Newest
  <2>9. GatedHolds'
    BY <1>1, <2>1, <2>2, <2>4, <2>5, <2>6 DEF GatedHolds
  <2>10. ReelHolds'
    <3>1. DOMAIN reel \subseteq Consumes[s] /\ exec.reel \in [DOMAIN exec.reel -> Nat]
      BY <1>1, <2>1, <2>2, <2>5 DEF ReelHolds
    <3>4. reel \in [DOMAIN reel -> Nat]
      BY <2>3, <2>8, <3>1 DEF With
    <3>2. ASSUME NEW u \in DOMAIN reel
          PROVE  /\ exec.inputs[u] \in {0, reel[u]} \/ Past(u, exec.inputs[u])
                 /\ ~exec.touched => reel[u] = disk[u]
      <4>1. CASE u = t
        BY <2>5, <2>7, <2>8, <4>1
      <4>2. CASE u # t
        BY <1>1, <2>1, <2>5, <3>2, <4>2 DEF ReelHolds
      <4>. QED
        BY <4>1, <4>2
    <3>3. \A u \in DOMAIN reel : Past(u, exec.inputs[u]) => Past(u, exec.inputs[u])'
      BY <2>1, <2>4, <2>6, <2>8, <3>1 DEF Past
    <3>. QED
      BY <2>1, <2>4, <2>6, <3>1, <3>2, <3>3, <3>4 DEF ReelHolds
  <2>. QED
    BY <2>9, <2>10
\* What others do.
<1>9. CASE Beside
  <2>1. CASE Passed
    <3>1. PICK s \in Steps : s = Current
      BY <2>1, CurrentIs DEF Passed, Doing
    <3>2. /\ exec'.phase = exec.phase /\ exec'.at = exec.at /\ exec'.results = exec.results
          /\ exec'.inputs = exec.inputs /\ exec'.reel = exec.reel
          /\ exec.overtaken \subseteq exec'.overtaken
          /\ \A p \in Steps \ exec'.overtaken : disk'[p] = disk[p] /\ reviews'[p] = reviews[p]
          /\ exec'.touched \/ (disk' = disk /\ exec'.touched = exec.touched)
      BY <1>9, <2>1, BesideIs
    <3>3. Current' = s /\ Kind[s] = "assembly" /\ Covered(s) = Consumes[s] /\ Consumes[s] \subseteq Steps
      BY <1>1, <2>1, <3>1, <3>2, PlanShape DEF Current, StepOrder, Covered, GatedHolds, Passed
    <3>4. GatedHolds'
      BY <1>1, <3>1, <3>2, <3>3 DEF GatedHolds
    <3>5. ReelHolds'
      <4>1. SUFFICES ASSUME exec.phase = "encode"
                     PROVE  /\ DOMAIN exec.reel \subseteq Consumes[s]
                            /\ exec.reel \in [DOMAIN exec.reel -> Nat]
                            /\ \A t \in DOMAIN exec.reel :
                                 /\ exec.inputs[t] \in {0, exec.reel[t]} \/ Past(t, exec.inputs[t])'
                                 /\ ~exec'.touched => exec.reel[t] = disk'[t]
        BY <3>2, <3>3 DEF ReelHolds
      <4>2. /\ DOMAIN exec.reel \subseteq Consumes[s]
            /\ exec.reel \in [DOMAIN exec.reel -> Nat]
            /\ \A t \in DOMAIN exec.reel :
                 /\ exec.inputs[t] \in {0, exec.reel[t]} \/ Past(t, exec.inputs[t])
                 /\ ~exec'.touched => exec.reel[t] = disk'[t]
        BY <1>1, <3>1, <3>2, <4>1 DEF ReelHolds
      <4>3. \A t \in Consumes[s] : exec.inputs[t] \in Nat
        BY <1>1, <3>1, <3>3, <4>1 DEF DoingHolds, Doing
      <4>4. PICK inputs : inputs = exec.inputs /\ inputs = exec'.inputs
        BY <3>2
      <4>5. \A t \in Consumes[s] : Past(t, inputs[t]) => Past(t, inputs[t])'
        BY <1>1, <3>3, <4>3, <4>4, FilesKeep
      <4>. QED
        BY <4>2, <4>4, <4>5 DEF Past
    <3>. QED
      BY <3>4, <3>5
  <2>2. CASE ~Passed
    BY <1>2, <1>9, <2>2, BesideIs DEF Passed
  <2>. QED
    BY <2>1, <2>2
<1>. QED
  BY <1>3, <1>4, <1>6, <1>7, <1>8, <1>9 DEF PlanNext, Command, Others, Beside

----------------------------------------------------------------------------
(* Attempts. *)

\* Where the attempts are not counted anew nothing is submitted.
LEMMA CountsKeep ==
  ASSUME PlanInv, sent' = sent, mode' = mode, exec'.phase # "execute", RecoveryTyped',
         \A s \in Steps : recovery'.steps[s].attempt = recovery.steps[s].attempt
  PROVE  SentTyped' /\ SentHolds'
BY DEF PlanInv, SentTyped, SentHolds, Producers

LEMMA AttemptsKeep ==
  ASSUME PlanInv, [PlanNext]_planVars
  PROVE  RecoveryTyped' /\ SentTyped' /\ SentHolds'
<1>1. /\ mode' = mode /\ RecoveryTyped /\ SentTyped /\ SentHolds /\ ExecTyped
      /\ DoingHolds
  BY StepMovesFiles DEF PlanInv, ExecHolds
<1>2. ASSUME recovery' = recovery, sent' = sent, exec'.phase # "execute"
      PROVE  RecoveryTyped' /\ SentTyped' /\ SentHolds'
  <2>1. RecoveryTyped' /\ \A s \in Steps : recovery'.steps[s].attempt = recovery.steps[s].attempt
    BY <1>1, <1>2 DEF RecoveryTyped
  <2>. QED
    BY <1>1, <1>2, <2>1, CountsKeep
<1>3. CASE \/ Blocked \/ Unresolved \/ GateHolds \/ Reuse \/ Refuse \/ ExecutorContinues \/ ExecuteQC
           \/ (AssemblyGate /\ ~GateOpen(Current)) \/ EncodeFails \/ Assemble
           \/ ExecuteHandoff \/ Checkpoint \/ Finish \/ Dies
  <2>1. recovery' = recovery /\ sent' = sent
    BY <1>3 DEF Blocked, Unresolved, GateHolds, Reuse, Refuse, ExecutorContinues, ExecuteQC,
       AssemblyGate, EncodeFails, Assemble, ExecuteHandoff, Checkpoint, Finish, Dies
  <2>. QED
    BY <1>2, <1>3, <2>1, ResultEnds
<1>14. CASE GatePasses \/ (AssemblyGate /\ GateOpen(Current)) \/ \E t \in Steps : ReadClip(t)
  <2>1. recovery' = recovery /\ sent' = sent
    BY <1>14 DEF GatePasses, AssemblyGate, ReadClip
  <2>2. exec'.phase # "execute"
    BY <1>1, <1>14 DEF GatePasses, AssemblyGate, ReadClip, Encodes, ExecTyped, Fields
  <2>. QED
    BY <1>2, <2>1, <2>2
\* The states of the attempts are written, not their numbers.
<1>4. ASSUME sent' = sent, exec'.phase # "execute", DOMAIN recovery' = DOMAIN recovery,
             DOMAIN recovery'.steps = Steps,
             \A s \in Steps : \E status :
               recovery'.steps[s] \in {recovery.steps[s], [recovery.steps[s] EXCEPT !.status = status]}
      PROVE  RecoveryTyped' /\ SentTyped' /\ SentHolds'
  <2>1. ASSUME NEW s \in Steps
        PROVE  /\ DOMAIN recovery'.steps[s] = {"attempt", "status"}
               /\ recovery'.steps[s].attempt = recovery.steps[s].attempt
    BY <1>1, <1>4 DEF RecoveryTyped
  <2>2. RecoveryTyped'
    BY <1>1, <1>4, <2>1 DEF RecoveryTyped
  <2>. QED
    BY <1>1, <1>4, <2>1, <2>2, CountsKeep
<1>5. CASE Interrupted \/ Classify \/ CheckpointPause
  <2>1. /\ sent' = sent /\ DOMAIN recovery' = DOMAIN recovery /\ recovery'.steps = recovery.steps
    BY <1>1, <1>5 DEF Interrupted, Classify, CheckpointPause, RecoveryTyped
  <2>. QED
    BY <1>1, <1>4, <1>5, <2>1, ResultEnds DEF RecoveryTyped
<1>6. CASE CheckpointStates
  <2>1. /\ sent' = sent /\ DOMAIN recovery' = DOMAIN recovery /\ DOMAIN recovery'.steps = Steps
        /\ \A s \in Steps : recovery'.steps[s] \in
             {recovery.steps[s], [recovery.steps[s] EXCEPT !.status = Observed(exec.results[s])]}
    BY <1>1, <1>6 DEF CheckpointStates, RecoveryTyped
  <2>. QED
    BY <1>4, <1>6, <2>1, ResultEnds
<1>7. CASE RetryContent
  <2>1. /\ sent' = sent /\ DOMAIN recovery' = DOMAIN recovery /\ DOMAIN recovery'.steps = Steps
        /\ \A s \in Steps : recovery'.steps[s] \in
             {recovery.steps[s], [recovery.steps[s] EXCEPT !.status = "retry_pending"]}
    BY <1>1, <1>7 DEF RetryContent, RecoveryTyped
  <2>. QED
    BY <1>4, <1>7, <2>1, ResultEnds
<1>8. CASE Start
  <2>1. /\ sent' = sent /\ DOMAIN recovery' = DOMAIN recovery /\ DOMAIN recovery'.steps = Steps
        /\ \A s \in Steps : recovery'.steps[s] \in
             {recovery.steps[s], [recovery.steps[s] EXCEPT !.status = "retry_pending"]}
    BY <1>1, <1>8 DEF Start, RecoveryTyped
  <2>. QED
    BY <1>4, <1>8, <2>1, ResultEnds
<1>9. CASE Dispatch \/ Collect
  <2>1. recovery' = recovery /\ sent' = sent /\ Current' = Current
    BY <1>1, <1>9 DEF Dispatch, Collect, Current, StepOrder, ExecTyped, Fields
  <2>2. Current \in Steps
    BY <1>9, CurrentIs DEF Dispatch, Compares, Ready, Collect, Unblocked, AtIntent, Doing
  <2>3. CASE Dispatch
    <3>1. exec'.phase = "execute" => ~(mode.recovering /\ Kind[Current] = "tool")
      BY <1>1, <2>2, <2>3 DEF Dispatch, Producers, ExecTyped, Fields
    <3>. QED
      BY <1>1, <2>1, <3>1 DEF RecoveryTyped, SentTyped, SentHolds
  <2>4. CASE Collect
    <3>1. exec'.collects
      BY <1>1, <2>4 DEF Collect, ExecTyped, Fields
    <3>. QED
      BY <1>1, <2>1, <3>1 DEF RecoveryTyped, SentTyped, SentHolds
  <2>. QED
    BY <1>9, <2>3, <2>4
<1>10. CASE NewAttempt
  <2>. DEFINE attempt == recovery.steps[Current].attempt + 1
  <2>1. /\ sent' = sent /\ recovery' = Intent(Current, attempt) /\ Current' = Current
        /\ exec'.attempt = attempt
    BY <1>1, <1>10 DEF NewAttempt, Current, StepOrder, ExecTyped, Fields
  <2>2. PICK s \in Steps : s = Current
    BY <1>10, CurrentIs DEF NewAttempt, AtIntent, Doing
  <2>3. attempt <= MaxTries /\ attempt \in Nat \ {0} /\ MaxTries \in Nat
        /\ recovery.steps[s].attempt + 1 = attempt /\ recovery.steps[s].attempt \in Nat
    <3>1. Ruling(Current) = "new" => ~(attempt > MaxTries)
      BY DEF Ruling
    <3>2. Ruling(Current) = "new" /\ recovery.steps[Current].attempt \in Nat
      BY <1>1, <1>10, <2>2 DEF NewAttempt, RecoveryTyped
    <3>. QED
      BY <2>2, <3>1, <3>2, PolicyAssumption
  <2>. HIDE DEF attempt
  <2>4. /\ DOMAIN recovery' = DOMAIN recovery /\ DOMAIN recovery'.steps = Steps
        /\ recovery'.steps[s] = [attempt |-> attempt, status |-> "inflight"]
        /\ \A t \in Steps : t # s => recovery'.steps[t] = recovery.steps[t]
    BY <1>1, <2>1, <2>2 DEF Intent, RecoveryTyped
  <2>5. RecoveryTyped' /\ recovery'.steps[s].attempt = attempt
    BY <1>1, <2>3, <2>4 DEF RecoveryTyped
  <2>6. SentHolds'
    <3>1. ASSUME NEW t \in Producers, NEW n \in 1..MaxTries, n > recovery'.steps[t].attempt
          PROVE  sent[t][n] = "no"
      <4>1. n > recovery.steps[t].attempt /\ t \in Steps
        BY <1>1, <2>3, <2>4, <2>5, <3>1 DEF Producers
      <4>. QED
        BY <1>1, <4>1 DEF SentHolds
    <3>2. Kind[s] = "tool" => sent[s][attempt] = "no"
      <4>1. attempt > recovery.steps[s].attempt /\ attempt \in 1..MaxTries
        BY <2>3
      <4>. QED
        BY <1>1, <4>1 DEF SentHolds, Producers
    <3>3. attempt \in 1..MaxTries
      BY <2>3
    <3>. QED
      BY <2>1, <2>2, <2>5, <3>1, <3>2, <3>3 DEF SentHolds
  <2>. QED
    BY <1>1, <2>1, <2>5, <2>6 DEF SentTyped
<1>11. CASE CallExecutor
  <2>1. recovery' = recovery /\ exec'.phase = "await" /\ exec.phase = "execute" /\ Kind[Current] = "tool"
    BY <1>1, <1>11 DEF CallExecutor, Executes, ExecTyped, Fields
  <2>2. PICK s, n : s \in Producers /\ s = Current /\ n = exec.attempt
    BY <2>1, CurrentIs DEF Doing, Producers
  <2>3. CASE ~mode.recovering \/ exec.collects
    BY <1>1, <1>2, <1>11, <2>1, <2>3 DEF CallExecutor
  <2>4. CASE mode.recovering /\ ~exec.collects
    <3>1. /\ n \in 1..MaxTries /\ sent[s][n] = "no" /\ n = recovery.steps[s].attempt
          /\ s \in Steps /\ n \in Nat
      BY <1>1, <2>1, <2>2, <2>4 DEF SentHolds, Producers
    <3>2. sent' = [sent EXCEPT ![s][n] = "open"]
      BY <1>11, <2>2, <2>4, <3>1 DEF CallExecutor
    <3>3. SentTyped'
      BY <1>1, <3>1, <3>2 DEF SentTyped
    <3>4. SentHolds'
      BY <1>1, <2>1, <3>1, <3>2 DEF SentHolds, SentTyped, Producers
    <3>. QED
      BY <1>1, <2>1, <3>3, <3>4 DEF RecoveryTyped
  <2>. QED
    BY <2>3, <2>4
<1>12. CASE ExecutorCompletes \/ ExecutorFails
  <2>1. recovery' = recovery /\ (sent' = sent \/ sent' = Known)
    BY <1>12 DEF ExecutorCompletes, ExecutorFails
  <2>2. exec'.phase # "execute"
    BY <1>12, ResultEnds
  <2>3. PICK s, n : s = Current /\ n = exec.attempt
    OBVIOUS
  <2>4. CASE sent' = [sent EXCEPT ![s][n] = IF @ = "open" THEN "known" ELSE @]
    <3>1. SentTyped'
      BY <1>1, <2>4 DEF SentTyped
    <3>2. \A t \in Steps, m \in 1..MaxTries : sent[t][m] = "no" => sent'[t][m] = "no"
      BY <1>1, <2>4 DEF SentTyped
    <3>3. SentHolds'
      BY <1>1, <2>1, <2>2, <3>2 DEF SentHolds, Producers
    <3>. QED
      BY <1>1, <2>1, <3>1, <3>3 DEF RecoveryTyped
  <2>5. CASE sent' = sent
    BY <1>2, <2>1, <2>2, <2>5
  <2>. QED
    BY <2>1, <2>3, <2>4, <2>5 DEF Known
<1>13. CASE \/ DeadlinePasses \/ UNCHANGED planVars
            \/ \E k \in DOMAIN orders : AgentMakes(k) \/ AgentGivesUp(k)
            \/ \E k \in DOMAIN work : AgentReports(k)
            \/ \E s \in Reviewed \cap mode.steps : Review(s)
            \/ \E s \in {t \in mode.steps : Kind[t] # "qc"} : Edit(s)
  <2>1. recovery' = recovery /\ sent' = sent
    BY <1>13 DEF DeadlinePasses, planVars, AgentMakes, AgentGivesUp, AgentReports, Review, Edit
  <2>2. /\ exec'.phase = exec.phase /\ exec'.collects = exec.collects /\ exec'.at = exec.at
        /\ exec'.attempt = exec.attempt
    BY <1>1, <1>13, BesideIs DEF Beside
  <2>3. Current' = Current
    BY <1>1, <2>2 DEF Current, StepOrder
  <2>. QED
    BY <1>1, <2>1, <2>2, <2>3 DEF RecoveryTyped, SentTyped, SentHolds
<1>. QED
  BY <1>3, <1>5, <1>6, <1>7, <1>8, <1>9, <1>10, <1>11, <1>12, <1>13, <1>14 DEF PlanNext, Command, Others

----------------------------------------------------------------------------
(* The theorems. *)

LEMMA PlanStarts ==
  ASSUME PlanInit
  PROVE  PlanInv
<1>1. \A s \in Steps : Entries[s] = Blank /\ IsEntry(Blank) /\ ~IsDone(Blank) /\ Blank.status = "none"
                       /\ Blank.sha = 0
  BY DEF Entries, Blank, IsEntry, Statuses, IsDone
<1>2. AreEntries(Entries) /\ EntriesVouch(Entries) /\ \A run : FailuresAnswered(run, Entries)
  <2>1. AreEntries(Entries)
    BY <1>1 DEF AreEntries, Entries
  <2>. QED
    BY <1>1, <2>1 DEF EntriesVouch, FailuresAnswered
<1>3. /\ DOMAIN Idle = Fields /\ Idle.phase = "off" /\ Idle.at = 0 /\ Idle.results = Entries
      /\ Idle.prior = NoJournal /\ Idle.run = 0 /\ Idle.attempt = 1
      /\ Idle.collects \in BOOLEAN /\ Idle.touched \in BOOLEAN /\ NoJournal.run = 0 /\ NoJournal.steps = Entries
      /\ DOMAIN NoJournal = {"run", "steps"}
  BY DEF Idle, NoJournal, Fields
<1>4. mode \in Modes /\ exec = Idle /\ journal = NoJournal /\ DOMAIN reviews = Steps
  BY DEF PlanInit
<1>5. IsJournal(NoJournal)
  BY <1>2, <1>3 DEF IsJournal
<1>6. FilesTyped /\ DiskHolds
  <2>1. disk = [s \in Steps |-> 0] /\ origin = [s \in Steps |-> <<>>]
    BY DEF PlanInit
  <2>2. \A t \in Steps : Len(origin[t]) = 0 /\ disk[t] = 0 /\ origin[t] = <<>>
    BY <2>1
  <2>. QED
    BY <2>1, <2>2, PlanShape DEF FilesTyped, DiskHolds
<1>7. JournalHolds
  BY <1>2, <1>3, <1>4, <1>5 DEF JournalHolds
<1>8. ExecHolds
  <2>1. ExecTyped
    <3>1. Idle.phase \in Phases
      BY <1>3 DEF Phases
    <3>. QED
      BY <1>2, <1>3, <1>4, <1>5, <3>1 DEF ExecTyped
  <2>2. RunHolds
    BY <1>2, <1>3, <1>4 DEF RunHolds
  <2>3. PlaceHolds /\ DoingHolds /\ DoneStands
    BY <1>1, <1>3, <1>4 DEF PlaceHolds, DoingHolds, DoneStands, Doing, Noting
  <2>. QED
    BY <1>2, <1>3, <1>4, <2>1, <2>2, <2>3 DEF ExecHolds
<1>9. OrdersTyped /\ OrdersHold /\ OneOpenOrder
  <2>1. DOMAIN orders = {} /\ DOMAIN work = {} /\ DOMAIN answers = {}
    BY DEF PlanInit
  <2>2. IsFiniteSet({})
    BY FS_EmptySet
  <2>. QED
    BY <2>1, <2>2 DEF OrdersTyped, OrdersHold, OneOpenOrder
<1>10. RecoveryTyped /\ SentTyped /\ SentHolds
  <2>1. /\ recovery = [status |-> "ready", dispatches |-> 0, force |-> {},
                       steps |-> [s \in Steps |-> [attempt |-> 0, status |-> "none"]]]
        /\ sent = [s \in Steps |-> [n \in 1..MaxTries |-> "no"]]
    BY DEF PlanInit
  <2>2. RecoveryTyped
    BY <2>1 DEF RecoveryTyped
  <2>. QED
    BY <1>3, <1>4, <2>1, <2>2 DEF SentTyped, SentHolds, Producers
<1>11. UsedTyped
  BY DEF PlanInit, UsedTyped
<1>12. GatedHolds /\ ReelHolds
  BY <1>3, <1>4 DEF GatedHolds, ReelHolds
<1>. QED
  BY <1>4, <1>6, <1>7, <1>8, <1>9, <1>10, <1>11, <1>12 DEF PlanInv

\* The invariant is inductive: entries vouch for what they name, what is done stands,
\* and an attempt follows its intent (plan_executor.py 633-1017, recovery.py 101-340).
THEOREM PlanCorrect == PlanSpec => []PlanInv
<1>1. PlanInit => PlanInv
  BY PlanStarts
<1>2. PlanInv /\ [PlanNext]_planVars => PlanInv'
  <2>. SUFFICES ASSUME PlanInv, [PlanNext]_planVars PROVE PlanInv'
    OBVIOUS
  <2>1. FilesMove /\ mode' = mode /\ mode \in Modes
    BY StepMovesFiles DEF PlanInv
  <2>2. FilesTyped' /\ DiskHolds'
    BY <2>1, FilesKeep DEF PlanInv
  <2>3. ExecHolds'
    BY <2>1, ExecKeeps
  <2>4. OrdersTyped' /\ OrdersHold' /\ OneOpenOrder'
    BY <2>1, WorkKeeps
  <2>5. JournalHolds'
    BY <2>1, JournalKeeps
  <2>6. UsedTyped' /\ DOMAIN reviews' = Steps
    BY TheRestKeeps
  <2>7. RecoveryTyped' /\ SentTyped' /\ SentHolds'
    BY AttemptsKeep
  <2>8. GatedHolds' /\ ReelHolds'
    BY GatedKeeps
  <2>. QED
    BY <2>1, <2>2, <2>3, <2>4, <2>5, <2>6, <2>7, <2>8 DEF PlanInv
<1>. QED
  BY <1>1, <1>2, PTL DEF PlanSpec

\* A successful run that nobody disturbed leaves only artifacts made from what is on disk,
\* and reports on what is on disk (plan_executor.py 701-821, 976-1017).
THEOREM CurrentOnSuccess == PlanSpec => []CompletedIsCurrent
<1>1. PlanInv => CompletedIsCurrent
  <2>. SUFFICES ASSUME PlanInv, Success, ~exec.touched, NEW s \in mode.steps
                PROVE  Stands(s)
    BY DEF CompletedIsCurrent, Stands
  <2>1. s \in Steps
    BY StepsAssumption DEF PlanInv, ModeType
  <2>. QED
    BY <2>1 DEF PlanInv, ExecHolds, DoneStands, Success
<1>. QED
  BY <1>1, PlanCorrect, PTL

\* No attempt is asked for twice, of an agent or of a provider, however often the command
\* dies and is run again (plan_executor.py 1335-1357, recovery.py 101-208).
THEOREM AskedOnlyOnce == PlanSpec => []AskedOnce
<1>1. PlanInv => AskedOnce
  <2>. SUFFICES ASSUME PlanInv, NEW s \in Producers, NEW n \in 1..MaxTries
                PROVE  sent[s][n] # "twice"
    BY DEF AskedOnce, AttemptSubmittedOnce, PlanInv
  <2>. QED
    BY DEF PlanInv, SentTyped, Producers
<1>. QED
  BY <1>1, PlanCorrect, PTL

\* An assembly becomes done by being made or by being reused.
LEMMA DeliveryIs ==
  ASSUME PlanInv, [PlanNext]_planVars, NEW s \in Steps, Kind[s] = "assembly",
         IsDone(exec'.results[s]), ~IsDone(exec.results[s])
  PROVE  (Reuse \/ Assemble) /\ s = Current
<1>1. ExecTyped /\ DOMAIN exec = Fields /\ DOMAIN exec.results = Steps /\ DoingHolds
  BY DEF PlanInv, ExecHolds, ExecTyped, AreEntries
<1>2. exec'.results # exec.results
  OBVIOUS
<1>3. exec' # Idle /\ \A base : DOMAIN base = Fields => exec' # Pass(base)
  <2>1. ~IsDone(Entries[s]) /\ Idle.results = Entries
    BY DEF Entries, Blank, IsDone, Idle
  <2>2. \A base : DOMAIN base = Fields => Pass(base).results = Entries
    BY DEF Pass, Fields
  <2>. QED
    BY <2>1, <2>2
\* The result of another step.
<1>4. \A e : Results(e) /\ s # Current => exec'.results[s] = exec.results[s]
  BY <1>1 DEF Results, Fields
<1>20. Reuse /\ s # Current => exec'.results[s] = exec.results[s]
  <2>1. Reuse => \E e : exec' = [exec EXCEPT !.phase = "consider", !.at = @ + 1,
                                             !.results[Current] = e]
    BY DEF Reuse
  <2>2. \A e : exec' = [exec EXCEPT !.phase = "consider", !.at = @ + 1, !.results[Current] = e]
                => exec'.results = [exec.results EXCEPT ![Current] = e]
    BY <1>1 DEF Fields
  <2>. QED
    BY <1>1, <2>1, <2>2
<1>5. \A e : Record(e) => exec'.results[s] \in {e, exec.results[s]} /\
                          (s # Current => exec'.results[s] = exec.results[s])
  BY <1>1 DEF Record, Fields
<1>6. \A e : Results(e) => exec'.results[s] \in {e, exec.results[s]}
  BY <1>1 DEF Results, Fields
<1>7. ~(Blocked \/ Unresolved \/ GateHolds)
  <2>1. Blocked \/ Unresolved \/ GateHolds =>
          \E status \in {"blocked", "failed"} : Record(Entry(status, <<>>))
    BY DEF Blocked, Unresolved, GateHolds
  <2>2. \A status \in {"blocked", "failed"} : ~IsDone(Entry(status, <<>>))
    BY DEF Entry, Blank, IsDone
  <2>. QED
    BY <1>5, <2>1, <2>2
<1>8. ~Refuse
  <2>. SUFFICES ASSUME Refuse PROVE FALSE
    OBVIOUS
  <2>1. PICK inputs, code : Results([Entry("failed", inputs) EXCEPT !.code = code])
    BY DEF Refuse
  <2>2. ~IsDone([Entry("failed", inputs) EXCEPT !.code = code])
    BY DEF Entry, Blank, IsDone
  <2>. QED
    BY <1>6, <2>1, <2>2
<1>9. ~(ExecuteQC \/ ExecuteHandoff)
  <2>. SUFFICES ASSUME ExecuteQC \/ ExecuteHandoff PROVE FALSE
    OBVIOUS
  <2>1. (\E e : Results(e)) /\ s # Current
    BY DEF ExecuteQC, ExecuteHandoff, Executes
  <2>. QED
    BY <1>4, <2>1
<1>10. ~(ExecutorCompletes \/ ExecutorFails \/ ExecutorContinues)
  <2>. SUFFICES ASSUME ExecutorCompletes \/ ExecutorFails \/ ExecutorContinues PROVE FALSE
    OBVIOUS
  <2>1. (\E e : Results(e)) /\ s # Current
    BY <1>1 DEF ExecutorCompletes, ExecutorFails, ExecutorContinues, DoingHolds, Doing
  <2>. QED
    BY <1>4, <2>1
<1>11. ~(GatePasses \/ Dispatch \/ Collect \/ NewAttempt \/ CallExecutor \/ \E t \in Steps : ReadClip(t))
  BY <1>1, <1>2 DEF GatePasses, Dispatch, Collect, NewAttempt, CallExecutor, ReadClip, Fields
<1>21. ~(AssemblyGate \/ EncodeFails)
  <2>1. AssemblyGate \/ EncodeFails =>
          \/ exec'.results = exec.results
          \/ \E inputs : \E status \in {"blocked", "failed"} : Results(Entry(status, inputs))
    BY <1>1 DEF AssemblyGate, EncodeFails, Fields
  <2>2. \A inputs : \A status \in {"blocked", "failed"} : ~IsDone(Entry(status, inputs))
    BY DEF Entry, Blank, IsDone
  <2>. QED
    BY <1>2, <1>6, <2>1, <2>2
<1>12. ~(Checkpoint \/ CheckpointStates \/ CheckpointPause)
  BY <1>1, <1>2 DEF Checkpoint, CheckpointStates, CheckpointPause, Fields
<1>13. ~Finish
  <2>1. Finish => exec' = Idle \/ exec' = [exec EXCEPT !.phase = "classify"]
    BY DEF Finish
  <2>. QED
    BY <1>1, <1>2, <1>3, <2>1 DEF Fields
<1>14. ~(Classify \/ Dies \/ Interrupted)
  BY <1>3 DEF Classify, Dies, Interrupted
<1>15. ~(Start \/ RetryContent)
  <2>1. DOMAIN Idle = Fields
    BY DEF Idle, Fields
  <2>. QED
    BY <1>1, <1>3, <2>1 DEF Start, RetryContent
<1>16. ~Beside
  BY <1>2, BesideIs
<1>18. Reuse \/ Assemble
  BY <1>7, <1>8, <1>9, <1>10, <1>11, <1>12, <1>13, <1>14, <1>15, <1>16, <1>21
     DEF PlanNext, Command, Others, Beside
<1>19. s = Current
  <2>1. (\E e : Results(e)) \/ Reuse
    BY <1>18 DEF Assemble
  <2>. QED
    BY <1>4, <1>20, <2>1
<1>. QED
  BY <1>18, <1>19

\* Whatever an assembly delivers was made from reviewed contents that are approved as they are,
\* whether it is made now or its old output is reused, but for the shots that somebody else
\* changed or judged after the gate (plan_executor.py 754-795, 1822-1867).
THEOREM OnlyReviewedDelivered == PlanSpec => DeliveredIsReviewed
<1>1. ASSUME PlanInv, [PlanNext]_planVars, NEW s \in Steps, Kind[s] = "assembly",
             IsDone(exec'.results[s]), ~IsDone(exec.results[s]),
             NEW p \in (Consumes[s] \cap Reviewed) \ exec.overtaken
      PROVE  /\ reviews[p].verdict = "approved"
             /\ reviews[p].sha = origin'[s][disk'[s]].from[p]
  <2>1. (Reuse \/ Assemble) /\ s = Current
    BY <1>1, DeliveryIs
  <2>2. Covered(s) = Consumes[s] /\ p \in Covered(s) /\ FilesTyped /\ GatedHolds
    BY <1>1 DEF Covered, PlanInv
  <2>3. exec.phase \in {"gated", "encode"} =>
          reviews[p].verdict = "approved" /\ reviews[p].sha = disk[p] /\ disk[p] # 0
    BY <1>1, <2>1, <2>2 DEF GatedHolds
  <2>4. CASE Reuse
    <3>1. Vouches(s, Inputs(s), disk[s]) /\ exec.phase = "gated" /\ UNCHANGED files
      BY <1>1, <2>1, <2>4, ReuseIs DEF Reuse
    <3>2. Inputs(s) = exec.inputs /\ exec.inputs[p] = disk[p]
      BY <1>1, <2>1, <2>2, <3>1 DEF Inputs, GatedHolds
    <3>3. exec.inputs[p] \in {0, origin[s][disk[s]].from[p]} \/ Past(p, exec.inputs[p])
      BY <1>1, <2>2, <3>1, <3>2 DEF Vouches
    <3>4. disk[p] = origin[s][disk[s]].from[p]
      BY <2>3, <3>1, <3>2, <3>3 DEF Past
    <3>. QED
      BY <2>3, <3>1, <3>4 DEF files
  <2>5. CASE Assemble
    <3>1. PICK c \in Contents(s) :
            /\ exec.phase = "encode" /\ DOMAIN exec.reel = Consumes[s]
            /\ c.from = exec.reel /\ Write(s, c)
      <4>1. \E u \in Steps : \E c \in Contents(u) :
              /\ u = Current /\ exec.phase = "encode" /\ DOMAIN exec.reel = Consumes[u]
              /\ c.from = exec.reel /\ Write(u, c)
        BY <1>1, <2>5, AssembleIs
      <4>2. PICK u \in Steps : u = s /\ \E c \in Contents(u) :
              /\ exec.phase = "encode" /\ DOMAIN exec.reel = Consumes[u]
              /\ c.from = exec.reel /\ Write(u, c)
        BY <2>1, <4>1
      <4>. QED
        BY <4>2
    <3>2. exec.reel[p] = disk[p]
      BY <1>1, <2>1, <2>2, <3>1 DEF GatedHolds
    <3>3. origin'[s][disk'[s]] = c
      <4>1. disk'[s] = Len(origin[s]) + 1 /\ origin'[s][Len(origin[s]) + 1] = c
        BY <2>2, <3>1, WriteIs
      <4>. QED
        BY <4>1, Zenon
    <3>. QED
      BY <2>3, <3>1, <3>2, <3>3
  <2>. QED
    BY <2>1, <2>4, <2>5
<1>2. PlanInv /\ [PlanNext]_planVars =>
        [\A s \in Steps :
           /\ Kind[s] = "assembly"
           /\ IsDone(exec'.results[s]) /\ ~IsDone(exec.results[s])
           => \A p \in (Consumes[s] \cap Reviewed) \ exec.overtaken :
                /\ reviews[p].verdict = "approved"
                /\ reviews[p].sha = origin'[s][disk'[s]].from[p]]_planVars
  BY <1>1
<1>. QED
  BY <1>2, PlanCorrect, PTL DEF PlanSpec, DeliveredIsReviewed
=============================================================================
